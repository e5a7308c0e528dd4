------------------------------ MODULE Ceiling ------------------------------
(***************************************************************************)
(* The arithmetic of the resource ceiling (pipeline/ceiling.py): which     *)
(* number of equal shares of the host's budget fits, and the share a new    *)
(* container is given.  Memory is in units of the budget, CPU in units of   *)
(* the CPU floor; what the host has available is read anew at every call.   *)
(***************************************************************************)
EXTENDS Naturals

CONSTANTS
  BudgetRam,   \* budget_ram_mb, fitted to the host when the run starts
  RamFloor,    \* container_ram_floor_mb
  BudgetCpu    \* budget_cpu, in multiples of container_cpu_floor

ASSUME CeilingAssumption ==
  BudgetRam \in Nat \ {0} /\ RamFloor \in Nat /\ BudgetCpu \in Nat

AtLeastOne(n) == IF n < 1 THEN 1 ELSE n

\* _limits_for: the memory of one of n shares.
Share(n) == AtLeastOne(BudgetRam \div AtLeastOne(n))

\* _fits: what a container alone is given is never tested against the floors.
Fits(n, available) ==
  /\ n * Share(n) <= BudgetRam
  /\ n > 1 => Share(n) >= RamFloor /\ BudgetCpu >= n
  /\ available >= Share(n)

\* The loop of plan and acquire: from n down to the first number that fits.
Shrunk(n, available) ==
  CHOOSE k \in 1 .. AtLeastOne(n) :
    /\ k = 1 \/ Fits(k, available)
    /\ \A j \in (k + 1) .. AtLeastOne(n) : ~Fits(j, available)

\* acquire, with running containers already started.
Granted(running, planned, available) ==
  LET n == running + 1
      fit == Shrunk(IF planned > n THEN planned ELSE n, available)
  IN  Share(IF n > fit THEN fit ELSE n)
=============================================================================
