---------------------------- MODULE MCRepairAgent ----------------------------
(* Instances of RepairAgent for TLC. *)
EXTENDS RepairAgent

CONSTANTS p1, p2, s1

Limits(steps, spent, rejected, calls, spend) ==
    [steps |-> steps, cost |-> spent, formats |-> rejected, calls |-> calls, spend |-> spend]

\* Steps only; cost and format errors; global limits behind a limit on steps.
MCConfigs == {Limits(4, 0, 0, 0, 0), Limits(0, 5, 2, 0, 0),
              Limits(2, 0, 2, 2, 0), Limits(2, 0, 0, 0, 3)}
MCPaths == {p1, p2}
MCScopes == {s1}
MCPrices == {2}
MCLengths == [tool \in Tools |->
    CASE tool \in {"read", "search", "diff"} -> {5}
      [] tool = "validate" -> {3, 5}
      [] OTHER -> {1}]
=============================================================================
