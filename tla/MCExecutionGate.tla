--------------------------- MODULE MCExecutionGate ---------------------------
(***************************************************************************)
(* ExecutionGate on a small instance: two bindings that differ in their    *)
(* script, and instances started with or without a standing authorization  *)
(* or with the catalog and operator changed.                               *)
(***************************************************************************)
EXTENDS ExecutionGate, TLC

CONSTANTS b1, b2, s1, s2, op1, op2

MCScriptOf == b1 :> s1 @@ b2 :> s2

Config(b, op, standing) == [catalog |-> b, operator |-> op, standing |-> standing]

MCConfigs == {Config(b1, op1, {}), Config(b1, op2, {b1}), Config(b2, op2, {})}

(* Calls and instances are interchangeable: no definition names one.        *)
Symmetry == Permutations(Calls) \cup Permutations(Owners)

=============================================================================
