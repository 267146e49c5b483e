------------------------------- MODULE Faults -------------------------------
(***************************************************************************)
(* Whatever goes wrong outside the code: a command that fails or whose     *)
(* answer is lost, a process that ends.  A run allows a number of them.    *)
(***************************************************************************)
EXTENDS Naturals

CONSTANT MaxFaults  \* bound

ASSUME FaultsAssumption == MaxFaults \in Nat

VARIABLE faults

Fault == faults < MaxFaults /\ faults' = faults + 1
Fine == UNCHANGED faults
=============================================================================
