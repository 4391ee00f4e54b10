----------------------------- MODULE FaultMixes -----------------------------
(***************************************************************************)
(* Faults, with a second bound for large models: which kinds of faults may *)
(* meet in one behaviour.                                                  *)
(***************************************************************************)
EXTENDS Faults

CONSTANT FaultMixes     \* sets of kinds that may meet

ASSUME FaultMixesAssumption == FaultMixes \subseteq SUBSET FaultKinds

\* One more fault of kind k happens in this step.
Happens(k) ==
    /\ Fault(k)
    /\ \E mix \in FaultMixes : \A j \in FaultKinds : faults'[j] > 0 => j \in mix
=============================================================================
