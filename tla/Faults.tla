------------------------------- MODULE Faults -------------------------------
(***************************************************************************)
(* A budget of environment faults shared by the specifications of this     *)
(* project.  A fault is a step the program cannot prevent: the process     *)
(* dies, a file system call fails, a remote call ends in an error.  The    *)
(* budget MaxFaults bounds how often each kind happens in one behaviour,   *)
(* so that TLC explores finitely many states; the proofs hold for every    *)
(* value of it.                                                            *)
(***************************************************************************)
EXTENDS Naturals

CONSTANTS FaultKinds,   \* the kinds of fault the environment may inject
          MaxFaults     \* how many faults of each kind a behaviour may hold

ASSUME MaxFaultsAssumption == MaxFaults \in [FaultKinds -> Nat]

VARIABLE faults         \* how many faults of each kind have happened

FaultsTypeOK == faults \in [FaultKinds -> Nat]

FaultsInit == faults = [k \in FaultKinds |-> 0]

\* One more fault of kind k happens in this step.
Fault(k) ==
    /\ faults[k] < MaxFaults[k]
    /\ faults' = [faults EXCEPT ![k] = @ + 1]

NoFault == UNCHANGED faults
=============================================================================
