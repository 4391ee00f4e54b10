----------------------------- MODULE RpcService -----------------------------
(***************************************************************************)
(* What the TrueNAS JSON-RPC client promises to the backend of the         *)
(* controller: calls are made one after the other, TrueNAS executes each   *)
(* of them at most once, and a call that ends with an answer ends with its *)
(* own.  A call that ends in an error says nothing: TrueNAS may have       *)
(* executed it, may execute it later, or never.                            *)
(***************************************************************************)
EXTENDS Naturals

CONSTANT MaxCalls       \* calls are numbered from 1 to MaxCalls

VARIABLES outcome,      \* what TrueNAS did about each call
          told          \* what the caller of each call was told

Ids == 1..MaxCalls
Outcomes == {"done", "refused"}

ServiceTypeOK ==
    /\ outcome \in [Ids -> Outcomes \cup {"none"}]
    /\ told \in [Ids -> Outcomes \cup {"none", "waiting", "error"}]

ServiceInit ==
    /\ outcome = [n \in Ids |-> "none"]
    /\ told = [n \in Ids |-> "none"]

Ask(n) ==
    /\ told[n] = "none"
    /\ \A m \in Ids : told[m] # "waiting"
    /\ told' = [told EXCEPT ![n] = "waiting"]
    /\ UNCHANGED outcome

Perform(n) ==
    /\ told[n] # "none"
    /\ outcome[n] = "none"
    /\ \E o \in Outcomes : outcome' = [outcome EXCEPT ![n] = o]
    /\ UNCHANGED told

Tell(n) ==
    /\ told[n] = "waiting"
    /\ outcome[n] # "none"
    /\ told' = [told EXCEPT ![n] = outcome[n]]
    /\ UNCHANGED outcome

Fail(n) ==
    /\ told[n] = "waiting"
    /\ told' = [told EXCEPT ![n] = "error"]
    /\ UNCHANGED outcome

ServiceNext == \E n \in Ids : Ask(n) \/ Perform(n) \/ Tell(n) \/ Fail(n)

ServiceSpec == ServiceInit /\ [][ServiceNext]_<<outcome, told>>
=============================================================================
