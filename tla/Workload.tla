------------------------------ MODULE Workload ------------------------------
(***************************************************************************)
(* workload validate --execute: runs a pod on a read-write export and one  *)
(* on a read-only export, and checks that a sentinel file written on the   *)
(* host is seen by every guest and by the pod.                             *)
(***************************************************************************)
EXTENDS CsiInstall

OfAccess(c, access) == {p \in DOMAIN c.exports : c.exports[p].access = access}

\* verify_workload_validation_inputs and select_workload_validation_exports,
\* without the exports an operator may name.
WorkloadInputsOK(c) == CsiInputsOK(c) /\ \A access \in Accesses : OfAccess(c, access) # {}

\* The export ids are sorted; which one comes first does not matter here.
Selected(c, access) == CHOOSE p \in OfAccess(c, access) : TRUE

Seen(p) == <<<<"sentinel", p>>, <<"guests-see", p>>, <<"pod-sees", p>>, <<"remove", p>>>>

\* Running the scripts in the pods, observing the daemons and restarting one
\* change nothing of what is modelled here.
WorkloadSteps(c) ==
    LET writable == Selected(c, "read-write")
        readOnly == Selected(c, "read-only")
    IN  <<<<"pods", 0>>, <<"pods-served", writable>>, <<"pods-served", readOnly>>>>
        \o Seen(writable) \o Seen(readOnly)
        \o <<<<"pods-served", writable>>, <<"pods-served", readOnly>>, <<"delete-pods", 0>>>>

\* The sentinel's text ends in a newline; CommandRunner::output trims what the
\* pod printed, guest_exec_output does not.
Sentinel == [text |-> "nas-csi workload validation", newline |-> TRUE]
Trimmed(output) == [output EXCEPT !.newline = FALSE]

WorkloadHolds(step) ==
    LET c == run.config
        p == step[2]
    IN  CASE step[1] \in {"pods", "delete-pods"} -> HostApi
          [] step[1] = "pods-served" -> HostApi /\ cluster.volumes # Unset /\ Served(c, p)
          [] step[1] \in {"sentinel", "remove"} -> TRUE
          [] step[1] = "guests-see" ->
                \A n \in DOMAIN c.nodes : Assigned(c, n, p) => Mounted(c, n, p)
          [] step[1] = "pod-sees" -> Trimmed(Sentinel) = Sentinel

StepWorkloadPods(step) ==
    /\ step[1] \in {"pods", "delete-pods"}
    /\ cluster' = [cluster EXCEPT !.pods =
                    IF step[1] = "pods" THEN @ \cup {"workload"} ELSE @ \ {"workload"}]
    /\ UNCHANGED <<guest, files>>

StepSentinel(step) ==
    /\ step[1] \in {"sentinel", "remove"}
    /\ files' = [files EXCEPT !.sentinel = (step[1] = "sentinel")]
    /\ UNCHANGED <<guest, cluster>>

StepWatch(step) ==
    step[1] \in {"pods-served", "guests-see", "pod-sees"} /\ UNCHANGED world

WorkloadStep(step) == StepWorkloadPods(step) \/ StepSentinel(step) \/ StepWatch(step)

\* What is still done when the step fails.
NoCleanup(step) == <<>>                 \* a mutant of Cleanup
Cleanup(step) ==
    IF step[1] \in {"guests-see", "pod-sees"} THEN <<<<"remove", step[2]>>>> ELSE <<>>

WorkloadKinds == {"pods", "delete-pods", "pods-served", "sentinel", "remove", "guests-see", "pod-sees"}
=============================================================================
