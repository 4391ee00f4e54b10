----------------------------- MODULE HostApply -----------------------------
(***************************************************************************)
(* The host agent: crates/host-agent, the commands apply --execute,        *)
(* host-install --execute and host-install --post-reboot-check.            *)
(*                                                                         *)
(* A run of a command inspects the host, plans, takes the lock file,       *)
(* executes the operations of the plan one by one, and takes back what it  *)
(* staged when one of them fails; host-install then verifies the result,   *)
(* still under the lock.  Inspection and planning come BEFORE the lock, a  *)
(* killed run leaves the lock file behind, and cluster apply starts VMs    *)
(* without the lock, so a run is cut at every operation.                   *)
(***************************************************************************)
EXTENDS HostPlan, FaultMixes

CONSTANTS Appliers,     \* host-agent processes there can be at once
          Configs,      \* contents /etc/nas-csi/host.yaml may have
          Flags,        \* sets of --allow flags an operator may give
          Kinds,        \* commands run: "apply", "install", "check"
          Sites,        \* tools found on the host, state of the base image
          Hosts,        \* what the host is like before the first run
          Misses,       \* sets of inspection commands that can fail together
          Free, Left,   \* the lock file: none, or one whose writer is gone
          MeddlesDuring \* VMs may be started and stopped while a run is on

Tools == {"virtiofsd", "qemu-img", "systemctl", "virsh"}
Images == {"none", "verified", "unverified"}
Results == {"none", "done", "failed", "refused", "busy", "rejected", "broken"}
\* A running VM is a defined one.
Domains == {d \in [def: Definitions, live: Definitions, autostart: BOOLEAN] :
               d.def = Missing => d.live = Missing}

ASSUME ConfigsAssumption == Configs \subseteq HostConfigs
ASSUME FlagsAssumption == Flags \subseteq SUBSET {"redefine", "adoption"}
ASSUME KindsAssumption == Kinds \subseteq {"apply", "install", "check"}
ASSUME SitesAssumption == Sites \subseteq [tools: SUBSET Tools, image: Images]
ASSUME HostsAssumption ==
    Hosts \subseteq [file: [Files -> Contents], disk: [Nodes -> Disks \cup {NoDisk}],
                     domain: [Nodes -> Domains]]

\* What an inspection asks of a node: virsh dumpxml, domstate and dominfo, and
\* qemu-img info of its root disk; of a unit: systemctl is-active and
\* is-enabled; and qemu-img info of the base image.
BaseInfo == <<"base", 0, 0>>
Probes == NodeSteps({"dumpxml", "domstate", "dominfo", "info"}) \cup {BaseInfo}
          \cup {<<k, u[1], u[2]>> : k \in {"is-active", "is-enabled"}, u \in Units}

ASSUME MissesAssumption == Misses \subseteq SUBSET Probes
ASSUME LockAssumption == Free # Left /\ Free \notin Appliers /\ Left \notin Appliers
ASSUME FaultKindsAssumption ==
    {"crash", "fail", "broken", "reboot", "edit", "meddle", "inspect"} \subseteq FaultKinds

VARIABLES
    site,       \* tools and base image of the host; never change
    config,     \* the host configuration file
    file,       \* rendered artifacts, seed images, systemd unit files
    disk,       \* root disk images
    loaded,     \* unit files as systemd last read them
    enabled,    \* units systemd starts at boot
    running,    \* the unit content each virtiofsd was started from
    domain,     \* libvirt: persistent definition, live one, autostart
    lock,       \* apply.lock
    run         \* what each host-agent process is doing

host == <<file, disk, loaded, enabled, running, domain>>
vars == <<faults, site, config, host, lock, run>>

Idle(result) == [at |-> "idle", result |-> result]

Init ==
    /\ FaultsInit
    /\ site \in Sites
    /\ config \in Configs
    /\ \E h \in Hosts : file = h.file /\ disk = h.disk /\ domain = h.domain
    /\ loaded = [u \in Units |-> file[Unit(u)]]
    /\ enabled = {u \in Units : file[Unit(u)] # Missing}
    /\ running = loaded
    /\ lock = Free
    /\ run = [p \in Appliers |-> Idle("none")]

(***************************************************************************)
(* inspect_actual_state and inspect_status_state.  virsh dumpxml shows the *)
(* live definition of a running domain.  inspect_status_state does not     *)
(* look at the rendered artifacts.                                         *)
(*                                                                         *)
(* A command that exits with an error is read as "there is nothing":       *)
(* dumpxml as no such domain, of which nothing else is asked, domstate as  *)
(* a VM that does not run (and so is a state other than running, as        *)
(* paused), dominfo as no autostart, is-active and is-enabled as no.  Only *)
(* an image qemu-img tells nothing of is refused.                          *)
(***************************************************************************)
StatusFiles == Files \ {Xml(n) : n \in Nodes}

Shown(d) == IF d.live # Missing THEN d.live ELSE d.def

Seen(scope, missed) ==
    LET answers(k, n) == <<k, n, 0>> \notin missed
        says(k, u) == <<k, u[1], u[2]>> \notin missed
        exists(n) == answers("dumpxml", n)
    IN  [file |-> [f \in Files |-> IF f \in scope THEN file[f] ELSE Missing],
         disk |-> [n \in Nodes |-> IF disk[n] = NoDisk \/ answers("info", n) THEN disk[n]
                                   ELSE [disk[n] EXCEPT !.foreign = TRUE]],
         image |-> IF site.image = "verified" /\ BaseInfo \in missed
                   THEN "unverified" ELSE site.image,
         tools |-> site.tools,
         enabled |-> {u \in enabled : says("is-enabled", u)},
         active |-> {u \in Units : running[u] # Missing /\ says("is-active", u)},
         domain |-> [n \in Nodes |->
            [hash |-> IF exists(n) THEN Shown(domain[n]) ELSE Missing,
             active |-> exists(n) /\ answers("domstate", n) /\ domain[n].live # Missing,
             autostart |-> exists(n) /\ answers("dominfo", n) /\ domain[n].autostart]]]

PlanFor(c, scope, missed, allow, starts) == Plan(c, Seen(scope, missed), allow, starts)

\* reconcile_operation_target_paths; defining a new domain has none.
TargetOf(s) == IF s[1] = "define" THEN Xml(s[2]) ELSE s
WritesNew(plan, s) == plan[s] \in {"write", "create", "redefine"}   \* a mutant of Writes
Writes(plan, s) == plan[s] \in {"write", "create", "resize", "redefine"}
MutatesDatasets(c, plan) == \E s \in ToApply(plan) : Writes(plan, s) /\ TargetOf(s) \in c.inside

End(p, result) == run' = [run EXCEPT ![p] = Idle(result)]
KeepLock(p) == UNCHANGED lock                       \* a mutant of Release
Release(p) == lock' = IF lock = p THEN Free ELSE lock
Goto(p, at) == run' = [run EXCEPT ![p].at = at]

\* A run starts: it loads the configuration, inspects and plans.  missed: the
\* commands of the inspection that fail.
Begin(p, kind, allow, starts, missed) ==
    /\ run[p].at = "idle"
    /\ starts => kind # "apply"
    /\ IF missed = {} THEN NoFault ELSE Happens("inspect")
    /\ LET plan == PlanFor(config, Files, missed, allow, starts)
       IN  IF kind = "install" /\ MutatesDatasets(config, plan)
           THEN End(p, "refused")
           ELSE run' = [run EXCEPT ![p] =
                   [at |-> IF kind = "check" THEN "verifying" ELSE "planned",
                    kind |-> kind, config |-> config, allow |-> allow, starts |-> starts,
                    missed |-> missed,
                    plan |-> IF kind = "check" THEN [s \in {} |-> "skip"] ELSE plan,
                    previous |-> [n \in Nodes |-> Seen(Files, missed).domain[n].hash],
                    undo |-> <<>>, before |-> [file |-> file, domain |-> domain]]]
    /\ UNCHANGED <<site, config, host, lock>>

(***************************************************************************)
(* ApplyLock::acquire.  The file is created first and written afterwards:  *)
(* when writing it fails nobody removes it.                                *)
(***************************************************************************)
Acquire(p) ==
    /\ run[p].at = "planned"
    /\ \/ /\ lock = Free
          /\ lock' = p
          /\ Goto(p, "locked")
       \/ /\ lock # Free
          /\ End(p, "busy")
          /\ UNCHANGED lock
    /\ UNCHANGED <<faults, site, config, host>>

AcquireFails(p) ==
    /\ run[p].at = "planned"
    /\ lock = Free
    /\ Happens("fail")
    /\ lock' = Left
    /\ End(p, "failed")
    /\ UNCHANGED <<site, config, host>>

\* ExecuteSafety::from_config, and the refusal of a plan with refusals.
Check(p) ==
    /\ run[p].at = "locked"
    /\ LET r == run[p]
       IN  IF r.config.odd \/ HasRefusals(r.plan)
           THEN End(p, "refused") /\ Release(p)
           ELSE /\ run' = [run EXCEPT ![p].at = "executing",
                                      ![p].plan = [s \in ToApply(@) |-> @[s]],
                                      ![p].before = [file |-> file, domain |-> domain]]
                /\ UNCHANGED lock
    /\ UNCHANGED <<faults, site, config, host>>

(***************************************************************************)
(* execute_reconcile_operation.  c is the configuration of the run, n the  *)
(* node and u the unit of the step.                                        *)
(***************************************************************************)
\* ExecuteSafety::validate: the operation is about a node or unit of the run's
\* own configuration.
Guarded(c, s) ==
    CASE s[1] \in {"unit", "daemon"} -> <<s[2], s[3]>> \in UnitsOf(c)
      [] s[1] = "reload" -> TRUE
      [] OTHER -> s[2] \in Nodes

\* The command can succeed.  qemu keeps the image of a running VM locked,
\* and a VM needs its disk and the sockets of its exports to start.
Ready(c, op, n, u) ==
    CASE op = "create" -> file[Dir(n)] # Missing /\ domain[n].live = Missing
      [] op = "resize" -> disk[n] # NoDisk /\ domain[n].live = Missing
      [] op \in {"define", "redefine"} -> file[Xml(n)] # Missing
      [] op = "autostart" -> domain[n].def # Missing
      [] op = "start" -> /\ domain[n].def # Missing /\ domain[n].live = Missing
                         /\ disk[n] # NoDisk
                         /\ \A v \in UnitsOf(c) : v[1] = n => running[v] # Missing
      [] OTHER -> TRUE

\* systemctl enable reads all unit files again, as daemon-reload does.
ReadUnits == [u \in Units |-> file[Unit(u)]]

StartVm(n) ==
    /\ domain' = [domain EXCEPT ![n].live = domain[n].def]
    /\ disk' = IF disk[n] = NoDisk THEN disk ELSE [disk EXCEPT ![n].used = TRUE]

OnFiles(c, op, s) ==
    /\ op = "write"
    /\ file' = [file EXCEPT ![s] = c.want[s]]
    /\ UNCHANGED <<disk, loaded, enabled, running, domain>>

OnDisk(c, op, n) ==
    /\ \/ /\ op = "create"
          /\ disk' = [disk EXCEPT ![n] = [size |-> c.size[n], foreign |-> FALSE, used |-> FALSE]]
       \/ /\ op = "resize"
          /\ disk' = [disk EXCEPT ![n].size = c.size[n]]
    /\ UNCHANGED <<file, loaded, enabled, running, domain>>

OnUnits(op, u) ==
    /\ \/ /\ op = "reload"
          /\ loaded' = ReadUnits
          /\ UNCHANGED <<enabled, running>>
       \/ /\ op = "enable"
          /\ loaded' = ReadUnits
          /\ enabled' = enabled \cup {u}
          /\ running' = IF running[u] = Missing
                        THEN [running EXCEPT ![u] = file[Unit(u)]] ELSE running
       \/ /\ op = "restart"
          /\ running' = [running EXCEPT ![u] = loaded[u]]
          /\ UNCHANGED <<loaded, enabled>>
    /\ UNCHANGED <<file, disk, domain>>

OnDomain(op, n) ==
    /\ \/ /\ op \in {"define", "redefine"}
          /\ domain' = [domain EXCEPT ![n].def = file[Xml(n)]]
          /\ UNCHANGED disk
       \/ /\ op = "autostart"
          /\ domain' = [domain EXCEPT ![n].autostart = TRUE]
          /\ UNCHANGED disk
       \/ /\ op = "start"
          /\ StartVm(n)
    /\ UNCHANGED <<file, loaded, enabled, running>>

Effect(c, op, s) ==
    \/ OnFiles(c, op, s)
    \/ OnDisk(c, op, s[2])
    \/ OnUnits(op, <<s[2], s[3]>>)
    \/ OnDomain(op, s[2])

\* stage_file_change for a unit file, stage_domain_redefine for a domain:
\* what to put back, recorded before the operation runs.
StagedFiles(r, op, s) ==                \* mutants of Staged
    IF s[1] = "unit" THEN Append(r.undo, [step |-> s, old |-> file[s]]) ELSE r.undo
StagedAll(r, op, s) ==
    CASE s[1] = "unit" -> Append(r.undo, [step |-> s, old |-> file[s]])
      [] s[1] = "define" -> Append(r.undo, [step |-> s, old |-> r.previous[s[2]]])
      [] OTHER -> r.undo
Staged(r, op, s) ==
    CASE s[1] = "unit" /\ file[s] # r.config.want[s] ->
            Append(r.undo, [step |-> s, old |-> file[s]])
      [] op = "redefine" -> Append(r.undo, [step |-> s, old |-> r.previous[s[2]]])
      [] OTHER -> r.undo

\* The next operation of the plan.
IsNext(r, s) == s \in DOMAIN r.plan /\ IsFirst(s, DOMAIN r.plan)

Execute(p) ==
    /\ run[p].at = "executing"
    /\ \E s \in DOMAIN run[p].plan :
          LET r == run[p]  op == r.plan[s]
          IN  /\ IsNext(r, s)
              /\ Guarded(r.config, s)
              /\ Ready(r.config, op, s[2], <<s[2], s[3]>>)
              /\ Effect(r.config, op, s)
              /\ run' = [run EXCEPT ![p].plan = [t \in DOMAIN @ \ {s} |-> @[t]],
                                    ![p].undo = Staged(r, op, s)]
    /\ UNCHANGED <<faults, site, config, lock>>

\* The operation ends in an error, after its effect (a virtiofs socket that
\* does not appear in time) or without it: the run takes back what it staged.
ExecuteFails(p) ==
    /\ run[p].at = "executing"
    /\ \E s \in DOMAIN run[p].plan :
          LET r == run[p]  op == r.plan[s]
              ready == Guarded(r.config, s) /\ Ready(r.config, op, s[2], <<s[2], s[3]>>)
          IN  /\ IsNext(r, s)
              /\ IF ready THEN Happens("fail") ELSE NoFault
              /\ \/ ready /\ Effect(r.config, op, s)
                 \/ UNCHANGED host
              /\ run' = [run EXCEPT ![p].at = "restoring", ![p].undo = Staged(r, op, s)]
    /\ UNCHANGED <<site, config, lock>>

(***************************************************************************)
(* ExecutionRollback.  restore puts files and domain definitions back,     *)
(* last first; it neither reloads systemd nor restarts a daemon, and stops *)
(* at its own first error.                                                 *)
(***************************************************************************)
Restore(p) ==
    /\ run[p].at = "restoring"
    /\ run[p].undo # <<>>
    /\ LET undo == run[p].undo
           back == undo[Len(undo)]
       IN  /\ IF back.step[1] = "unit"
              THEN file' = [file EXCEPT ![back.step] = back.old] /\ UNCHANGED domain
              ELSE domain' = [domain EXCEPT ![back.step[2]].def = back.old] /\ UNCHANGED file
           /\ run' = [run EXCEPT ![p].undo = SubSeq(undo, 1, Len(undo) - 1)]
    /\ UNCHANGED <<faults, site, config, disk, loaded, enabled, running, lock>>

RestoreFails(p) ==
    /\ run[p].at = "restoring"
    /\ run[p].undo # <<>>
    /\ Happens("broken")
    /\ End(p, "broken")
    /\ Release(p)
    /\ UNCHANGED <<site, config, host>>

Restored(p) ==
    /\ run[p].at = "restoring"
    /\ run[p].undo = <<>>
    /\ End(p, "failed")
    /\ Release(p)
    /\ UNCHANGED <<faults, site, config, host>>

\* commit removes the backup files; apply is over then.
Commit(p) ==
    /\ run[p].at = "executing"
    /\ DOMAIN run[p].plan = {}
    /\ IF run[p].kind = "apply"
       THEN End(p, "done") /\ Release(p)
       ELSE Goto(p, "verifying") /\ UNCHANGED lock
    /\ UNCHANGED <<faults, site, config, host>>

\* A backup file cannot be removed: the run fails, but nothing is taken back.
CommitFails(p) ==
    /\ run[p].at = "executing"
    /\ DOMAIN run[p].plan = {}
    /\ Happens("broken")
    /\ End(p, "broken")
    /\ Release(p)
    /\ UNCHANGED <<site, config, host>>

(***************************************************************************)
(* The verification of host-install: health report, state of every node,   *)
(* and a second plan that must have nothing left to do.                    *)
(***************************************************************************)
Healthy(c) ==
    /\ site.tools = Tools
    /\ \A n \in Nodes : Shown(domain[n]) \in Versions
    /\ \A u \in UnitsOf(c) : file[Unit(u)] # Missing /\ u \in enabled /\ running[u] # Missing

NodesVerified(c, starts) ==
    \A n \in Nodes :
        /\ disk[n] # NoDisk
        /\ file[Seed(n)] = c.want[Seed(n)]
        /\ n \in c.autostart => domain[n].autostart
        /\ starts => domain[n].live # Missing

SecondPlan(c, scope, allow, starts) == Converged(PlanFor(c, scope, {}, allow, starts))

VerifiedBy(r, scope) ==
    /\ Healthy(r.config)
    /\ NodesVerified(r.config, r.starts)
    /\ SecondPlan(r.config, scope, r.allow, r.starts)

Verify(p) ==
    /\ run[p].at = "verifying"
    /\ End(p, IF VerifiedBy(run[p], StatusFiles) THEN "done" ELSE "rejected")
    /\ Release(p)
    /\ UNCHANGED <<faults, site, config, host>>

\* A guest agent does not answer in time, a dataset is not mounted, or a command
\* of the second inspection fails.
VerifyFails(p) ==
    /\ run[p].at = "verifying"
    /\ Happens("fail")
    /\ End(p, "rejected")
    /\ Release(p)
    /\ UNCHANGED <<site, config, host>>

(***************************************************************************)
(* The environment: a run is killed, the host reboots, the operator edits  *)
(* the configuration or removes a lock file nobody holds, VMs are started  *)
(* (cluster apply does it) and shut down.                                  *)
(***************************************************************************)
LeaveLock(dead) == lock' = IF lock \in dead THEN Left ELSE lock

Kill(p) ==
    /\ run[p].at # "idle"
    /\ Happens("crash")
    /\ End(p, "none")
    /\ LeaveLock({p})
    /\ UNCHANGED <<site, config, host>>

Reboot ==
    /\ Happens("reboot")
    /\ run' = [p \in Appliers |-> Idle("none")]
    /\ LeaveLock(Appliers)
    /\ loaded' = ReadUnits
    /\ running' = [u \in Units |-> IF u \in enabled THEN file[Unit(u)] ELSE Missing]
    /\ domain' = [n \in Nodes |->
            [domain[n] EXCEPT !.live = IF domain[n].autostart THEN domain[n].def ELSE Missing]]
    /\ disk' = [n \in Nodes |-> IF disk[n] # NoDisk /\ domain[n].autostart
                                THEN [disk[n] EXCEPT !.used = TRUE] ELSE disk[n]]
    /\ UNCHANGED <<site, config, file, enabled>>

EditConfig ==
    /\ Happens("edit")
    /\ \E c \in Configs \ {config} : config' = c
    /\ UNCHANGED <<site, host, lock, run>>

ClearLock ==
    /\ lock = Left
    /\ lock' = Free
    /\ UNCHANGED <<faults, site, config, host, run>>

AllIdle == \A p \in Appliers : run[p].at = "idle"

Meddle(n) ==
    /\ MeddlesDuring \/ AllIdle
    /\ Happens("meddle")
    /\ \/ /\ Ready(config, "start", n, <<n, 0>>)
          /\ StartVm(n)
       \/ /\ domain[n].live # Missing
          /\ domain' = [domain EXCEPT ![n].live = Missing]
          /\ UNCHANGED disk
    /\ UNCHANGED <<site, config, file, loaded, enabled, running, lock, run>>

Starts(p) == \E kind \in Kinds, allow \in Flags, starts \in BOOLEAN, missed \in Misses \cup {{}} :
                Begin(p, kind, allow, starts, missed)
Work(p) == \/ Acquire(p) \/ Check(p) \/ Execute(p) \/ ExecuteFails(p) \/ Restore(p)
           \/ Restored(p) \/ Commit(p) \/ Verify(p)
Faulty(p) == AcquireFails(p) \/ RestoreFails(p) \/ CommitFails(p) \/ VerifyFails(p) \/ Kill(p)

Next ==
    \/ \E p \in Appliers : Starts(p) \/ Work(p) \/ Faulty(p)
    \/ Reboot \/ EditConfig \/ ClearLock
    \/ \E n \in Nodes : Meddle(n)

Spec == Init /\ [][Next]_vars

\* The operator removes a left lock and applies again until it works, and a
\* run that has started goes on.
Fairness ==
    /\ WF_vars(ClearLock)
    /\ \A p \in Appliers : /\ WF_vars(Work(p))
                           /\ SF_vars(\E allow \in Flags : Begin(p, "apply", allow, FALSE, {}))

FairSpec == Spec /\ Fairness
-----------------------------------------------------------------------------
(***************************************************************************)
(* Type invariant.                                                         *)
(***************************************************************************)
RunTypeOK(r) ==
    \/ r \in [at: {"idle"}, result: Results]
    \/ /\ r.at \in {"planned", "locked", "executing", "restoring", "verifying"}
       /\ r.kind \in Kinds /\ r.config \in Configs /\ r.allow \in Flags /\ r.starts \in BOOLEAN
       /\ r.missed \subseteq Probes
       /\ DOMAIN r.plan \subseteq Steps(r.config, r.starts)
       /\ r.previous \in [Nodes -> Definitions]
       /\ r.undo \in Seq([step: UnitFiles \cup NodeSteps({"define"}), old: Definitions])

HostTypeOK ==
    /\ FaultsTypeOK
    /\ site \in Sites /\ config \in Configs
    /\ file \in [Files -> Contents]
    /\ disk \in [Nodes -> Disks \cup {NoDisk}]
    /\ loaded \in [Units -> Contents] /\ running \in [Units -> Contents]
    /\ enabled \subseteq Units
    /\ domain \in [Nodes -> Domains]
    /\ lock \in Appliers \cup {Free, Left}
    /\ \A p \in Appliers : RunTypeOK(run[p])

InsideLock(p) == \/ run[p].at \in {"locked", "executing", "restoring"}
                 \/ run[p].at = "verifying" /\ run[p].kind = "install"

(***************************************************************************)
(* Whoever changes the host holds the lock file, no run that ended holds   *)
(* it, and a lock file without a holder is the trace of a failure.         *)
(***************************************************************************)
LockOwned ==
    /\ \A p \in Appliers : lock = p <=> InsideLock(p)
    /\ lock = Left => faults["crash"] + faults["fail"] + faults["reboot"] > 0

(***************************************************************************)
(* apply never replaces and never shrinks the root disk a guest has booted *)
(* from (README of host-agent: never replaces an existing root disk).      *)
(***************************************************************************)
RootDisksKept ==
    [][\A n \in Nodes :
          disk[n] # NoDisk /\ disk[n].used =>
              disk'[n] # NoDisk /\ disk'[n].used /\ disk'[n].size >= disk[n].size]_vars

(***************************************************************************)
(* An operation changes the definition of a running VM only in a run whose *)
(* operator allowed it, or whose inspection did not learn that the VM runs *)
(* (or did not learn of it at all).                                        *)
(***************************************************************************)
Unnoticed(r, n) == <<"dumpxml", n, 0>> \in r.missed \/ <<"domstate", n, 0>> \in r.missed

RunningVmsKept ==
    [][\A p \in Appliers, n \in Nodes :
          /\ run[p].at = "executing" /\ lock = p
          /\ domain[n].live # Missing /\ domain'[n].def # domain[n].def
          => "redefine" \in run[p].allow \/ Unnoticed(run[p], n)]_vars

(***************************************************************************)
(* host-install leaves everything under the source path of an export as it *)
(* was.                                                                    *)
(***************************************************************************)
DatasetsUntouched ==
    [][\A p \in Appliers :
          /\ run[p].at = "executing" /\ run[p].kind = "install" /\ lock = p
          => /\ \A f \in Files \cap run[p].config.inside : file'[f] = file[f]
             /\ \A n \in Nodes : <<"disk", n, 0>> \in run[p].config.inside /\ disk'[n] # disk[n]
                               => disk[n] # NoDisk /\ disk'[n] = [disk[n] EXCEPT !.used = TRUE]]_vars

\* A VM redefined while it runs shows its old definition until it restarts.
AwaitsRestart(n) == domain[n].live # Missing /\ domain[n].live # domain[n].def

Settled(plan) ==
    \A s \in DOMAIN plan :
        plan[s] = "skip" \/ (s[1] = "define" /\ AwaitsRestart(s[2]))

Executed(p) == run[p].at = "executing" /\ DOMAIN run[p].plan = {}

(***************************************************************************)
(* When a run has executed its plan, planning again finds nothing to do.   *)
(***************************************************************************)
ExecutedIsConverged ==
    \A p \in Appliers : Executed(p) =>
        LET r == run[p] IN Settled(PlanFor(r.config, Files, {}, r.allow, r.starts))

\* No run was killed, no rollback broke off and no inspection failed; and no
\* operation failed, or every run is about one configuration.
Unfailed == /\ faults["crash"] + faults["broken"] + faults["inspect"] = 0
            /\ faults["fail"] = 0 \/ faults["edit"] = 0

\* A VM that was redefined before the run began, and runs its old definition.
AwaitedRestart(r, n) == r.before.domain[n].live \notin {Missing, r.before.domain[n].def}

(***************************************************************************)
(* An executed plan means that every daemon serves what its unit file      *)
(* says, from a unit systemd has read and starts at boot, also when an     *)
(* earlier run for the same configuration failed and was rolled back; and  *)
(* that libvirt has the desired definition of every VM, but for one that   *)
(* was already waiting for a restart and happens to run it: the planner    *)
(* sees the live definition only, and leaves the other persistent one.     *)
(***************************************************************************)
ServesDesired ==
    \A p \in Appliers : Executed(p) =>
        LET r == run[p]  c == r.config
        IN  /\ Unfailed => \A u \in UnitsOf(c) : /\ running[u] = c.want[Unit(u)]
                                                 /\ loaded[u] = c.want[Unit(u)]
                                                 /\ u \in enabled
            /\ \A n \in Nodes : \/ domain[n].def = c.want[Xml(n)]
                                \/ AwaitedRestart(r, n) /\ domain[n].live = c.want[Xml(n)]

(***************************************************************************)
(* As long as no run was killed and no operation or inspection failed, a   *)
(* plan restarts a virtiofsd, and so disturbs the guest mounts of a        *)
(* running VM, only when the daemon serves something else than the         *)
(* configuration asks for.                                                 *)
(***************************************************************************)
RestartsNeeded ==
    \A p \in Appliers :
        run[p].at = "executing" /\ faults["crash"] + faults["fail"] + faults["inspect"] = 0 =>
        \A s \in DOMAIN run[p].plan :
            run[p].plan[s] = "restart" =>
                running[<<s[2], s[3]>>] # run[p].config.want[<<"unit", s[2], s[3]>>]

(***************************************************************************)
(* A run that fails and completes its rollback leaves the unit files and   *)
(* the persistent domain definitions it found, except the definition of a  *)
(* VM that was already waiting for a restart, whose live definition is put *)
(* back instead, and of a VM whose definition the inspection failed to     *)
(* read, which the plan defines as if it were new.                         *)
(***************************************************************************)
RollbackRestores ==
    [][\A p \in Appliers :
          run[p].at = "restoring" /\ run'[p] = Idle("failed") =>
              LET old == run[p].before
              IN  /\ \A f \in UnitFiles : file[f] = old.file[f]
                  /\ \A n \in Nodes :
                        /\ old.domain[n].def # Missing
                        /\ old.domain[n].live \in {Missing, old.domain[n].def}
                        /\ <<"dumpxml", n, 0>> \notin run[p].missed
                        => domain[n].def = old.domain[n].def]_vars

(***************************************************************************)
(* host-install and its post-reboot check accept a host that is healthy,   *)
(* verified and fully converged.                                           *)
(***************************************************************************)
ConvergedHostsAccepted ==
    [][\A p \in Appliers :
          run[p].at = "verifying" /\ run'[p] = Idle("rejected") /\ UNCHANGED faults =>
              ~VerifiedBy(run[p], Files)]_vars

\* qemu-img cannot resize the disk of a running VM; the planner does not look.
AwaitsStop(plan) ==
    \E s \in DOMAIN plan : plan[s] = "resize" /\ domain[s[2]].live # Missing

(***************************************************************************)
(* An operator who applies again after a failure ends up with a host on    *)
(* which the planner finds nothing to do, or is refused, or is left        *)
(* with one that needs a VM stopped first.                                 *)
(***************************************************************************)
ApplySettles ==
    <>[](LET plan == PlanFor(config, Files, {}, {}, FALSE)
         IN  config.odd \/ HasRefusals(plan) \/ AwaitsStop(plan) \/ Settled(plan))
=============================================================================
