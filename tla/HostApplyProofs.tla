-------------------------- MODULE HostApplyProofs --------------------------
(***************************************************************************)
(* Proofs about HostApply, for every number of host-agent processes, every *)
(* host and configuration, and every number of faults: what the type       *)
(* invariant, the lock file and the guard of host-install promise does not *)
(* depend on the single process the runs check.                            *)
(***************************************************************************)
EXTENDS HostApply, SequenceTheorems, TLAPS

USE DEF NoFault

Phases == {"planned", "locked", "executing", "restoring", "verifying"}

\* What a rollback puts back: the content of a unit file, or the definition of
\* a domain that had one.
Undos == [step: UnitFiles, old: Contents]
         \cup [step: NodeSteps({"define"}), old: Definitions \ {Missing}]

\* r is a record with the fields of a run in progress.
Shape(r) ==
    r = [at |-> r.at, kind |-> r.kind, config |-> r.config, allow |-> r.allow,
         starts |-> r.starts, missed |-> r.missed, plan |-> r.plan, previous |-> r.previous,
         undo |-> r.undo, before |-> r.before]

\* The operation op is one of those the planner chooses for the step s.
Fits(s, op) ==
    /\ op = "enable" => s[1] = "daemon"
    /\ op = "redefine" => s[1] = "define"
    /\ op = "write" => s[1] \in {"xml", "dir", "seed", "unit"}
    /\ op \in {"create", "resize"} => s[1] = "disk"

PlanOK(r) ==
    /\ DOMAIN r.plan \subseteq Steps(r.config, r.starts)
    /\ \A s \in DOMAIN r.plan :
          /\ Fits(s, r.plan[s])
          /\ r.plan[s] = "redefine" => r.previous[s[2]] # Missing
          /\ r.kind = "install" /\ Writes(r.plan, s) => TargetOf(s) \notin r.config.inside

ActiveOK(r) ==
    /\ Shape(r)
    /\ r.at \in Phases /\ r.kind \in Kinds /\ r.config \in Configs
    /\ r.allow \in Flags /\ r.starts \in BOOLEAN /\ r.missed \subseteq Probes
    /\ r.previous \in [Nodes -> Definitions]
    /\ r.undo \in Seq(Undos)
    /\ r.kind = "check" => r.at = "verifying"
    /\ r.kind = "apply" => r.at # "verifying"
    /\ PlanOK(r)

IdleOK(r) == \E result \in Results : r = Idle(result)

RunsOK ==
    /\ run = [p \in Appliers |-> run[p]]
    /\ \A p \in Appliers : IdleOK(run[p]) \/ ActiveOK(run[p])

HostOK ==
    /\ file \in [Files -> Contents]
    /\ disk \in [Nodes -> Disks \cup {NoDisk}]
    /\ loaded \in [Units -> Contents] /\ running \in [Units -> Contents]
    /\ enabled \subseteq Units
    /\ domain \in [Nodes -> Domains]

\* The inductive type invariant.
TypeInv ==
    /\ FaultsTypeOK
    /\ site \in Sites /\ config \in Configs
    /\ HostOK
    /\ lock \in Appliers \cup {Free, Left}
    /\ RunsOK

-----------------------------------------------------------------------------
(***************************************************************************)
(* The plan                                                                *)
(***************************************************************************)
\* A step of a plan is about a node, a unit or the host, by its kind.
LEMMA StepType ==
    ASSUME NEW c \in HostConfigs, NEW b \in BOOLEAN, NEW s \in Steps(c, b)
    PROVE  /\ s[1] \in {"xml", "dir", "disk", "seed", "define", "autostart", "start",
                        "unit", "daemon", "reload"}
           /\ s[1] \notin {"unit", "daemon", "reload"} => s = <<s[1], s[2], 0>> /\ s[2] \in Nodes
           /\ s[1] \in {"unit", "daemon"} => s = <<s[1], s[2], s[3]>> /\ <<s[2], s[3]>> \in Units
<1>1. CASE s \in NodeSteps({"xml", "dir", "disk", "seed", "define"})
  BY <1>1 DEF NodeSteps
<1>2. CASE s \in {<<"autostart", n, 0>> : n \in c.autostart}
  BY <1>2 DEF HostConfigs
<1>3. CASE b /\ s \in NodeSteps({"start"})
  BY <1>3 DEF NodeSteps
<1>4. ASSUME NEW k \in {"unit", "daemon"}, s \in UnitSteps(c, k)
      PROVE  s[1] = k /\ s = <<s[1], s[2], s[3]>> /\ <<s[2], s[3]>> \in Units
  BY <1>4 DEF UnitSteps, UnitsOf, Units
<1>5. CASE s = Reload
  BY <1>5 DEF Reload
<1> QED
  BY <1>1, <1>2, <1>3, <1>4, <1>5 DEF Steps

\* The kind of a step limits what the planner decides for it.
LEMMA DecisionFits ==
    ASSUME NEW c \in HostConfigs, NEW b \in BOOLEAN, NEW s \in Steps(c, b), NEW a, NEW allow
    PROVE  /\ Fits(s, Decision(c, a, allow, s))
           /\ Decision(c, a, allow, s) = "redefine" => a.domain[s[2]].hash # Missing
<1> DEFINE op == Decision(c, a, allow, s)
<1>1. CASE s[1] \in {"xml", "dir", "seed", "unit"}
  BY <1>1 DEF Decision, FileDecision, Fits
<1>2. CASE s[1] = "disk"
  <2>1. op = DiskDecision(c, a, s[2])
    BY <1>2 DEF Decision
  <2>2. op \in {"refuse", "create", "resize", "skip"}
    BY <2>1 DEF DiskDecision, MissingDiskDecision, ExistingDiskDecision
  <2> QED
    BY <1>2, <2>2 DEF Fits
<1>3. CASE s[1] = "reload"
  BY <1>3 DEF Decision, ReloadDecision, Fits
<1>4. CASE s[1] = "daemon"
  BY <1>4 DEF Decision, DaemonDecision, Fits
<1>5. CASE s[1] = "define"
  <2>1. op = DefineDecision(c, a, allow, s[2])
    BY <1>5 DEF Decision
  <2>2. op \in {"refuse", "define", "skip", "redefine"}
    BY <2>1 DEF DefineDecision
  <2>3. op = "redefine" => a.domain[s[2]].hash # Missing
    BY <2>1 DEF DefineDecision
  <2> QED
    BY <1>5, <2>2, <2>3 DEF Fits
<1>6. CASE s[1] \in {"autostart", "start"}
  BY <1>6 DEF Decision, FlagDecision, Fits
<1> QED
  BY <1>1, <1>2, <1>3, <1>4, <1>5, <1>6, StepType

-----------------------------------------------------------------------------
(***************************************************************************)
(* The host                                                                *)
(***************************************************************************)
\* A fault leaves the budget well typed, and counts.
FaultsGrow ==
    /\ FaultsTypeOK'
    /\ \A j \in FaultKinds : faults[j] \in Nat /\ faults'[j] \in Nat /\ faults'[j] >= faults[j]

LEMMA FaultCounts ==
    ASSUME FaultsTypeOK
    PROVE  /\ NoFault => FaultsGrow
           /\ \A k \in FaultKinds : Happens(k) => FaultsGrow /\ faults'[k] > 0
BY DEF FaultsTypeOK, Happens, Fault, FaultsGrow

\* Starting a VM keeps its domain and its disk well typed.
LEMMA StartVmType ==
    ASSUME HostOK, NEW n \in Nodes, domain[n].def # Missing, StartVm(n)
    PROVE  /\ domain' \in [Nodes -> Domains]
           /\ disk' \in [Nodes -> Disks \cup {NoDisk}]
<1>1. domain[n] \in Domains
  BY DEF HostOK
<1>2. [domain[n] EXCEPT !.live = domain[n].def] \in Domains
  BY <1>1 DEF Domains
<1>3. domain' \in [Nodes -> Domains]
  BY <1>2 DEF HostOK, StartVm
<1>4. CASE disk[n] = NoDisk
  BY <1>3, <1>4 DEF HostOK, StartVm
<1>5. CASE disk[n] # NoDisk
  <2>1. disk[n] \in Disks
    BY <1>5 DEF HostOK
  <2>2. [disk[n] EXCEPT !.used = TRUE] \in Disks
    BY <2>1 DEF Disks
  <2> QED
    BY <1>3, <1>5, <2>2 DEF HostOK, StartVm
<1> QED
  BY <1>4, <1>5

\* Every operation of a plan keeps the host well typed.
LEMMA EffectType ==
    ASSUME HostOK, NEW c \in HostConfigs, NEW b \in BOOLEAN, NEW s \in Steps(c, b), NEW op,
           Fits(s, op), Guarded(c, s), Ready(c, op, s[2], <<s[2], s[3]>>), Effect(c, op, s)
    PROVE  HostOK'
<1> DEFINE n == s[2]  u == <<s[2], s[3]>>
<1>1. CASE OnFiles(c, op, s)
  <2>1. s \in Files => c.want[s] \in Contents
    BY DEF HostConfigs
  <2>2. file' \in [Files -> Contents]
    BY <1>1, <2>1 DEF OnFiles, HostOK
  <2> QED
    BY <1>1, <2>2 DEF OnFiles, HostOK
<1>2. CASE OnDisk(c, op, n)
  <2>1. n \in Nodes
    BY <1>2, StepType DEF OnDisk, Fits
  <2>2. c.size[n] \in Nat
    BY <2>1 DEF HostConfigs
  <2>3. CASE op = "create"
    <3>1. [size |-> c.size[n], foreign |-> FALSE, used |-> FALSE] \in Disks
      BY <2>2 DEF Disks
    <3> QED
      BY <1>2, <2>3, <3>1 DEF OnDisk, HostOK
  <2>4. CASE op = "resize"
    <3>1. disk[n] \in Disks
      BY <2>1, <2>4 DEF Ready, HostOK
    <3>2. [disk[n] EXCEPT !.size = c.size[n]] \in Disks
      BY <2>2, <3>1 DEF Disks
    <3> QED
      BY <1>2, <2>4, <3>2 DEF OnDisk, HostOK
  <2> QED
    BY <1>2, <2>3, <2>4 DEF OnDisk
<1>3. CASE OnUnits(op, u)
  <2>1. ReadUnits \in [Units -> Contents]
    BY DEF ReadUnits, HostOK, Files, UnitFiles
  <2>2. CASE op = "enable"
    <3>1. u \in Units
      BY <2>2, StepType DEF Fits
    <3>2. file[Unit(u)] \in Contents
      BY <3>1 DEF HostOK, Files, UnitFiles
    <3> QED
      BY <1>3, <2>1, <2>2, <3>1, <3>2 DEF OnUnits, HostOK
  <2> QED
    BY <1>3, <2>1, <2>2 DEF OnUnits, HostOK
<1>4. CASE OnDomain(op, n)
  <2>1. CASE n \notin Nodes
    BY <1>4, <2>1 DEF OnDomain, HostOK, StartVm
  <2>2. CASE n \in Nodes /\ op \in {"define", "redefine"}
    <3>1. file[Xml(n)] \in Definitions \ {Missing}
      BY <2>2 DEF Ready, HostOK, Files, NodeFiles, Definitions
    <3>2. domain[n] \in Domains
      BY <2>2 DEF HostOK
    <3>3. [domain[n] EXCEPT !.def = file[Xml(n)]] \in Domains
      BY <3>1, <3>2 DEF Domains
    <3> QED
      BY <1>4, <2>2, <3>3 DEF OnDomain, HostOK
  <2>3. CASE n \in Nodes /\ op = "autostart"
    <3>1. domain[n] \in Domains
      BY <2>3 DEF HostOK
    <3>2. [domain[n] EXCEPT !.autostart = TRUE] \in Domains
      BY <3>1 DEF Domains
    <3> QED
      BY <1>4, <2>3, <3>2 DEF OnDomain, HostOK
  <2>4. CASE n \in Nodes /\ op = "start"
    <3>1. StartVm(n) /\ domain[n].def # Missing
      BY <1>4, <2>4 DEF OnDomain, Ready
    <3> QED
      BY <1>4, <2>4, <3>1, StartVmType DEF OnDomain, HostOK
  <2> QED
    BY <1>4, <2>1, <2>2, <2>3, <2>4 DEF OnDomain
<1> QED
  BY <1>1, <1>2, <1>3, <1>4 DEF Effect

-----------------------------------------------------------------------------
(***************************************************************************)
(* The runs                                                                *)
(***************************************************************************)
\* r with another phase, plan, things to put back, or record of the host.
Moved(r, at) == [r EXCEPT !.at = at]
Replanned(r, plan) == [r EXCEPT !.plan = plan]
Undoing(r, undo) == [r EXCEPT !.undo = undo]
Recorded(r, before) == [r EXCEPT !.before = before]

\* Two runs of the same command.
SameCommand(q, r) ==
    /\ q.kind = r.kind /\ q.config = r.config /\ q.allow = r.allow
    /\ q.starts = r.starts /\ q.previous = r.previous /\ q.missed = r.missed

\* A run in progress is a record of known fields, so its fields can be changed.
LEMMA ChangedField ==
    ASSUME NEW r, Shape(r), NEW x
    PROVE  /\ LET q == Moved(r, x)
              IN  Shape(q) /\ SameCommand(q, r) /\ q.at = x /\ q.plan = r.plan /\ q.undo = r.undo
           /\ LET q == Replanned(r, x)
              IN  Shape(q) /\ SameCommand(q, r) /\ q.at = r.at /\ q.plan = x /\ q.undo = r.undo
           /\ LET q == Undoing(r, x)
              IN  Shape(q) /\ SameCommand(q, r) /\ q.at = r.at /\ q.plan = r.plan /\ q.undo = x
           /\ LET q == Recorded(r, x)
              IN  Shape(q) /\ SameCommand(q, r) /\ q.at = r.at /\ q.plan = r.plan /\ q.undo = r.undo
<1>1. LET q == Moved(r, x)
      IN  Shape(q) /\ SameCommand(q, r) /\ q.at = x /\ q.plan = r.plan /\ q.undo = r.undo
  BY DEF Shape, Moved, SameCommand
<1>2. LET q == Replanned(r, x)
      IN  Shape(q) /\ SameCommand(q, r) /\ q.at = r.at /\ q.plan = x /\ q.undo = r.undo
  BY DEF Shape, Replanned, SameCommand
<1>3. LET q == Undoing(r, x)
      IN  Shape(q) /\ SameCommand(q, r) /\ q.at = r.at /\ q.plan = r.plan /\ q.undo = x
  BY DEF Shape, Undoing, SameCommand
<1>4. LET q == Recorded(r, x)
      IN  Shape(q) /\ SameCommand(q, r) /\ q.at = r.at /\ q.plan = r.plan /\ q.undo = r.undo
  BY DEF Shape, Recorded, SameCommand
<1> QED
  BY <1>1, <1>2, <1>3, <1>4

\* One process moves on, the others stay where they are.
LEMMA RunChanges ==
    ASSUME RunsOK, NEW p \in Appliers, NEW r, IdleOK(r) \/ ActiveOK(r),
           run' = [run EXCEPT ![p] = r]
    PROVE  /\ RunsOK'
           /\ run'[p] = r
           /\ \A q \in Appliers \ {p} : run'[q] = run[q]
<1>1. run' = [q \in Appliers |-> IF q = p THEN r ELSE run[q]]
  BY DEF RunsOK
<1> QED
  BY <1>1 DEF RunsOK

LEMMA EndType ==
    ASSUME RunsOK, NEW p \in Appliers, NEW result \in Results, End(p, result)
    PROVE  RunsOK' /\ run'[p] = Idle(result) /\ \A q \in Appliers \ {p} : run'[q] = run[q]
<1>1. run' = [run EXCEPT ![p] = Idle(result)] /\ IdleOK(Idle(result))
  BY DEF End, IdleOK
<1> HIDE DEF IdleOK
<1> QED
  BY <1>1, RunChanges

\* A process whose phase is not idle has a run in progress.
LEMMA InProgress ==
    ASSUME RunsOK, NEW p \in Appliers, run[p].at \in Phases
    PROVE  ActiveOK(run[p])
BY DEF RunsOK, IdleOK, Idle, Phases

\* Another phase that fits the command.
LEMMA MovedType ==
    ASSUME NEW r, ActiveOK(r), NEW at \in Phases,
           r.kind = "check" => at = "verifying", r.kind = "apply" => at # "verifying"
    PROVE  ActiveOK(Moved(r, at)) /\ SameCommand(Moved(r, at), r) /\ Moved(r, at).at = at
           /\ Moved(r, at).plan = r.plan /\ Moved(r, at).undo = r.undo
<1> DEFINE q == Moved(r, at)
<1>1. Shape(q) /\ SameCommand(q, r) /\ q.at = at /\ q.plan = r.plan /\ q.undo = r.undo
  BY ChangedField DEF ActiveOK
<1> HIDE DEF q
<1>2. ActiveOK(q)
  BY <1>1 DEF ActiveOK, PlanOK, SameCommand
<1> QED
  BY <1>1, <1>2 DEF q

\* Fewer steps of the same plan.
LEMMA ReplannedType ==
    ASSUME NEW r, ActiveOK(r), NEW S \in SUBSET DOMAIN r.plan
    PROVE  LET q == Replanned(r, [s \in S |-> r.plan[s]])
           IN  ActiveOK(q) /\ SameCommand(q, r) /\ q.at = r.at /\ q.undo = r.undo
<1> DEFINE plan == [s \in S |-> r.plan[s]]
           q == Replanned(r, plan)
<1>1. DOMAIN plan \subseteq DOMAIN r.plan /\ \A s \in DOMAIN plan : plan[s] = r.plan[s]
  OBVIOUS
<1>2. /\ Shape(q) /\ SameCommand(q, r) /\ q.at = r.at /\ q.plan = plan /\ q.undo = r.undo
  BY ChangedField DEF ActiveOK
<1> HIDE DEF plan, q
<1>3. PlanOK(q)
  BY <1>1, <1>2 DEF ActiveOK, PlanOK, Writes, SameCommand
<1>4. ActiveOK(q) /\ SameCommand(q, r) /\ q.at = r.at /\ q.undo = r.undo
  BY <1>2, <1>3 DEF ActiveOK, SameCommand
<1> QED
  BY <1>4 DEF q, plan

\* Something else to put back, or another record of the host.
LEMMA UndoingType ==
    ASSUME NEW r, ActiveOK(r)
    PROVE  /\ \A undo \in Seq(Undos) :
                LET q == Undoing(r, undo)
                IN  ActiveOK(q) /\ SameCommand(q, r) /\ q.at = r.at
           /\ \A before :
                LET q == Recorded(r, before)
                IN  ActiveOK(q) /\ SameCommand(q, r) /\ q.at = r.at
<1>1. Shape(r)
  BY DEF ActiveOK
<1>2. ASSUME NEW undo \in Seq(Undos)
      PROVE  LET q == Undoing(r, undo) IN ActiveOK(q) /\ SameCommand(q, r) /\ q.at = r.at
  <2> DEFINE q == Undoing(r, undo)
  <2>1. Shape(q) /\ SameCommand(q, r) /\ q.at = r.at /\ q.plan = r.plan /\ q.undo = undo
    BY <1>1, ChangedField
  <2> HIDE DEF q
  <2>2. ActiveOK(q) /\ SameCommand(q, r) /\ q.at = r.at
    BY <2>1 DEF ActiveOK, PlanOK, SameCommand
  <2> QED
    BY <2>2 DEF q
<1>3. ASSUME NEW before
      PROVE  LET q == Recorded(r, before) IN ActiveOK(q) /\ SameCommand(q, r) /\ q.at = r.at
  <2> DEFINE q == Recorded(r, before)
  <2>1. Shape(q) /\ SameCommand(q, r) /\ q.at = r.at /\ q.plan = r.plan /\ q.undo = r.undo
    BY <1>1, ChangedField
  <2> HIDE DEF q
  <2>2. ActiveOK(q) /\ SameCommand(q, r) /\ q.at = r.at
    BY <2>1 DEF ActiveOK, PlanOK, SameCommand
  <2> QED
    BY <2>2 DEF q
<1> QED
  BY <1>2, <1>3

LEMMA StagedType ==
    ASSUME HostOK, NEW r, ActiveOK(r), NEW s \in DOMAIN r.plan
    PROVE  Staged(r, r.plan[s], s) \in Seq(Undos)
<1> DEFINE op == r.plan[s]
<1>1. r.config \in HostConfigs /\ s \in Steps(r.config, r.starts) /\ r.starts \in BOOLEAN
  BY ConfigsAssumption DEF ActiveOK, PlanOK
<1>2. CASE s[1] = "unit"
  <2>1. s = Unit(<<s[2], s[3]>>) /\ <<s[2], s[3]>> \in Units
    BY <1>1, <1>2, StepType DEF Unit
  <2>2. s \in UnitFiles /\ file[s] \in Contents
    BY <2>1 DEF UnitFiles, HostOK, Files
  <2>3. [step |-> s, old |-> file[s]] \in Undos
    BY <2>2 DEF Undos
  <2>4. op # "redefine"
    BY <1>2 DEF ActiveOK, PlanOK, Fits
  <2> QED
    BY <1>2, <2>3, <2>4 DEF Staged, ActiveOK
<1>3. CASE s[1] # "unit" /\ op = "redefine"
  <2>0. s[1] = "define"
    BY <1>3 DEF ActiveOK, PlanOK, Fits
  <2>a. s = <<"define", s[2], 0>> /\ s[2] \in Nodes
    BY <1>1, <2>0, StepType
  <2>1. s \in NodeSteps({"define"}) /\ s[2] \in Nodes
    BY <2>a DEF NodeSteps
  <2>2. r.previous[s[2]] \in Definitions \ {Missing}
    BY <1>3, <2>1 DEF ActiveOK, PlanOK
  <2>3. [step |-> s, old |-> r.previous[s[2]]] \in Undos
    BY <2>1, <2>2 DEF Undos
  <2> QED
    BY <1>3, <2>3 DEF Staged, ActiveOK
<1>4. CASE s[1] # "unit" /\ op # "redefine"
  BY <1>4 DEF Staged, ActiveOK
<1> QED
  BY <1>2, <1>3, <1>4

\* The run that a command starts with.
LEMMA BeginType ==
    ASSUME TypeInv, NEW p \in Appliers, NEW kind \in Kinds, NEW allow \in Flags,
           NEW starts \in BOOLEAN, NEW missed \in Misses \cup {{}},
           Begin(p, kind, allow, starts, missed)
    PROVE  /\ RunsOK'
           /\ run'[p].at \in {"idle", "planned", "verifying"}
           /\ run'[p].at = "verifying" => run'[p].kind = "check"
           /\ \A q \in Appliers \ {p} : run'[q] = run[q]
<1> DEFINE plan == PlanFor(config, Files, missed, allow, starts)
           refused == kind = "install" /\ MutatesDatasets(config, plan)
           at == IF kind = "check" THEN "verifying" ELSE "planned"
           chosen == IF kind = "check" THEN [s \in {} |-> "skip"] ELSE plan
           previous == [n \in Nodes |-> Seen(Files, missed).domain[n].hash]
           before == [file |-> file, domain |-> domain]
           r == [at |-> at, kind |-> kind, config |-> config, allow |-> allow, starts |-> starts,
                 missed |-> missed, plan |-> chosen, previous |-> previous,
                 undo |-> <<>>, before |-> before]
<1>1. CASE refused
  <2>1. End(p, "refused")
    BY <1>1 DEF Begin
  <2> QED
    BY <2>1, EndType DEF TypeInv, Results, Idle
<1>2. CASE ~refused
  <2>1. run' = [run EXCEPT ![p] = r]
    BY <1>2 DEF Begin
  <2>2. Shape(r) /\ r.at = at /\ r.kind = kind /\ r.config = config /\ r.allow = allow
        /\ r.starts = starts /\ r.missed = missed /\ r.plan = chosen
        /\ r.previous = previous /\ r.undo = <<>>
    BY DEF Shape
  <2>3. previous \in [Nodes -> Definitions]
    <3>1. \A n \in Nodes : Seen(Files, missed).domain[n].hash \in {Missing, Shown(domain[n])}
      BY DEF Seen
    <3>2. \A n \in Nodes : Shown(domain[n]) \in Definitions
      BY DEF TypeInv, HostOK, Domains, Shown
    <3> QED
      BY <3>1, <3>2 DEF Definitions, Contents
  <2>4. <<>> \in Seq(Undos)
    OBVIOUS
  <2>5. config \in Configs /\ config \in HostConfigs
    BY ConfigsAssumption DEF TypeInv
  <2>6. /\ DOMAIN plan = Steps(config, starts)
        /\ \A s \in DOMAIN plan : plan[s] = Decision(config, Seen(Files, missed), allow, s)
    BY DEF PlanFor, Plan
  <2>7. \A n \in Nodes : Seen(Files, missed).domain[n].hash = previous[n]
    OBVIOUS
  <2>8. ASSUME NEW s \in DOMAIN plan, kind # "check"
        PROVE  /\ Fits(s, plan[s])
               /\ plan[s] = "redefine" => previous[s[2]] # Missing
               /\ kind = "install" /\ Writes(plan, s) => TargetOf(s) \notin config.inside
    <3>1. /\ Fits(s, plan[s])
          /\ plan[s] = "redefine" => Seen(Files, missed).domain[s[2]].hash # Missing
      BY <2>5, <2>6, DecisionFits
    <3>2. plan[s] = "redefine" => s[2] \in Nodes
      BY <2>5, <2>6, <3>1, StepType DEF Fits
    <3>3. kind = "install" /\ Writes(plan, s) => TargetOf(s) \notin config.inside
      BY <1>2 DEF MutatesDatasets, ToApply, Writes
    <3> QED
      BY <2>7, <3>1, <3>2, <3>3
  <2> HIDE DEF plan, previous, before
  <2>9. PlanOK(r)
    <3>1. CASE kind = "check"
      BY <2>2, <3>1 DEF PlanOK
    <3>2. CASE kind # "check"
      <4>1. r.plan = plan
        BY <2>2, <3>2
      <4> HIDE DEF r
      <4> QED
        BY <2>2, <2>6, <2>8, <3>2, <4>1 DEF PlanOK, Writes
    <3> QED
      BY <3>1, <3>2
  <2> HIDE DEF r, chosen
  <2>10. ActiveOK(r)
    BY <2>2, <2>3, <2>4, <2>5, <2>9, KindsAssumption, MissesAssumption DEF ActiveOK, Phases
  <2>11. RunsOK' /\ run'[p] = r /\ \A q \in Appliers \ {p} : run'[q] = run[q]
    BY <2>1, <2>10, RunChanges DEF TypeInv
  <2> QED
    BY <2>2, <2>11
<1> QED
  BY <1>1, <1>2

-----------------------------------------------------------------------------
(***************************************************************************)
(* The lock                                                                *)
(***************************************************************************)
\* What a step of one process does to the lock, and who is inside after it.
LEMMA LockSteps ==
    ASSUME TypeInv, LockOwned, FaultsGrow, NEW p \in Appliers,
           \A q \in Appliers \ {p} : run'[q] = run[q],
           \/ UNCHANGED lock /\ (InsideLock(p)' <=> InsideLock(p))
           \/ Release(p) /\ ~InsideLock(p)'
           \/ LeaveLock({p}) /\ ~InsideLock(p)' /\ faults'["crash"] > 0
           \/ lock = Free /\ lock' = p /\ InsideLock(p)'
           \/ lock = Free /\ lock' = Left /\ ~InsideLock(p)' /\ faults'["fail"] > 0
    PROVE  LockOwned' /\ lock' \in Appliers \cup {Free, Left}
<1>1. lock' \in Appliers \cup {Free, Left}
  BY DEF TypeInv, Release, LeaveLock
<1>2. \A q \in Appliers \ {p} : /\ InsideLock(q)' <=> InsideLock(q)
                                /\ lock' = q <=> lock = q
  BY LockAssumption DEF InsideLock, LockOwned, Release, LeaveLock
<1>3. lock' = p <=> InsideLock(p)'
  BY LockAssumption DEF LockOwned, Release, LeaveLock
<1>4. lock' = Left => faults'["crash"] + faults'["fail"] + faults'["reboot"] > 0
  <2>1. /\ faults["crash"] \in Nat /\ faults'["crash"] \in Nat /\ faults'["crash"] >= faults["crash"]
        /\ faults["fail"] \in Nat /\ faults'["fail"] \in Nat /\ faults'["fail"] >= faults["fail"]
        /\ faults["reboot"] \in Nat /\ faults'["reboot"] \in Nat
        /\ faults'["reboot"] >= faults["reboot"]
    BY FaultKindsAssumption DEF FaultsGrow
  <2>2. CASE lock = Left
    BY <2>1, <2>2 DEF LockOwned
  <2>3. CASE lock # Left
    BY <2>1, <2>3, LockAssumption DEF Release, LeaveLock
  <2> QED
    BY <2>2, <2>3
<1> QED
  BY <1>1, <1>2, <1>3, <1>4 DEF LockOwned

\* A process that ends is outside.
LEMMA Outside ==
    ASSUME NEW p \in Appliers, NEW result, run'[p] = Idle(result)
    PROVE  ~InsideLock(p)'
BY DEF InsideLock, Idle

\* The phase and the command say who is inside.
LEMMA WhoIsInside ==
    ASSUME RunsOK, NEW p \in Appliers, run[p].at \in Phases
    PROVE  InsideLock(p) <=> run[p].at # "planned" /\ run[p].kind # "check"
<1>1. ActiveOK(run[p])
  BY InProgress
<1> QED
  BY <1>1, KindsAssumption DEF ActiveOK, InsideLock, Phases

-----------------------------------------------------------------------------
(***************************************************************************)
(* Every step keeps the types and the lock                                 *)
(***************************************************************************)
Inv == TypeInv /\ LockOwned

LEMMA BeginStep ==
    ASSUME Inv, NEW p \in Appliers, NEW kind \in Kinds, NEW allow \in Flags,
           NEW starts \in BOOLEAN, NEW missed \in Misses \cup {{}},
           Begin(p, kind, allow, starts, missed)
    PROVE  Inv'
<1>1. /\ RunsOK' /\ run'[p].at \in {"idle", "planned", "verifying"}
      /\ run'[p].at = "verifying" => run'[p].kind = "check"
      /\ \A q \in Appliers \ {p} : run'[q] = run[q]
  BY BeginType DEF Inv
<1>2. FaultsGrow
  BY FaultCounts, FaultKindsAssumption DEF Begin, Inv, TypeInv
<1>3. ~InsideLock(p)' /\ ~InsideLock(p) /\ UNCHANGED lock
  BY <1>1 DEF InsideLock, Begin
<1>4. LockOwned'
  BY <1>1, <1>2, <1>3, LockSteps DEF Inv
<1> QED
  BY <1>1, <1>2, <1>4 DEF Inv, TypeInv, HostOK, Begin, host, FaultsGrow

\* A step that ends a run, or moves it to another phase, and leaves the host.
LEMMA EndStep ==
    ASSUME Inv, FaultsGrow, NEW p \in Appliers, NEW result \in Results, End(p, result),
           UNCHANGED <<site, config, host>>,
           \/ UNCHANGED lock /\ run[p].at = "planned"
           \/ Release(p)
           \/ LeaveLock({p}) /\ faults'["crash"] > 0
           \/ lock = Free /\ lock' = Left /\ faults'["fail"] > 0
    PROVE  Inv'
<1>1. RunsOK' /\ run'[p] = Idle(result) /\ \A q \in Appliers \ {p} : run'[q] = run[q]
  BY EndType DEF Inv, TypeInv
<1>2. ~InsideLock(p)'
  BY <1>1, Outside
<1>3. run[p].at = "planned" => ~InsideLock(p)
  BY DEF InsideLock
<1>4. LockOwned' /\ lock' \in Appliers \cup {Free, Left}
  BY <1>1, <1>2, <1>3, LockSteps DEF Inv
<1> QED
  BY <1>1, <1>4 DEF Inv, TypeInv, HostOK, host, FaultsGrow

LEMMA GotoStep ==
    ASSUME Inv, FaultsGrow, NEW p \in Appliers, run[p].at \in Phases, NEW at \in Phases,
           Goto(p, at), UNCHANGED <<site, config, host>>,
           run[p].kind = "check" => at = "verifying", run[p].kind = "apply" => at # "verifying",
           at # "planned",
           \/ UNCHANGED lock /\ run[p].at # "planned"
           \/ lock = Free /\ lock' = p /\ run[p].kind # "check"
    PROVE  Inv'
<1> DEFINE r == run[p]  q == Moved(r, at)
<1>1. ActiveOK(r)
  BY InProgress DEF Inv, TypeInv
<1>2. ActiveOK(q) /\ SameCommand(q, r) /\ q.at = at
  BY <1>1, MovedType
<1>3. run' = [run EXCEPT ![p] = q]
  BY DEF Goto, Moved
<1> HIDE DEF q
<1>4. RunsOK' /\ run'[p] = q /\ \A o \in Appliers \ {p} : run'[o] = run[o]
  BY <1>2, <1>3, RunChanges DEF Inv, TypeInv
<1>5. /\ InsideLock(p) <=> r.at # "planned" /\ r.kind # "check"
      /\ InsideLock(p)' <=> r.kind # "check"
  BY <1>1, <1>2, <1>4, KindsAssumption DEF InsideLock, Phases, ActiveOK, SameCommand
<1>6. LockOwned' /\ lock' \in Appliers \cup {Free, Left}
  BY <1>4, <1>5, LockSteps DEF Inv
<1> QED
  BY <1>4, <1>6 DEF Inv, TypeInv, HostOK, host, FaultsGrow

\* A run inside the lock goes on.
LEMMA InsideStep ==
    ASSUME Inv, FaultsGrow, NEW p \in Appliers, run[p].at \in Phases, run[p].at # "planned",
           NEW q, ActiveOK(q), SameCommand(q, run[p]), q.at # "planned",
           run' = [run EXCEPT ![p] = q], UNCHANGED <<site, config, lock>>, HostOK'
    PROVE  Inv'
<1>1. ActiveOK(run[p])
  BY InProgress DEF Inv, TypeInv
<1>2. RunsOK' /\ run'[p] = q /\ \A o \in Appliers \ {p} : run'[o] = run[o]
  BY RunChanges DEF Inv, TypeInv
<1>3. /\ InsideLock(p) <=> run[p].kind # "check"
      /\ InsideLock(p)' <=> run[p].kind # "check"
  BY <1>1, <1>2, KindsAssumption DEF InsideLock, Phases, ActiveOK, SameCommand
<1>4. LockOwned' /\ lock' \in Appliers \cup {Free, Left}
  BY <1>2, <1>3, LockSteps DEF Inv
<1> QED
  BY <1>2, <1>4 DEF Inv, TypeInv, FaultsGrow

LEMMA CheckStep ==
    ASSUME Inv, NEW p \in Appliers, Check(p)
    PROVE  Inv'
<1> DEFINE r == run[p]
           kept == Replanned(Moved(r, "executing"), [s \in ToApply(r.plan) |-> r.plan[s]])
           before == [file |-> file, domain |-> domain]
           q == Recorded(kept, before)
<1>1. FaultsGrow /\ UNCHANGED <<site, config, host>>
  BY FaultCounts DEF Check, Inv, TypeInv
<1>2. CASE r.config.odd \/ HasRefusals(r.plan)
  <2>1. End(p, "refused") /\ Release(p)
    BY <1>2 DEF Check
  <2> QED
    BY <1>1, <2>1, EndStep DEF Results
<1>3. CASE ~(r.config.odd \/ HasRefusals(r.plan))
  <2>1. r.at = "locked" /\ r.at \in Phases /\ ActiveOK(r)
    BY InProgress DEF Check, Phases, Inv, TypeInv
  <2>2. r.kind # "check"
    BY <2>1 DEF ActiveOK
  <2>3. LET m == Moved(r, "executing")
        IN  ActiveOK(m) /\ SameCommand(m, r) /\ m.at = "executing" /\ m.plan = r.plan
    BY <2>1, <2>2, MovedType DEF Phases
  <2>4. ToApply(r.plan) \in SUBSET DOMAIN r.plan
    BY DEF ToApply
  <2>5. ActiveOK(kept) /\ SameCommand(kept, r) /\ kept.at = "executing"
    <3> DEFINE m == Moved(r, "executing")
    <3> HIDE DEF m
    <3>1. ActiveOK(m) /\ SameCommand(m, r) /\ m.at = "executing" /\ m.plan = r.plan
      BY <2>3 DEF m
    <3>2. LET k == Replanned(m, [s \in ToApply(r.plan) |-> m.plan[s]])
          IN  ActiveOK(k) /\ SameCommand(k, m) /\ k.at = m.at
      BY <2>4, <3>1, ReplannedType
    <3>3. LET k == Replanned(m, [s \in ToApply(r.plan) |-> r.plan[s]])
          IN  ActiveOK(k) /\ SameCommand(k, m) /\ k.at = m.at
      BY <3>1, <3>2
    <3> QED
      BY <3>1, <3>3 DEF m, SameCommand
  <2>6. run' = [run EXCEPT ![p] = q]
    BY <1>3 DEF Check, Recorded, Replanned, Moved
  <2> HIDE DEF kept, before
  <2>7. ActiveOK(q) /\ SameCommand(q, kept) /\ q.at = kept.at
    BY <2>5, UndoingType
  <2> HIDE DEF q
  <2>8. SameCommand(q, r) /\ q.at = "executing"
    BY <2>5, <2>7 DEF SameCommand
  <2>9. UNCHANGED lock /\ HostOK'
    BY <1>1, <1>3 DEF Check, Inv, TypeInv, HostOK, host
  <2> QED
    BY <1>1, <2>1, <2>6, <2>7, <2>8, <2>9, InsideStep
<1> QED
  BY <1>2, <1>3

LEMMA ExecuteStep ==
    ASSUME Inv, NEW p \in Appliers, Execute(p)
    PROVE  Inv'
<1> DEFINE r == run[p]
<1>1. r.at = "executing" /\ ActiveOK(r)
  BY InProgress DEF Execute, Phases, Inv, TypeInv
<1>2. PICK s \in DOMAIN r.plan :
          /\ Guarded(r.config, s)
          /\ Ready(r.config, r.plan[s], s[2], <<s[2], s[3]>>)
          /\ Effect(r.config, r.plan[s], s)
          /\ run' = [run EXCEPT ![p].plan = [t \in DOMAIN @ \ {s} |-> @[t]],
                                ![p].undo = Staged(r, r.plan[s], s)]
  BY DEF Execute
<1> DEFINE kept == Replanned(r, [t \in DOMAIN r.plan \ {s} |-> r.plan[t]])
           undo == Staged(r, r.plan[s], s)
           q == Undoing(kept, undo)
<1>3. FaultsGrow /\ UNCHANGED <<site, config, lock>>
  BY FaultCounts DEF Execute, Inv, TypeInv
<1>4. r.config \in HostConfigs /\ s \in Steps(r.config, r.starts) /\ r.starts \in BOOLEAN
      /\ Fits(s, r.plan[s])
  BY <1>1, ConfigsAssumption DEF ActiveOK, PlanOK
<1>5. HostOK'
  BY <1>2, <1>4, EffectType DEF Inv, TypeInv
<1>6. undo \in Seq(Undos)
  BY <1>1, StagedType DEF Inv, TypeInv
<1>7. run' = [run EXCEPT ![p] = q]
  BY <1>2 DEF Undoing, Replanned
<1>8. ActiveOK(kept) /\ SameCommand(kept, r) /\ kept.at = "executing"
  BY <1>1, ReplannedType
<1> HIDE DEF kept, undo
<1>9. ActiveOK(q) /\ SameCommand(q, kept) /\ q.at = "executing"
  BY <1>6, <1>8, UndoingType
<1> HIDE DEF q
<1>10. SameCommand(q, r)
  BY <1>8, <1>9 DEF SameCommand
<1> QED
  BY <1>1, <1>3, <1>5, <1>7, <1>9, <1>10, InsideStep DEF Phases

LEMMA ExecuteFailsStep ==
    ASSUME Inv, NEW p \in Appliers, ExecuteFails(p)
    PROVE  Inv'
<1> DEFINE r == run[p]
<1>1. r.at = "executing" /\ ActiveOK(r)
  BY InProgress DEF ExecuteFails, Phases, Inv, TypeInv
<1>2. PICK s \in DOMAIN r.plan :
          LET ready == /\ Guarded(r.config, s)
                       /\ Ready(r.config, r.plan[s], s[2], <<s[2], s[3]>>)
          IN  /\ IF ready THEN Happens("fail") ELSE NoFault
              /\ \/ ready /\ Effect(r.config, r.plan[s], s)
                 \/ UNCHANGED host
              /\ run' = [run EXCEPT ![p].at = "restoring",
                                    ![p].undo = Staged(r, r.plan[s], s)]
  BY DEF ExecuteFails
<1> DEFINE moved == Moved(r, "restoring")
           undo == Staged(r, r.plan[s], s)
           q == Undoing(moved, undo)
<1>3. FaultsGrow /\ UNCHANGED <<site, config, lock>>
  BY <1>2, FaultCounts, FaultKindsAssumption DEF ExecuteFails, Inv, TypeInv
<1>4. r.config \in HostConfigs /\ s \in Steps(r.config, r.starts) /\ r.starts \in BOOLEAN
      /\ Fits(s, r.plan[s])
  BY <1>1, ConfigsAssumption DEF ActiveOK, PlanOK
<1>5. HostOK'
  <2>1. CASE UNCHANGED host
    BY <2>1 DEF Inv, TypeInv, HostOK, host
  <2>2. CASE ~UNCHANGED host
    BY <1>2, <1>4, <2>2, EffectType DEF Inv, TypeInv
  <2> QED
    BY <2>1, <2>2
<1>6. undo \in Seq(Undos)
  BY <1>1, StagedType DEF Inv, TypeInv
<1>7. run' = [run EXCEPT ![p] = q]
  BY <1>2 DEF Undoing, Moved
<1>8. ActiveOK(moved) /\ SameCommand(moved, r) /\ moved.at = "restoring"
  <2>1. r.kind # "check"
    BY <1>1 DEF ActiveOK
  <2> QED
    BY <1>1, <2>1, MovedType DEF Phases
<1> HIDE DEF moved, undo
<1>9. ActiveOK(q) /\ SameCommand(q, moved) /\ q.at = "restoring"
  BY <1>6, <1>8, UndoingType
<1> HIDE DEF q
<1>10. SameCommand(q, r)
  BY <1>8, <1>9 DEF SameCommand
<1> QED
  BY <1>1, <1>3, <1>5, <1>7, <1>9, <1>10, InsideStep DEF Phases

LEMMA RestoreStep ==
    ASSUME Inv, NEW p \in Appliers, Restore(p)
    PROVE  Inv'
<1> DEFINE r == run[p]
           back == r.undo[Len(r.undo)]
           undo == SubSeq(r.undo, 1, Len(r.undo) - 1)
           q == Undoing(r, undo)
<1>1. r.at = "restoring" /\ ActiveOK(r) /\ r.undo \in Seq(Undos) /\ r.undo # <<>>
  BY InProgress DEF Restore, Phases, Inv, TypeInv, ActiveOK
<1>2. back \in Undos /\ undo \in Seq(Undos)
  BY <1>1
<1>3. FaultsGrow /\ UNCHANGED <<site, config, lock, disk, loaded, enabled, running>>
  BY FaultCounts DEF Restore, Inv, TypeInv
<1>4. HostOK'
  <2>1. CASE back.step[1] = "unit"
    <3>1. back.step \in Files /\ back.old \in Contents
      BY <1>2, <2>1 DEF Undos, NodeSteps, Files
    <3>2. file' = [file EXCEPT ![back.step] = back.old] /\ UNCHANGED domain
      BY <2>1 DEF Restore
    <3> QED
      BY <1>3, <3>1, <3>2 DEF HostOK, Inv, TypeInv
  <2>2. CASE back.step[1] # "unit"
    <3>1. back.step[2] \in Nodes /\ back.old \in Definitions \ {Missing}
      BY <1>2, <2>2 DEF Undos, NodeSteps, UnitFiles, Unit
    <3>2. domain' = [domain EXCEPT ![back.step[2]].def = back.old] /\ UNCHANGED file
      BY <2>2 DEF Restore
    <3>3. domain[back.step[2]] \in Domains
      BY <3>1 DEF HostOK, Inv, TypeInv
    <3>4. [domain[back.step[2]] EXCEPT !.def = back.old] \in Domains
      BY <3>1, <3>3 DEF Domains
    <3>5. domain' \in [Nodes -> Domains]
      BY <3>1, <3>2, <3>4 DEF HostOK, Inv, TypeInv
    <3> QED
      BY <1>3, <3>2, <3>5 DEF HostOK, Inv, TypeInv
  <2> QED
    BY <2>1, <2>2
<1>5. run' = [run EXCEPT ![p] = q]
  BY DEF Restore, Undoing
<1>6. ActiveOK(q) /\ SameCommand(q, r) /\ q.at = "restoring"
  BY <1>1, <1>2, UndoingType
<1> HIDE DEF q
<1> QED
  BY <1>1, <1>3, <1>4, <1>5, <1>6, InsideStep DEF Phases

\* The phases of a process that takes one of the other steps.
LEMMA OtherStep ==
    ASSUME Inv, NEW p \in Appliers,
           \/ Acquire(p) \/ AcquireFails(p) \/ RestoreFails(p) \/ Restored(p) \/ Commit(p)
           \/ CommitFails(p) \/ Verify(p) \/ VerifyFails(p) \/ Kill(p)
    PROVE  Inv'
<1> DEFINE r == run[p]
<1> USE FaultKindsAssumption
<1>1. FaultsTypeOK /\ RunsOK
  BY DEF Inv, TypeInv
<1>2. r.at \in Phases => ActiveOK(r)
  BY <1>1, InProgress
<1>3. CASE Acquire(p)
  <2>1. FaultsGrow /\ r.at = "planned" /\ r.kind # "check"
    BY <1>1, <1>2, <1>3, FaultCounts DEF Acquire, Phases, ActiveOK
  <2>2. CASE lock = Free /\ lock' = p /\ Goto(p, "locked")
    BY <1>3, <2>1, <2>2, GotoStep DEF Acquire, Phases
  <2>3. CASE End(p, "busy") /\ UNCHANGED lock
    BY <1>3, <2>1, <2>3, EndStep DEF Acquire, Results
  <2> QED
    BY <1>3, <2>2, <2>3 DEF Acquire
<1>4. CASE AcquireFails(p)
  <2>1. FaultsGrow /\ faults'["fail"] > 0
    BY <1>1, <1>4, FaultCounts DEF AcquireFails
  <2> QED
    BY <1>4, <2>1, EndStep DEF AcquireFails, Results
<1>5. CASE RestoreFails(p)
  <2>1. FaultsGrow
    BY <1>1, <1>5, FaultCounts DEF RestoreFails
  <2> QED
    BY <1>5, <2>1, EndStep DEF RestoreFails, Results
<1>6. CASE Restored(p)
  <2>1. FaultsGrow
    BY <1>1, <1>6, FaultCounts DEF Restored
  <2> QED
    BY <1>6, <2>1, EndStep DEF Restored, Results
<1>7. CASE Commit(p)
  <2>1. FaultsGrow /\ r.at = "executing" /\ r.at \in Phases
    BY <1>1, <1>7, FaultCounts DEF Commit, Phases
  <2>2. CASE r.kind = "apply"
    BY <1>7, <2>1, <2>2, EndStep DEF Commit, Results
  <2>3. CASE r.kind # "apply"
    BY <1>7, <2>1, <2>3, GotoStep DEF Commit, Phases
  <2> QED
    BY <2>2, <2>3
<1>8. CASE CommitFails(p)
  <2>1. FaultsGrow
    BY <1>1, <1>8, FaultCounts DEF CommitFails
  <2> QED
    BY <1>8, <2>1, EndStep DEF CommitFails, Results
<1>9. CASE Verify(p)
  <2>1. FaultsGrow
    BY <1>1, <1>9, FaultCounts DEF Verify
  <2>2. PICK result \in Results : End(p, result)
    BY <1>9 DEF Verify, Results
  <2> QED
    BY <1>9, <2>1, <2>2, EndStep DEF Verify
<1>10. CASE VerifyFails(p)
  <2>1. FaultsGrow
    BY <1>1, <1>10, FaultCounts DEF VerifyFails
  <2> QED
    BY <1>10, <2>1, EndStep DEF VerifyFails, Results
<1>11. CASE Kill(p)
  <2>1. FaultsGrow /\ faults'["crash"] > 0
    BY <1>1, <1>11, FaultCounts DEF Kill
  <2> QED
    BY <1>11, <2>1, EndStep DEF Kill, Results
<1> QED
  BY <1>3, <1>4, <1>5, <1>6, <1>7, <1>8, <1>9, <1>10, <1>11

-----------------------------------------------------------------------------
(***************************************************************************)
(* The steps of the environment                                            *)
(***************************************************************************)
LEMMA RebootStep ==
    ASSUME Inv, Reboot
    PROVE  Inv'
<1>1. FaultsGrow /\ faults'["reboot"] > 0
  BY FaultCounts, FaultKindsAssumption DEF Reboot, Inv, TypeInv
<1>2. ReadUnits \in [Units -> Contents]
  BY DEF ReadUnits, HostOK, Files, UnitFiles, Inv, TypeInv
<1>3. running' \in [Units -> Contents]
  BY DEF Reboot, HostOK, Files, UnitFiles, Contents, Inv, TypeInv
<1>4. domain' \in [Nodes -> Domains]
  <2>1. ASSUME NEW n \in Nodes, NEW live \in {Missing, domain[n].def}
        PROVE  [domain[n] EXCEPT !.live = live] \in Domains
    BY DEF Domains, HostOK, Inv, TypeInv, Definitions, Contents
  <2> QED
    BY <2>1 DEF Reboot
<1>5. disk' \in [Nodes -> Disks \cup {NoDisk}]
  <2>1. ASSUME NEW n \in Nodes, disk[n] # NoDisk
        PROVE  [disk[n] EXCEPT !.used = TRUE] \in Disks
    BY <2>1 DEF Disks, HostOK, Inv, TypeInv
  <2> QED
    BY <2>1 DEF Reboot, HostOK, Inv, TypeInv
<1>6. HostOK'
  BY <1>2, <1>3, <1>4, <1>5 DEF Reboot, HostOK, Inv, TypeInv
<1>7. RunsOK' /\ \A p \in Appliers : run'[p] = Idle("none")
  BY DEF Reboot, RunsOK, IdleOK, Results
<1>8. LockOwned' /\ lock' \in Appliers \cup {Free, Left}
  <2>1. lock' \in {Free, Left}
    BY DEF Reboot, LeaveLock, Inv, TypeInv
  <2>2. \A p \in Appliers : ~InsideLock(p)' /\ lock' # p
    BY <1>7, <2>1, LockAssumption DEF InsideLock, Idle
  <2>3. faults'["crash"] \in Nat /\ faults'["fail"] \in Nat /\ faults'["reboot"] \in Nat
    BY <1>1, FaultKindsAssumption DEF FaultsGrow
  <2> QED
    BY <1>1, <2>1, <2>2, <2>3 DEF LockOwned
<1> QED
  BY <1>1, <1>6, <1>7, <1>8 DEF Reboot, Inv, TypeInv, FaultsGrow

\* A step that leaves the processes, and the lock unless it frees a left one.
LEMMA AwayStep ==
    ASSUME Inv, FaultsGrow, UNCHANGED run, lock' = lock \/ (lock = Left /\ lock' = Free),
           site' = site, config' \in Configs, HostOK'
    PROVE  Inv'
<1>1. RunsOK'
  BY DEF Inv, TypeInv, RunsOK
<1>2. \A p \in Appliers : (InsideLock(p)' <=> InsideLock(p)) /\ (lock' = p <=> lock = p)
  BY LockAssumption DEF InsideLock
<1>3. lock' = Left => faults'["crash"] + faults'["fail"] + faults'["reboot"] > 0
  <2>1. /\ faults["crash"] \in Nat /\ faults'["crash"] \in Nat /\ faults'["crash"] >= faults["crash"]
        /\ faults["fail"] \in Nat /\ faults'["fail"] \in Nat /\ faults'["fail"] >= faults["fail"]
        /\ faults["reboot"] \in Nat /\ faults'["reboot"] \in Nat
        /\ faults'["reboot"] >= faults["reboot"]
    BY FaultKindsAssumption DEF FaultsGrow
  <2> QED
    BY <2>1, LockAssumption DEF LockOwned, Inv
<1>4. LockOwned'
  BY <1>2, <1>3 DEF LockOwned, Inv
<1> QED
  BY <1>1, <1>4 DEF Inv, TypeInv, FaultsGrow

LEMMA MeddleStep ==
    ASSUME Inv, NEW n \in Nodes, Meddle(n)
    PROVE  Inv'
<1>1. FaultsGrow
  BY FaultCounts, FaultKindsAssumption DEF Meddle, Inv, TypeInv
<1>2. CASE Ready(config, "start", n, <<n, 0>>) /\ StartVm(n)
  <2>1. domain[n].def # Missing
    BY <1>2 DEF Ready
  <2>2. HostOK'
    BY <1>2, <2>1, StartVmType DEF Meddle, HostOK, Inv, TypeInv
  <2> QED
    BY <1>1, <2>2, AwayStep DEF Meddle, Inv, TypeInv
<1>3. CASE domain' = [domain EXCEPT ![n].live = Missing] /\ UNCHANGED disk
  <2>1. [domain[n] EXCEPT !.live = Missing] \in Domains
    BY DEF Domains, HostOK, Inv, TypeInv, Definitions, Contents
  <2>2. HostOK'
    BY <1>3, <2>1 DEF Meddle, HostOK, Inv, TypeInv
  <2> QED
    BY <1>1, <2>2, AwayStep DEF Meddle, Inv, TypeInv
<1> QED
  BY <1>2, <1>3 DEF Meddle

-----------------------------------------------------------------------------
(***************************************************************************)
(* The theorems                                                            *)
(***************************************************************************)
LEMMA InitInv == Init => Inv
<1> SUFFICES ASSUME Init PROVE Inv
  OBVIOUS
<1>1. FaultsTypeOK
  BY DEF Init, FaultsInit, FaultsTypeOK
<1>2. PICK h \in Hosts : file = h.file /\ disk = h.disk /\ domain = h.domain
  BY DEF Init
<1>3. /\ h.file \in [Files -> Contents] /\ h.disk \in [Nodes -> Disks \cup {NoDisk}]
      /\ h.domain \in [Nodes -> Domains]
  BY HostsAssumption
<1>4. loaded \in [Units -> Contents]
  BY <1>2, <1>3 DEF Init, Files, UnitFiles
<1>5. HostOK
  BY <1>2, <1>3, <1>4 DEF Init, HostOK
<1>6. RunsOK /\ \A p \in Appliers : run[p] = Idle("none")
  BY DEF Init, RunsOK, IdleOK, Results
<1>7. LockOwned
  BY <1>6, LockAssumption DEF Init, LockOwned, InsideLock, Idle
<1> QED
  BY <1>1, <1>5, <1>6, <1>7 DEF Init, Inv, TypeInv

LEMMA NextInv == Inv /\ [Next]_vars => Inv'
<1> SUFFICES ASSUME Inv, [Next]_vars PROVE Inv'
  OBVIOUS
<1>1. CASE UNCHANGED vars
  <2>1. HostOK'
    BY <1>1 DEF vars, host, HostOK, Inv, TypeInv
  <2>2. FaultsGrow
    BY <1>1, FaultCounts DEF vars, Inv, TypeInv
  <2> QED
    BY <1>1, <2>1, <2>2, AwayStep DEF vars, Inv, TypeInv
<1>2. ASSUME NEW p \in Appliers, Starts(p) PROVE Inv'
  BY <1>2, BeginStep DEF Starts
<1>3. ASSUME NEW p \in Appliers, Work(p) \/ Faulty(p) PROVE Inv'
  BY <1>3, CheckStep, ExecuteStep, ExecuteFailsStep, RestoreStep, OtherStep DEF Work, Faulty
<1>4. CASE Reboot
  BY <1>4, RebootStep
<1>5. CASE EditConfig
  <2>1. FaultsGrow
    BY <1>5, FaultCounts, FaultKindsAssumption DEF EditConfig, Inv, TypeInv
  <2>2. HostOK' /\ config' \in Configs
    BY <1>5 DEF EditConfig, host, HostOK, Inv, TypeInv
  <2> QED
    BY <1>5, <2>1, <2>2, AwayStep DEF EditConfig
<1>6. CASE ClearLock
  <2>1. FaultsGrow
    BY <1>6, FaultCounts DEF ClearLock, Inv, TypeInv
  <2>2. HostOK' /\ config' \in Configs
    BY <1>6 DEF ClearLock, host, HostOK, Inv, TypeInv
  <2> QED
    BY <1>6, <2>1, <2>2, AwayStep DEF ClearLock
<1>7. ASSUME NEW n \in Nodes, Meddle(n) PROVE Inv'
  BY <1>7, MeddleStep
<1> QED
  BY <1>1, <1>2, <1>3, <1>4, <1>5, <1>6, <1>7 DEF Next

LEMMA InvHolds == Spec => []Inv
BY InitInv, NextInv, PTL DEF Spec

\* The type invariant of the runs follows.
LEMMA InvTypes == Inv => HostTypeOK
<1> SUFFICES ASSUME Inv PROVE HostTypeOK
  OBVIOUS
<1>1. ASSUME NEW p \in Appliers PROVE RunTypeOK(run[p])
  <2>1. CASE IdleOK(run[p])
    BY <2>1 DEF IdleOK, Idle, RunTypeOK
  <2>2. CASE ActiveOK(run[p])
    <3> DEFINE T == [step: UnitFiles \cup NodeSteps({"define"}), old: Definitions]
               undo == run[p].undo
    <3>1. Undos \subseteq T
      BY DEF Undos, Definitions
    <3>2. undo \in Seq(Undos)
      BY <2>2 DEF ActiveOK
    <3> HIDE DEF T, undo
    <3>3. undo \in Seq(T)
      BY <3>1, <3>2
    <3> QED
      BY <2>2, <3>3 DEF ActiveOK, PlanOK, RunTypeOK, Phases, T, undo
  <2> QED
    BY <2>1, <2>2 DEF Inv, TypeInv, RunsOK
<1> QED
  BY <1>1 DEF Inv, TypeInv, HostOK, HostTypeOK

(***************************************************************************)
(* Every run keeps to the types: the plan of a run is about the steps of   *)
(* its own configuration, and its rollback about unit files and domains.   *)
(***************************************************************************)
THEOREM HostTypeCorrect == Spec => []HostTypeOK
BY InvHolds, InvTypes, PTL

(***************************************************************************)
(* ApplyLock: whatever number of host-agent processes there is, the one    *)
(* that executes, rolls back or verifies holds the lock file, and a lock   *)
(* file nobody holds was left by a failure.                                *)
(***************************************************************************)
THEOREM LockIsOwned == Spec => []LockOwned
<1>1. Inv => LockOwned
  BY DEF Inv
<1> QED
  BY <1>1, InvHolds, PTL

-----------------------------------------------------------------------------
(***************************************************************************)
(* host-install and the datasets                                           *)
(***************************************************************************)
\* A step leaves what lies inside, but for the boot of a guest from its disk.
Kept(inside) ==
    /\ \A f \in Files \cap inside : file'[f] = file[f]
    /\ \A n \in Nodes : <<"disk", n, 0>> \in inside /\ disk'[n] # disk[n]
                      => disk[n] # NoDisk /\ disk'[n] = [disk[n] EXCEPT !.used = TRUE]

\* Starting a VM marks a disk that is there as used.
LEMMA StartVmKeeps ==
    ASSUME HostOK, NEW n, StartVm(n), NEW inside, UNCHANGED file
    PROVE  Kept(inside)
BY DEF StartVm, HostOK, Kept

\* No operation of an install writes inside a dataset: the plan was refused
\* if one of its targets lay there, and the operation writes to its target.
LEMMA EffectKeeps ==
    ASSUME HostOK, NEW r, ActiveOK(r), r.kind = "install", NEW s \in DOMAIN r.plan,
           Effect(r.config, r.plan[s], s)
    PROVE  Kept(r.config.inside)
<1> DEFINE c == r.config  op == r.plan[s]
<1>1. c \in HostConfigs /\ s \in Steps(c, r.starts) /\ r.starts \in BOOLEAN /\ Fits(s, op)
  BY ConfigsAssumption DEF ActiveOK, PlanOK
<1>2. Writes(r.plan, s) => TargetOf(s) \notin c.inside
  BY DEF ActiveOK, PlanOK
<1>3. CASE OnFiles(c, op, s)
  <2>1. s \notin c.inside
    BY <1>1, <1>2, <1>3 DEF OnFiles, Fits, Writes, TargetOf
  <2> QED
    BY <1>3, <2>1 DEF OnFiles, HostOK, Kept
<1>4. CASE OnDisk(c, op, s[2])
  <2>1. s = <<"disk", s[2], 0>> /\ s \notin c.inside
    BY <1>1, <1>2, <1>4, StepType DEF OnDisk, Fits, Writes, TargetOf
  <2>2. \A n \in Nodes : <<"disk", n, 0>> \in c.inside => n # s[2]
    BY <2>1
  <2> QED
    BY <1>4, <2>2 DEF OnDisk, HostOK, Kept
<1>5. CASE OnUnits(op, <<s[2], s[3]>>)
  BY <1>5 DEF OnUnits, Kept
<1>6. CASE OnDomain(op, s[2])
  <2>1. CASE StartVm(s[2])
    BY <1>6, <2>1, StartVmKeeps DEF OnDomain
  <2>2. CASE UNCHANGED disk
    BY <1>6, <2>2 DEF OnDomain, Kept
  <2> QED
    BY <1>6, <2>1, <2>2 DEF OnDomain
<1> QED
  BY <1>3, <1>4, <1>5, <1>6 DEF Effect

LEMMA NextKeeps ==
    ASSUME Inv, [Next]_vars, NEW p \in Appliers, run[p].at = "executing",
           run[p].kind = "install", lock = p
    PROVE  Kept(run[p].config.inside)
<1> DEFINE inside == run[p].config.inside
<1>1. HostOK /\ ActiveOK(run[p])
  BY InProgress DEF Inv, TypeInv, Phases
<1>2. ASSUME UNCHANGED <<file, disk>> PROVE Kept(inside)
  BY <1>2 DEF Kept
<1>3. CASE UNCHANGED vars
  BY <1>2, <1>3 DEF vars, host
<1>4. ASSUME NEW q \in Appliers, InsideLock(q) PROVE q = p
  BY <1>4 DEF Inv, LockOwned
<1>5. ASSUME NEW q \in Appliers, Starts(q) PROVE Kept(inside)
  BY <1>2, <1>5 DEF Starts, Begin, host
<1>6. ASSUME NEW q \in Appliers, Execute(q) PROVE Kept(inside)
  <2>1. q = p
    BY <1>4, <1>6 DEF Execute, InsideLock
  <2>2. PICK s \in DOMAIN run[p].plan : Effect(run[p].config, run[p].plan[s], s)
    BY <1>6, <2>1 DEF Execute
  <2> QED
    BY <1>1, <2>2, EffectKeeps
<1>7. ASSUME NEW q \in Appliers, ExecuteFails(q) PROVE Kept(inside)
  <2>1. q = p
    BY <1>4, <1>7 DEF ExecuteFails, InsideLock
  <2>2. \/ UNCHANGED host
        \/ \E s \in DOMAIN run[p].plan : Effect(run[p].config, run[p].plan[s], s)
    BY <1>7, <2>1 DEF ExecuteFails
  <2> QED
    BY <1>1, <1>2, <2>2, EffectKeeps DEF host
<1>8. ASSUME NEW q \in Appliers, Restore(q) PROVE Kept(inside)
  BY <1>4, <1>8 DEF Restore, InsideLock
<1>9. ASSUME NEW q \in Appliers,
             \/ Acquire(q) \/ Check(q) \/ Restored(q) \/ Commit(q) \/ Verify(q) \/ Faulty(q)
      PROVE  Kept(inside)
  BY <1>2, <1>9 DEF Acquire, Check, Restored, Commit, Verify, Faulty, AcquireFails,
                    RestoreFails, CommitFails, VerifyFails, Kill, host
<1>10. CASE Reboot
  BY <1>1, <1>10 DEF Reboot, HostOK, Kept
<1>11. CASE EditConfig \/ ClearLock
  BY <1>2, <1>11 DEF EditConfig, ClearLock, host
<1>12. ASSUME NEW n \in Nodes, Meddle(n) PROVE Kept(inside)
  <2>1. CASE StartVm(n)
    BY <1>1, <1>12, <2>1, StartVmKeeps DEF Meddle
  <2>2. CASE UNCHANGED disk
    BY <1>2, <1>12, <2>2 DEF Meddle
  <2> QED
    BY <1>12, <2>1, <2>2 DEF Meddle
<1> QED
  BY <1>3, <1>5, <1>6, <1>7, <1>8, <1>9, <1>10, <1>11, <1>12 DEF Next, Work

(***************************************************************************)
(* host-install and the exported datasets: the guard is evaluated on the   *)
(* plan, before the lock, and holds for what the run does later, whatever  *)
(* else happens on the host in between.                                    *)
(***************************************************************************)
THEOREM DatasetsKept == Spec => DatasetsUntouched
<1>1. Inv /\ [Next]_vars =>
        \A p \in Appliers :
          /\ run[p].at = "executing" /\ run[p].kind = "install" /\ lock = p
          => /\ \A f \in Files \cap run[p].config.inside : file'[f] = file[f]
             /\ \A n \in Nodes : <<"disk", n, 0>> \in run[p].config.inside /\ disk'[n] # disk[n]
                               => disk[n] # NoDisk /\ disk'[n] = [disk[n] EXCEPT !.used = TRUE]
  BY NextKeeps DEF Kept
<1> QED
  BY <1>1, InvHolds, PTL DEF Spec, DatasetsUntouched
=============================================================================
