----------------------- MODULE HostApplySerialProofs -----------------------
(***************************************************************************)
(* Proofs about HostApply when host-agent processes do not overlap: one    *)
(* applier, and no VM is started or stopped from outside while a run is    *)
(* on.  A run plans before it takes the lock, so none of this holds of two *)
(* processes.  For every host, every configuration and every number of     *)
(* faults.                                                                 *)
(***************************************************************************)
EXTENDS HostApplyProofs

USE DEF NoFault

\* One host-agent process, and nobody else touches the VMs while it runs.
Alone == (\A p, q \in Appliers : p = q) /\ ~MeddlesDuring

UnitOf(s) == <<s[2], s[3]>>
Daemon(u) == <<"daemon", u[1], u[2]>>
Define(n) == <<"define", n, 0>>

FileKinds == {"xml", "dir", "seed", "unit"}
EarlyKinds == {"xml", "dir", "disk", "seed"}

-----------------------------------------------------------------------------
(***************************************************************************)
(* Half way through a plan                                                 *)
(***************************************************************************)
\* The inspection of the run read the definition of the node's domain.
Read(r, n) == <<"dumpxml", n, 0>> \notin r.missed

\* It did not learn that the daemon of the unit runs, or starts at boot.
Unheard(r, u) == \/ <<"is-active", u[1], u[2]>> \in r.missed
                 \/ <<"is-enabled", u[1], u[2]>> \in r.missed

\* Until the lock is taken, the plan is the one that planning would give now,
\* if the same commands failed.
PlanCurrent(r) ==
    /\ r.plan = PlanFor(r.config, Files, r.missed, r.allow, r.starts)
    /\ r.previous = [n \in Nodes |-> IF Read(r, n) THEN Shown(domain[n]) ELSE Missing]
    /\ r.undo = <<>>

\* The host still calls for a step that is to be executed.
Pending(r, s) ==
    LET c == r.config  op == r.plan[s]  n == s[2]  u == UnitOf(s)
    IN  /\ s[1] \in FileKinds => op = "write" /\ file[s] # c.want[s]
        /\ s[1] = "disk" => \/ op = "create" /\ disk[n] = NoDisk
                            \/ /\ op = "resize" /\ disk[n] # NoDisk
                               /\ ~disk[n].foreign /\ disk[n].size < c.size[n]
        /\ s[1] = "unit" => Reload \in DOMAIN r.plan
        /\ s[1] = "reload" => op = "reload"
        /\ s[1] = "daemon" =>
              \/ op = "enable" /\ (running[u] = Missing \/ Unheard(r, u))
              \/ /\ op = "restart" /\ u \in enabled /\ running[u] # Missing
                 /\ \/ Reload \in DOMAIN r.plan
                    \/ loaded[u] = c.want[Unit(u)]
        /\ s[1] = "define" =>
              \/ op = "define" /\ (Read(r, n) => domain[n].def = Missing)
              \/ /\ op = "redefine" /\ Read(r, n)
                 /\ domain[n].live # Missing => "redefine" \in r.allow \/ Unnoticed(r, n)
        /\ s[1] = "autostart" => op = "autostart"
        /\ s[1] = "start" => op = "start" /\ (domain[n].live = Missing \/ Unnoticed(r, n))

\* What a step of the plan is for, when it was executed or could be skipped.
Done(r, s) ==
    LET c == r.config  n == s[2]  u == UnitOf(s)
    IN  /\ s[1] \in FileKinds => file[s] = c.want[s]
        /\ s[1] = "disk" => /\ disk[n] # NoDisk /\ ~disk[n].foreign
                            /\ disk[n].size = c.size[n]
        /\ s[1] = "daemon" => u \in enabled /\ running[u] # Missing
        /\ s[1] = "define" =>
              /\ domain[n].def # Missing
              /\ \/ domain[n].def = c.want[Xml(n)]
                 \/ AwaitedRestart(r, n) /\ domain[n].live = c.want[Xml(n)]
        /\ s[1] = "autostart" => domain[n].autostart
        /\ s[1] = "start" => domain[n].live # Missing

\* The tools the planner asks for are there.
ToolsFound(s) ==
    /\ s[1] = "disk" => "qemu-img" \in site.tools
    /\ s[1] \in {"reload", "daemon"} => "systemctl" \in site.tools
    /\ s[1] \in {"define", "autostart", "start"} => "virsh" \in site.tools

\* Every step of the plan is pending or done, and nothing that has to be put
\* back was written before the files and disks of all nodes are there.
HalfWay(r) ==
    /\ \A s \in Steps(r.config, r.starts) :
          /\ ToolsFound(s)
          /\ IF s \in DOMAIN r.plan THEN Pending(r, s) ELSE Done(r, s)
    /\ r.undo # <<>> => \A s \in DOMAIN r.plan : s[1] \notin EarlyKinds

\* The rollback has an entry for the step s.
Noted(r, s) == \E i \in 1..Len(r.undo) : r.undo[i].step = s

\* What a rollback would put back is what the run found, and all it changed.
Rewinds(r) ==
    /\ \A i, j \in 1..Len(r.undo) : r.undo[i].step = r.undo[j].step => i = j
    /\ \A i \in 1..Len(r.undo) :
          LET s == r.undo[i].step
          IN  /\ s \in UnitFiles => r.undo[i].old = r.before.file[s]
              /\ s \notin UnitFiles => r.undo[i].old = Shown(r.before.domain[s[2]])
    /\ \A f \in UnitFiles : Noted(r, f) \/ file[f] = r.before.file[f]
    /\ \A n \in Nodes :
          \/ Noted(r, Define(n))
          \/ r.before.domain[n].def = Missing \/ AwaitedRestart(r, n) \/ ~Read(r, n)
          \/ domain[n].def = r.before.domain[n].def

\* Nothing is noted that is still to be done, or that was right already, and
\* the daemon of a unit file that is to be written is started after it.
Recording(r) ==
    /\ \A i \in 1..Len(r.undo) :
          /\ r.undo[i].step \notin DOMAIN r.plan
          /\ r.undo[i].step \in UnitFiles => r.undo[i].old # r.config.want[r.undo[i].step]
    /\ \A n \in Nodes : Read(r, n) => r.previous[n] = Shown(r.before.domain[n])
    /\ \A u \in Units : Unit(u) \in DOMAIN r.plan => Daemon(u) \in DOMAIN r.plan

RunOnCourse(r) ==
    /\ r.at \in {"planned", "locked"} => PlanCurrent(r)
    /\ r.at = "executing" => HalfWay(r) /\ Rewinds(r) /\ Recording(r)
    /\ r.at = "restoring" => Rewinds(r)

\* systemd starts every daemon that runs at the next boot.
EnabledRun == \A u \in Units : running[u] # Missing => u \in enabled

\* The inductive invariant of a single run at a time.
SerialInv ==
    /\ Inv
    /\ EnabledRun
    /\ \A p \in Appliers : RunOnCourse(run[p])

-----------------------------------------------------------------------------
(***************************************************************************)
(* The order of the steps                                                  *)
(***************************************************************************)
LEMMA StepNumbers ==
    ASSUME NEW c \in HostConfigs, NEW b \in BOOLEAN, NEW s \in Steps(c, b)
    PROVE  /\ s[2] \in Nat /\ s[3] \in Nat
           /\ s[1] = "reload" => s = Reload
<1>1. CASE s = Reload
  BY <1>1 DEF Reload
<1>2. CASE s[1] \in {"unit", "daemon"}
  BY <1>2, StepType, NodesAssumption DEF Units
<1>3. CASE s[1] \notin {"unit", "daemon", "reload"}
  <2>1. PICK n \in Nodes : s = <<s[1], n, 0>>
    BY <1>3, StepType
  <2> QED
    BY <1>3, <2>1, NodesAssumption
<1>4. s[1] = "reload" => s = Reload
  BY DEF Steps, NodeSteps, UnitSteps
<1> QED
  BY <1>1, <1>2, <1>3, <1>4

LEMMA PrecedesOrder ==
    ASSUME NEW c \in HostConfigs, NEW b \in BOOLEAN, NEW s \in Steps(c, b), NEW t \in Steps(c, b),
           Precedes(s, t)
    PROVE  /\ Stage(s[1]) <= Stage(t[1])
           /\ Stage(s[1]) = Stage(t[1]) /\ s[2] = t[2] /\ s[3] = t[3]
                 => Position(s[1]) < Position(t[1])
<1> DEFINE k == <<Stage(s[1]), s[2], s[3], Position(s[1])>>
           l == <<Stage(t[1]), t[2], t[3], Position(t[1])>>
<1>1. \E i \in 1..4 : k[i] < l[i] /\ \A j \in 1..(i - 1) : k[j] = l[j]
  BY DEF Precedes
<1>2. k[1] = Stage(s[1]) /\ k[2] = s[2] /\ k[3] = s[3] /\ k[4] = Position(s[1])
  OBVIOUS
<1>3. l[1] = Stage(t[1]) /\ l[2] = t[2] /\ l[3] = t[3] /\ l[4] = Position(t[1])
  OBVIOUS
<1>4. Stage(s[1]) \in Nat /\ Stage(t[1]) \in Nat
  BY StepType DEF Stage
<1>5. Position(s[1]) \in Nat /\ Position(t[1]) \in Nat
  BY DEF Position
<1>6. s[2] \in Nat /\ s[3] \in Nat /\ t[2] \in Nat /\ t[3] \in Nat
  BY StepType, StepNumbers
<1> HIDE DEF k, l
<1> QED
  BY <1>1, <1>2, <1>3, <1>4, <1>5, <1>6

\* When a step is the next one, the steps that have to come before are over.
LEMMA NextInOrder ==
    ASSUME NEW r, r.config \in HostConfigs, r.starts \in BOOLEAN,
           DOMAIN r.plan \subseteq Steps(r.config, r.starts),
           NEW s \in DOMAIN r.plan, IsNext(r, s), NEW t \in DOMAIN r.plan
    PROVE  /\ s[1] \notin EarlyKinds => t[1] \notin EarlyKinds
           /\ s[1] \in {"reload", "daemon", "define", "autostart", "start"} => t[1] # "unit"
           /\ s[1] \in {"daemon", "define", "autostart", "start"} => t[1] # "reload"
           /\ s[1] \in {"define", "autostart", "start"} => t[1] # "daemon"
           /\ s[1] \in {"autostart", "start"} => t # Define(s[2])
<1>1. CASE t = s
  BY <1>1 DEF Define, EarlyKinds
<1>2. CASE t # s
  <2>1. Precedes(s, t)
    BY <1>2 DEF IsNext, IsFirst
  <2>2. /\ Stage(s[1]) <= Stage(t[1])
        /\ Stage(s[1]) = Stage(t[1]) /\ s[2] = t[2] /\ s[3] = t[3]
              => Position(s[1]) < Position(t[1])
    BY <2>1, PrecedesOrder
  <2>3. s[1] \in {"autostart", "start"} => t # Define(s[2])
    <3>1. SUFFICES ASSUME s[1] \in {"autostart", "start"}, t = Define(s[2]) PROVE FALSE
      OBVIOUS
    <3>2. t[1] = "define" /\ t[2] = s[2] /\ t[3] = 0
      BY <3>1 DEF Define
    <3>3. s[3] = 0
      <4>1. PICK n \in Nodes : s = <<s[1], n, 0>>
        BY <3>1, StepType
      <4> QED
        BY <4>1
    <3> QED
      BY <2>2, <3>1, <3>2, <3>3 DEF Stage, Position
  <2>4. s[1] \in {"xml", "dir", "disk", "seed", "define", "autostart", "start", "unit", "daemon",
                  "reload"}
    BY StepType
  <2>5. t[1] \in {"xml", "dir", "disk", "seed", "define", "autostart", "start", "unit", "daemon",
                  "reload"}
    BY StepType
  <2> QED
    BY <2>2, <2>3, <2>4, <2>5 DEF Stage, EarlyKinds
<1> QED
  BY <1>1, <1>2

-----------------------------------------------------------------------------
(***************************************************************************)
(* What a step of the specification means for the one run: r is the run    *)
(* before it, q the run after it.                                          *)
(***************************************************************************)
SameRun(q, r) ==
    /\ q.kind = r.kind /\ q.config = r.config /\ q.allow = r.allow /\ q.starts = r.starts
    /\ q.previous = r.previous /\ q.before = r.before /\ q.missed = r.missed

\* The run is over: its plan is executed, its rollback complete, or it was
\* killed or broke off.
Ended(r, q) ==
    /\ UNCHANGED host
    /\ \E result \in Results : q = Idle(result)
    /\ r.at = "executing" => DOMAIN r.plan = {} \/ faults'["crash"] > 0
    /\ r.at = "restoring" => \/ r.undo = <<>>
                             \/ /\ q # Idle("failed")
                                /\ faults'["crash"] > 0 \/ faults'["broken"] > 0

Started(r, q) ==
    /\ UNCHANGED host
    /\ r.at = "idle"
    /\ q.at \in {"planned", "verifying"} /\ q.config = config
    /\ q.missed = {} \/ faults'["inspect"] > 0
    /\ q.at = "planned" => PlanCurrent(q)

Shifted(r, q) ==
    /\ UNCHANGED host
    /\ SameRun(q, r) /\ q.plan = r.plan /\ q.undo = r.undo
    /\ \/ r.at = "planned" /\ q.at = "locked"
       \/ r.at = "executing" /\ DOMAIN r.plan = {} /\ q.at = "verifying"

Approved(r, q) ==
    /\ UNCHANGED host
    /\ r.at = "locked" /\ q.at = "executing" /\ ~HasRefusals(r.plan)
    /\ q.kind = r.kind /\ q.config = r.config /\ q.allow = r.allow /\ q.starts = r.starts
    /\ q.previous = r.previous /\ q.before = [file |-> file, domain |-> domain]
    /\ q.missed = r.missed
    /\ q.plan = [s \in ToApply(r.plan) |-> r.plan[s]] /\ q.undo = r.undo

ReadyFor(r, s) == Ready(r.config, r.plan[s], s[2], UnitOf(s))

Advanced(r, q, s) ==
    /\ r.at = "executing" /\ q.at = "executing"
    /\ IsNext(r, s) /\ ReadyFor(r, s) /\ Effect(r.config, r.plan[s], s)
    /\ SameRun(q, r)
    /\ q.plan = [t \in DOMAIN r.plan \ {s} |-> r.plan[t]]
    /\ q.undo = Staged(r, r.plan[s], s)

FailedAt(r, q, s) ==
    /\ r.at = "executing" /\ q.at = "restoring"
    /\ IsNext(r, s)
    /\ \/ UNCHANGED host
       \/ ReadyFor(r, s) /\ Effect(r.config, r.plan[s], s)
    /\ ReadyFor(r, s) => faults'["fail"] > 0
    /\ SameRun(q, r) /\ q.undo = Staged(r, r.plan[s], s)

TookBack(r, q) ==
    /\ r.at = "restoring" /\ q.at = "restoring"
    /\ r.undo # <<>>
    /\ LET back == r.undo[Len(r.undo)]
       IN  IF back.step[1] = "unit"
           THEN file' = [file EXCEPT ![back.step] = back.old] /\ UNCHANGED domain
           ELSE domain' = [domain EXCEPT ![back.step[2]].def = back.old] /\ UNCHANGED file
    /\ UNCHANGED <<disk, loaded, enabled, running>>
    /\ SameRun(q, r) /\ q.undo = SubSeq(r.undo, 1, Len(r.undo) - 1)

Rebooted(q) ==
    /\ q = Idle("none")
    /\ loaded' = ReadUnits
    /\ running' = [u \in Units |-> IF u \in enabled THEN file[Unit(u)] ELSE Missing]
    /\ UNCHANGED <<file, enabled>>
    /\ \A n \in Nodes : domain'[n].def = domain[n].def
    /\ disk' = [n \in Nodes |-> IF disk[n] # NoDisk /\ domain[n].autostart
                                THEN [disk[n] EXCEPT !.used = TRUE] ELSE disk[n]]

\* Somebody else did something.
Elsewhere(r, q) ==
    /\ q = r
    /\ UNCHANGED <<file, loaded, enabled, running>>
    /\ UNCHANGED host \/ r.at = "idle"

Moves(r, q) ==
    \/ Ended(r, q) \/ Started(r, q) \/ Shifted(r, q) \/ Approved(r, q) \/ TookBack(r, q)
    \/ \E s \in DOMAIN r.plan : Advanced(r, q, s) \/ FailedAt(r, q, s)
    \/ Rebooted(q) \/ Elsewhere(r, q)

\* Changing one field of a run leaves the others, the record of the host too.
LEMMA ChangedRun ==
    ASSUME NEW r, Shape(r), NEW x
    PROVE  /\ LET q == Moved(r, x)
              IN  Shape(q) /\ SameRun(q, r) /\ q.at = x /\ q.plan = r.plan /\ q.undo = r.undo
           /\ LET q == Replanned(r, x)
              IN  Shape(q) /\ SameRun(q, r) /\ q.at = r.at /\ q.plan = x /\ q.undo = r.undo
           /\ LET q == Undoing(r, x)
              IN  Shape(q) /\ SameRun(q, r) /\ q.at = r.at /\ q.plan = r.plan /\ q.undo = x
           /\ LET q == Recorded(r, x)
              IN  /\ q.kind = r.kind /\ q.config = r.config /\ q.allow = r.allow
                  /\ q.starts = r.starts /\ q.previous = r.previous /\ q.before = x
                  /\ q.missed = r.missed
                  /\ q.at = r.at /\ q.plan = r.plan /\ q.undo = r.undo
<1>1. LET q == Moved(r, x)
      IN  Shape(q) /\ SameRun(q, r) /\ q.at = x /\ q.plan = r.plan /\ q.undo = r.undo
  BY DEF Shape, Moved, SameRun
<1>2. LET q == Replanned(r, x)
      IN  Shape(q) /\ SameRun(q, r) /\ q.at = r.at /\ q.plan = x /\ q.undo = r.undo
  BY DEF Shape, Replanned, SameRun
<1>3. LET q == Undoing(r, x)
      IN  Shape(q) /\ SameRun(q, r) /\ q.at = r.at /\ q.plan = r.plan /\ q.undo = x
  BY DEF Shape, Undoing, SameRun
<1>4. LET q == Recorded(r, x)
      IN  /\ q.kind = r.kind /\ q.config = r.config /\ q.allow = r.allow
          /\ q.starts = r.starts /\ q.previous = r.previous /\ q.before = x
          /\ q.missed = r.missed
          /\ q.at = r.at /\ q.plan = r.plan /\ q.undo = r.undo
  BY DEF Shape, Recorded
<1> QED
  BY <1>1, <1>2, <1>3, <1>4

LEMMA RunAt ==
    ASSUME RunsOK, NEW p \in Appliers, NEW x, run' = [run EXCEPT ![p] = x]
    PROVE  run'[p] = x
BY DEF RunsOK

LEMMA CheckMoves ==
    ASSUME Inv, NEW p \in Appliers, NEW r, NEW q, r = run[p], q = run'[p], Check(p)
    PROVE  Moves(r, q)
<1> DEFINE moved == Moved(r, "executing")
           kept == Replanned(moved, [s \in ToApply(r.plan) |-> r.plan[s]])
           before == [file |-> file, domain |-> domain]
<1>1. Shape(r) /\ r.at = "locked" /\ UNCHANGED host
  BY InProgress DEF Check, Phases, Inv, TypeInv, ActiveOK
<1>2. CASE r.config.odd \/ HasRefusals(r.plan)
  <2>1. q = Idle("refused")
    BY <1>2, RunAt DEF Check, End, Inv, TypeInv
  <2> QED
    BY <1>1, <2>1 DEF Moves, Ended, Results
<1>3. CASE ~(r.config.odd \/ HasRefusals(r.plan))
  <2>1. run' = [run EXCEPT ![p] = Recorded(kept, before)]
    BY <1>3 DEF Check, Recorded, Replanned, Moved
  <2>2. q = Recorded(kept, before)
    BY <2>1, RunAt DEF Inv, TypeInv
  <2> HIDE DEF moved, before
  <2>3. Shape(moved) /\ SameRun(moved, r) /\ moved.at = "executing" /\ moved.plan = r.plan
        /\ moved.undo = r.undo
    BY <1>1, ChangedRun DEF moved
  <2>4. Shape(kept) /\ SameRun(kept, moved) /\ kept.at = "executing" /\ kept.undo = r.undo
        /\ kept.plan = [s \in ToApply(r.plan) |-> r.plan[s]]
    BY <2>3, ChangedRun
  <2> HIDE DEF kept
  <2>5. /\ q.kind = kept.kind /\ q.config = kept.config /\ q.allow = kept.allow
        /\ q.starts = kept.starts /\ q.previous = kept.previous /\ q.before = before
        /\ q.missed = kept.missed
        /\ q.at = kept.at /\ q.plan = kept.plan /\ q.undo = kept.undo
    BY <2>2, <2>4, ChangedRun
  <2>6. Approved(r, q)
    BY <1>1, <1>3, <2>3, <2>4, <2>5 DEF Approved, SameRun, before
  <2> QED
    BY <2>6 DEF Moves
<1> QED
  BY <1>2, <1>3

LEMMA ExecuteMoves ==
    ASSUME Inv, NEW p \in Appliers, NEW r, NEW q, r = run[p], q = run'[p], Execute(p)
    PROVE  \E s \in DOMAIN r.plan : Advanced(r, q, s)
<1>1. Shape(r) /\ r.at = "executing"
  BY InProgress DEF Execute, Phases, Inv, TypeInv, ActiveOK
<1>2. PICK s \in DOMAIN r.plan :
          /\ IsNext(r, s) /\ ReadyFor(r, s) /\ Effect(r.config, r.plan[s], s)
          /\ run' = [run EXCEPT ![p].plan = [t \in DOMAIN @ \ {s} |-> @[t]],
                                ![p].undo = Staged(r, r.plan[s], s)]
  BY DEF Execute, ReadyFor, UnitOf
<1> DEFINE kept == Replanned(r, [t \in DOMAIN r.plan \ {s} |-> r.plan[t]])
           undo == Staged(r, r.plan[s], s)
<1>3. run' = [run EXCEPT ![p] = Undoing(kept, undo)]
  BY <1>2 DEF Undoing, Replanned
<1>4. q = Undoing(kept, undo)
  BY <1>3, RunAt DEF Inv, TypeInv
<1>5. Shape(kept) /\ SameRun(kept, r) /\ kept.at = "executing"
      /\ kept.plan = [t \in DOMAIN r.plan \ {s} |-> r.plan[t]]
  BY <1>1, ChangedRun
<1> HIDE DEF kept, undo
<1>6. SameRun(q, kept) /\ q.at = "executing" /\ q.plan = kept.plan /\ q.undo = undo
  BY <1>4, <1>5, ChangedRun
<1>7. Advanced(r, q, s)
  BY <1>1, <1>2, <1>5, <1>6 DEF Advanced, SameRun, undo
<1> QED
  BY <1>7

LEMMA ExecuteFailsMoves ==
    ASSUME Inv, NEW p \in Appliers, NEW r, NEW q, r = run[p], q = run'[p], ExecuteFails(p)
    PROVE  \E s \in DOMAIN r.plan : FailedAt(r, q, s)
<1>1. ActiveOK(r) /\ Shape(r) /\ r.at = "executing"
  BY InProgress DEF ExecuteFails, Phases, Inv, TypeInv, ActiveOK
<1>2. PICK s \in DOMAIN r.plan :
          LET ready == Guarded(r.config, s) /\ ReadyFor(r, s)
          IN  /\ IsNext(r, s)
              /\ IF ready THEN Happens("fail") ELSE NoFault
              /\ \/ ready /\ Effect(r.config, r.plan[s], s)
                 \/ UNCHANGED host
              /\ run' = [run EXCEPT ![p].at = "restoring",
                                    ![p].undo = Staged(r, r.plan[s], s)]
  BY DEF ExecuteFails, ReadyFor, UnitOf
<1> DEFINE moved == Moved(r, "restoring")
           undo == Staged(r, r.plan[s], s)
<1>3. run' = [run EXCEPT ![p] = Undoing(moved, undo)]
  BY <1>2 DEF Undoing, Moved
<1>4. q = Undoing(moved, undo)
  BY <1>3, RunAt DEF Inv, TypeInv
<1>5. Shape(moved) /\ SameRun(moved, r) /\ moved.at = "restoring"
  BY <1>1, ChangedRun
<1>6. Guarded(r.config, s)
  <2>1. r.config \in HostConfigs /\ s \in Steps(r.config, r.starts) /\ r.starts \in BOOLEAN
    BY <1>1, ConfigsAssumption DEF ActiveOK, PlanOK
  <2>2. s[1] \in {"unit", "daemon"} => <<s[2], s[3]>> \in UnitsOf(r.config)
    BY <2>1 DEF Steps, NodeSteps, UnitSteps, UnitsOf, Units, Reload
  <2> QED
    BY <2>1, <2>2, StepType DEF Guarded
<1>7. ReadyFor(r, s) => faults'["fail"] > 0
  BY <1>2, <1>6, FaultCounts, FaultKindsAssumption DEF Inv, TypeInv
<1> HIDE DEF moved, undo
<1>8. SameRun(q, moved) /\ q.at = "restoring" /\ q.undo = undo
  BY <1>4, <1>5, ChangedRun
<1>9. FailedAt(r, q, s)
  BY <1>1, <1>2, <1>5, <1>7, <1>8 DEF FailedAt, SameRun, undo
<1> QED
  BY <1>9

LEMMA RestoreMoves ==
    ASSUME Inv, NEW p \in Appliers, NEW r, NEW q, r = run[p], q = run'[p], Restore(p)
    PROVE  TookBack(r, q)
<1>1. Shape(r) /\ r.at = "restoring"
  BY InProgress DEF Restore, Phases, Inv, TypeInv, ActiveOK
<1> DEFINE undo == SubSeq(r.undo, 1, Len(r.undo) - 1)
<1>2. run' = [run EXCEPT ![p] = Undoing(r, undo)]
  BY DEF Undoing, Restore
<1>3. q = Undoing(r, undo)
  BY <1>2, RunAt DEF Inv, TypeInv
<1> HIDE DEF undo
<1>4. SameRun(q, r) /\ q.at = r.at /\ q.undo = undo
  BY <1>1, <1>3, ChangedRun
<1> QED
  BY <1>1, <1>4 DEF TookBack, Restore, undo

LEMMA ShiftMoves ==
    ASSUME Inv, NEW p \in Appliers, NEW r, NEW q, r = run[p], q = run'[p], r.at \in Phases,
           NEW at, Goto(p, at), UNCHANGED host,
           \/ r.at = "planned" /\ at = "locked"
           \/ r.at = "executing" /\ DOMAIN r.plan = {} /\ at = "verifying"
    PROVE  Shifted(r, q)
<1>1. Shape(r)
  BY InProgress DEF Inv, TypeInv, ActiveOK
<1>2. run' = [run EXCEPT ![p] = Moved(r, at)]
  BY DEF Goto, Moved
<1>3. q = Moved(r, at)
  BY <1>2, RunAt DEF Inv, TypeInv
<1>4. SameRun(q, r) /\ q.at = at /\ q.plan = r.plan /\ q.undo = r.undo
  BY <1>1, <1>3, ChangedRun
<1> QED
  BY <1>4 DEF Shifted

LEMMA BeginMoves ==
    ASSUME Inv, NEW p \in Appliers, NEW r, NEW q, r = run[p], q = run'[p],
           NEW kind \in Kinds, NEW allow \in Flags, NEW starts \in BOOLEAN,
           NEW missed \in Misses \cup {{}}, Begin(p, kind, allow, starts, missed)
    PROVE  Moves(r, q)
<1> DEFINE plan == PlanFor(config, Files, missed, allow, starts)
           previous == [n \in Nodes |-> Seen(Files, missed).domain[n].hash]
           before == [file |-> file, domain |-> domain]
           chosen == IF kind = "check" THEN [s \in {} |-> "skip"] ELSE plan
           at == IF kind = "check" THEN "verifying" ELSE "planned"
           x == [at |-> at, kind |-> kind, config |-> config, allow |-> allow, starts |-> starts,
                 missed |-> missed, plan |-> chosen, previous |-> previous,
                 undo |-> <<>>, before |-> before]
<1>1. UNCHANGED host /\ r.at = "idle"
  BY DEF Begin
<1>2. CASE kind = "install" /\ MutatesDatasets(config, plan)
  <2>1. q = Idle("refused")
    BY <1>2, RunAt DEF Begin, End, Inv, TypeInv
  <2> QED
    BY <1>1, <2>1 DEF Moves, Ended, Results
<1>3. CASE ~(kind = "install" /\ MutatesDatasets(config, plan))
  <2>1. run' = [run EXCEPT ![p] = x]
    BY <1>3 DEF Begin
  <2>2. q = x
    BY <2>1, RunAt DEF Inv, TypeInv
  <2> HIDE DEF plan, previous, before
  <2>3. q.at = at /\ q.config = config /\ q.allow = allow /\ q.starts = starts
        /\ q.missed = missed /\ q.plan = chosen /\ q.previous = previous /\ q.undo = <<>>
    BY <2>2
  <2>4. q.at \in {"planned", "verifying"} /\ (q.at = "planned" => chosen = plan)
    BY <2>3
  <2>5. Started(r, q)
    <3>1. previous = [n \in Nodes |-> IF Read(q, n) THEN Shown(domain[n]) ELSE Missing]
      BY <2>3 DEF previous, Read, Seen
    <3>2. missed = {} \/ faults'["inspect"] > 0
      BY FaultCounts, FaultKindsAssumption DEF Begin, Inv, TypeInv
    <3> QED
      BY <1>1, <2>3, <2>4, <3>1, <3>2 DEF Started, PlanCurrent, plan
  <2> QED
    BY <2>5 DEF Moves
<1> QED
  BY <1>2, <1>3

LEMMA EndMoves ==
    ASSUME Inv, FaultsGrow, NEW p \in Appliers, NEW r, NEW q, r = run[p], q = run'[p],
           UNCHANGED host,
           \/ (Acquire(p) /\ lock # Free) \/ AcquireFails(p) \/ RestoreFails(p) \/ Restored(p)
           \/ (Commit(p) /\ r.kind = "apply") \/ CommitFails(p) \/ Verify(p) \/ VerifyFails(p)
           \/ Kill(p)
    PROVE  Ended(r, q)
<1>0. \A result : End(p, result) => q = Idle(result)
  BY RunAt DEF End, Inv, TypeInv
<1>1. CASE RestoreFails(p)
  <2>1. faults'["broken"] > 0 /\ q = Idle("broken")
    BY <1>0, <1>1, FaultCounts, FaultKindsAssumption DEF RestoreFails, Inv, TypeInv
  <2> QED
    BY <1>1, <2>1 DEF Ended, RestoreFails, Results, Idle
<1>2. CASE Kill(p)
  <2>1. faults'["crash"] > 0 /\ q = Idle("none")
    BY <1>0, <1>2, FaultCounts, FaultKindsAssumption DEF Kill, Inv, TypeInv
  <2> QED
    BY <2>1 DEF Ended, Results, Idle
<1>3. CASE (Acquire(p) /\ lock # Free) \/ AcquireFails(p) \/ Verify(p) \/ VerifyFails(p)
  <2>1. r.at \notin {"executing", "restoring"}
    BY <1>3 DEF Acquire, AcquireFails, Verify, VerifyFails
  <2>2. \E result \in Results : q = Idle(result)
    BY <1>0, <1>3 DEF Acquire, AcquireFails, Verify, VerifyFails, Results
  <2> QED
    BY <2>1, <2>2 DEF Ended
<1>4. CASE Restored(p)
  BY <1>0, <1>4 DEF Ended, Restored, Results
<1>5. CASE (Commit(p) /\ r.kind = "apply") \/ CommitFails(p)
  <2>1. \E result \in Results : q = Idle(result)
    BY <1>0, <1>5 DEF Commit, CommitFails, Results
  <2> QED
    BY <1>5, <2>1 DEF Ended, Commit, CommitFails
<1> QED
  BY <1>1, <1>2, <1>3, <1>4, <1>5

\* Alone, the run makes one of these moves in every step.
LEMMA RunMoves ==
    ASSUME Inv, Alone, [Next]_vars, NEW p \in Appliers, NEW r, NEW q, r = run[p], q = run'[p]
    PROVE  Moves(r, q)
<1>0. ASSUME NEW a \in Appliers, Starts(a) \/ Work(a) \/ Faulty(a) PROVE FaultsGrow
  <2>1. NoFault => FaultsGrow
    BY FaultCounts DEF Inv, TypeInv
  <2>2. Happens("fail") \/ Happens("broken") \/ Happens("crash") \/ Happens("inspect")
           => FaultsGrow
    BY FaultCounts, FaultKindsAssumption DEF Inv, TypeInv
  <2>3. Starts(a) => NoFault \/ Happens("inspect")
    BY DEF Starts, Begin
  <2>4. Work(a) => NoFault \/ Happens("fail")
    <3>1. /\ Acquire(a) => NoFault
          /\ Check(a) => NoFault
          /\ Restored(a) => NoFault
          /\ Commit(a) => NoFault
          /\ Verify(a) => NoFault
      BY DEF Acquire, Check, Restored, Commit, Verify
    <3>2. Execute(a) => NoFault
      BY DEF Execute
    <3>3. ExecuteFails(a) => NoFault \/ Happens("fail")
      BY DEF ExecuteFails
    <3>4. Restore(a) => NoFault
      BY DEF Restore
    <3> QED
      BY <3>1, <3>2, <3>3, <3>4 DEF Work
  <2>5. Faulty(a) => Happens("fail") \/ Happens("broken") \/ Happens("crash")
    BY DEF Faulty, AcquireFails, RestoreFails, CommitFails, VerifyFails, Kill
  <2> QED
    BY <1>0, <2>1, <2>2, <2>3, <2>4, <2>5
<1>1. \A a \in Appliers : a = p
  BY DEF Alone
<1>2. CASE UNCHANGED vars
  BY <1>2 DEF vars, Moves, Elsewhere, host
<1>3. CASE Starts(p)
  BY <1>3, BeginMoves DEF Starts
<1>4. CASE Work(p) /\ FaultsGrow
  <2>1. CASE Acquire(p)
    <3>1. CASE lock = Free
      <4>1. Goto(p, "locked") /\ UNCHANGED host /\ r.at = "planned"
        BY <2>1, <3>1 DEF Acquire
      <4> QED
        BY <4>1, ShiftMoves DEF Moves, Phases
    <3>2. CASE lock # Free
      BY <1>4, <2>1, <3>2, EndMoves DEF Moves, Acquire
    <3> QED
      BY <3>1, <3>2
  <2>2. CASE Check(p)
    BY <2>2, CheckMoves
  <2>3. CASE Execute(p)
    BY <2>3, ExecuteMoves DEF Moves
  <2>4. CASE ExecuteFails(p)
    BY <2>4, ExecuteFailsMoves DEF Moves
  <2>5. CASE Restore(p)
    BY <2>5, RestoreMoves DEF Moves
  <2>6. CASE Restored(p)
    BY <1>4, <2>6, EndMoves DEF Moves, Restored
  <2>7. CASE Commit(p)
    <3>1. CASE r.kind = "apply"
      BY <1>4, <2>7, <3>1, EndMoves DEF Moves, Commit
    <3>2. CASE r.kind # "apply"
      <4>1. Goto(p, "verifying") /\ UNCHANGED host /\ r.at = "executing" /\ DOMAIN r.plan = {}
        BY <2>7, <3>2 DEF Commit
      <4> QED
        BY <4>1, ShiftMoves DEF Moves, Phases
    <3> QED
      BY <3>1, <3>2
  <2>8. CASE Verify(p)
    BY <1>4, <2>8, EndMoves DEF Moves, Verify
  <2> QED
    BY <1>4, <2>1, <2>2, <2>3, <2>4, <2>5, <2>6, <2>7, <2>8 DEF Work
<1>5. CASE Faulty(p) /\ FaultsGrow
  BY <1>5, EndMoves DEF Faulty, Moves, AcquireFails, RestoreFails, CommitFails, VerifyFails, Kill
<1>6. CASE Reboot
  <2>1. q = Idle("none")
    BY <1>6 DEF Reboot
  <2>2. \A n \in Nodes : domain'[n].def = domain[n].def
    <3> SUFFICES ASSUME NEW n \in Nodes PROVE domain'[n].def = domain[n].def
      OBVIOUS
    <3>1. domain[n] \in Domains
      BY DEF Inv, TypeInv, HostOK
    <3>2. \A live : [domain[n] EXCEPT !.live = live].def = domain[n].def
      BY <3>1 DEF Domains
    <3> QED
      BY <1>6, <3>2 DEF Reboot
  <2> QED
    BY <1>6, <2>1, <2>2 DEF Moves, Rebooted, Reboot, Results
<1>7. CASE EditConfig \/ ClearLock
  BY <1>7 DEF EditConfig, ClearLock, host, Moves, Elsewhere
<1>8. ASSUME NEW n \in Nodes, Meddle(n) PROVE Moves(r, q)
  <2>1. r.at = "idle"
    BY <1>8 DEF Meddle, AllIdle, Alone
  <2> QED
    BY <1>8, <2>1 DEF Meddle, Moves, Elsewhere, StartVm
<1> QED
  BY <1>0, <1>1, <1>2, <1>3, <1>4, <1>5, <1>6, <1>7, <1>8 DEF Next

-----------------------------------------------------------------------------
(***************************************************************************)
(* What the planner decides is what the host calls for                     *)
(***************************************************************************)
LEMMA StepParts ==
    ASSUME NEW c \in HostConfigs, NEW b \in BOOLEAN, NEW s \in Steps(c, b)
    PROVE  /\ s[1] \in FileKinds => s \in Files
           /\ s[1] \in {"xml", "dir", "disk", "seed", "define", "autostart", "start"}
                 => s[2] \in Nodes
           /\ s[1] \in {"unit", "daemon"} => UnitOf(s) \in UnitsOf(c) /\ UnitOf(s) \in Units
           /\ s[1] = "unit" => s = Unit(UnitOf(s))
           /\ s[1] = "daemon" => s = Daemon(UnitOf(s))
           /\ s[1] \in {"unit", "daemon"} => Reload \in Steps(c, b)
           /\ s[1] = "define" => s = Define(s[2])
           /\ s[1] = "xml" => s = Xml(s[2])
<1>1. s[1] \in {"unit", "daemon"} => UnitOf(s) \in UnitsOf(c) /\ UnitOf(s) \in Units
  BY DEF Steps, NodeSteps, UnitSteps, UnitsOf, Units, Reload, UnitOf
<1>2. s[1] \in {"unit", "daemon"} => Reload \in Steps(c, b)
  BY <1>1 DEF Steps
<1>3. s[1] \in {"xml", "dir", "seed"} => s \in NodeFiles
  <2> SUFFICES ASSUME s[1] \in {"xml", "dir", "seed"} PROVE s \in NodeFiles
    OBVIOUS
  <2>1. PICK n \in Nodes : s = <<s[1], n, 0>>
    BY StepType
  <2> QED
    BY <2>1 DEF NodeFiles, Xml, Dir, Seed
<1>4. s[1] = "unit" => s = Unit(UnitOf(s)) /\ s \in UnitFiles
  BY <1>1, StepType DEF Unit, UnitOf, UnitFiles
<1>5. s[1] = "daemon" => s = Daemon(UnitOf(s))
  BY <1>1, StepType DEF Daemon, UnitOf
<1>6. s[1] = "define" => s = Define(s[2])
  BY StepType DEF Define
<1>7. s[1] = "xml" => s = Xml(s[2])
  BY StepType DEF Xml
<1>8. s[1] \in {"xml", "dir", "disk", "seed", "define", "autostart", "start"} => s[2] \in Nodes
  BY StepType
<1> QED
  BY <1>1, <1>2, <1>3, <1>4, <1>5, <1>6, <1>7, <1>8 DEF Files, FileKinds

\* A failing command hides what there is, and shows nothing that is not there.
LEMMA SeenHost ==
    ASSUME NEW missed
    PROVE  LET a == Seen(Files, missed)
           IN  /\ \A f \in Files : a.file[f] = file[f]
               /\ \A n \in Nodes : \/ a.disk[n] = disk[n]
                                   \/ /\ disk[n] # NoDisk
                                      /\ a.disk[n] = [disk[n] EXCEPT !.foreign = TRUE]
               /\ a.tools = site.tools
               /\ a.enabled = {u \in enabled : <<"is-enabled", u[1], u[2]>> \notin missed}
               /\ \A u \in Units : u \in a.active <=> /\ running[u] # Missing
                                                   /\ <<"is-active", u[1], u[2]>> \notin missed
               /\ \A n \in Nodes :
                     LET d == a.domain[n]
                     IN  /\ d.hash = IF <<"dumpxml", n, 0>> \in missed THEN Missing
                                     ELSE Shown(domain[n])
                         /\ d.active <=> /\ domain[n].live # Missing
                                         /\ <<"dumpxml", n, 0>> \notin missed
                                         /\ <<"domstate", n, 0>> \notin missed
                         /\ d.autostart => domain[n].autostart
BY DEF Seen

LEMMA SeenAll ==
    ASSUME HostOK
    PROVE  LET a == Seen(Files, {})
           IN  /\ \A f \in Files : a.file[f] = file[f]
               /\ a.disk = disk /\ a.tools = site.tools /\ a.enabled = enabled
               /\ \A u \in Units : u \in a.active <=> running[u] # Missing
               /\ \A n \in Nodes : /\ a.domain[n].hash = Shown(domain[n])
                                   /\ a.domain[n].active <=> domain[n].live # Missing
                                   /\ a.domain[n].autostart = domain[n].autostart
<1>1. \A n \in Nodes : domain[n].autostart \in BOOLEAN
  BY DEF HostOK, Domains
<1>2. disk = [n \in Nodes |-> disk[n]]
  BY DEF HostOK
<1> QED
  BY <1>1, <1>2 DEF Seen, HostOK

\* q is a run that was approved with the plan that planning gives now.
LEMMA FileStepMet ==
    ASSUME HostOK, NEW q, q.config \in HostConfigs, q.starts \in BOOLEAN,
           NEW P, P = PlanFor(q.config, Files, q.missed, q.allow, q.starts), ~HasRefusals(P),
           q.plan = [s \in ToApply(P) |-> P[s]],
           NEW s \in Steps(q.config, q.starts), s[1] \in FileKinds
    PROVE  /\ ToolsFound(s)
           /\ IF s \in DOMAIN q.plan THEN Pending(q, s) ELSE Done(q, s)
<1> DEFINE c == q.config  a == Seen(Files, q.missed)
<1>1. /\ DOMAIN P = Steps(c, q.starts)
      /\ \A t \in DOMAIN P : P[t] = Decision(c, a, q.allow, t) /\ P[t] # "refuse"
  BY DEF PlanFor, Plan, HasRefusals
<1>2. P[s] = FileDecision(c, a, s)
  BY <1>1 DEF Decision, FileKinds
<1>3. P[s] = IF file[s] # c.want[s] THEN "write" ELSE "skip"
  BY <1>2, SeenHost, StepParts DEF FileDecision, Changes
<1>4. s \in DOMAIN q.plan <=> file[s] # c.want[s]
  BY <1>1, <1>3 DEF ToApply
<1>5. s[1] = "unit" /\ file[s] # c.want[s] => Reload \in DOMAIN q.plan
  <2> SUFFICES ASSUME s[1] = "unit", file[s] # c.want[s] PROVE Reload \in DOMAIN q.plan
    OBVIOUS
  <2>1. UnitOf(s) \in ChangedUnits(c, a)
    BY StepParts, SeenHost DEF ChangedUnits, Changes
  <2>2. Reload \in DOMAIN P /\ Reload[1] = "reload"
    BY <1>1, StepParts DEF Reload
  <2>3. P[Reload] = ReloadDecision(c, a)
    BY <1>1, <2>2 DEF Decision
  <2>4. P[Reload] # "skip" /\ P[Reload] # "refuse"
    BY <1>1, <2>1, <2>2, <2>3 DEF ReloadDecision
  <2> QED
    BY <2>2, <2>4 DEF ToApply
<1>6. ToolsFound(s)
  BY DEF ToolsFound, FileKinds
<1>7. CASE s \in DOMAIN q.plan
  <2>1. q.plan[s] = "write" /\ file[s] # c.want[s]
    BY <1>3, <1>4, <1>7
  <2> QED
    BY <1>5, <1>6, <1>7, <2>1 DEF Pending, FileKinds
<1>8. CASE s \notin DOMAIN q.plan
  BY <1>4, <1>6, <1>8 DEF Done, FileKinds
<1> QED
  BY <1>7, <1>8

LEMMA DiskStepMet ==
    ASSUME HostOK, NEW q, q.config \in HostConfigs, q.starts \in BOOLEAN,
           NEW P, P = PlanFor(q.config, Files, q.missed, q.allow, q.starts), ~HasRefusals(P),
           q.plan = [s \in ToApply(P) |-> P[s]],
           NEW s \in Steps(q.config, q.starts), s[1] = "disk"
    PROVE  /\ ToolsFound(s)
           /\ IF s \in DOMAIN q.plan THEN Pending(q, s) ELSE Done(q, s)
<1> DEFINE c == q.config  a == Seen(Files, q.missed)  n == s[2]
<1>1. s \in DOMAIN P /\ P[s] = Decision(c, a, q.allow, s) /\ P[s] # "refuse"
  BY DEF PlanFor, Plan, HasRefusals
<1>2. P[s] = DiskDecision(c, a, n) /\ a.tools = site.tools
  BY <1>1, SeenHost DEF Decision
<1>3. n \in Nodes /\ c.size[n] \in Nat /\ disk[n] \in Disks \cup {NoDisk}
  BY StepParts DEF HostConfigs, HostOK
<1>4. "qemu-img" \in site.tools
  BY <1>1, <1>2 DEF DiskDecision
<1>0. a.disk[n] = disk[n]
  <2>1. \/ a.disk[n] = disk[n]
        \/ disk[n] # NoDisk /\ a.disk[n] = [disk[n] EXCEPT !.foreign = TRUE]
    <3>1. \A m \in Nodes : \/ a.disk[m] = disk[m]
                           \/ disk[m] # NoDisk /\ a.disk[m] = [disk[m] EXCEPT !.foreign = TRUE]
      BY SeenHost
    <3> HIDE DEF a, n
    <3> QED
      BY <1>3, <3>1
  <2>2. CASE disk[n] # NoDisk /\ a.disk[n] = [disk[n] EXCEPT !.foreign = TRUE]
    <3>1. disk[n] \in Disks
      BY <1>3, <2>2
    <3>2. a.disk[n] \in Disks /\ a.disk[n].foreign
      <4> HIDE DEF a, n
      <4> QED
        BY <2>2, <3>1 DEF Disks
    <3>3. a.disk[n] # NoDisk
      BY <3>2, NoDiskAssumption
    <3>4. P[s] = "refuse"
      BY <1>2, <1>4, <3>2, <3>3 DEF DiskDecision, ExistingDiskDecision
    <3> QED
      BY <1>1, <3>4
  <2> QED
    BY <2>1, <2>2
<1>5. CASE disk[n] = NoDisk
  <2>1. P[s] = "create"
    BY <1>1, <1>2, <1>4, <1>0, <1>5 DEF DiskDecision, MissingDiskDecision
  <2>2. s \in DOMAIN q.plan /\ q.plan[s] = "create"
    BY <1>1, <2>1 DEF ToApply
  <2> QED
    BY <1>4, <1>5, <2>2 DEF Pending, ToolsFound, FileKinds
<1>6. CASE disk[n] # NoDisk
  <2>1. disk[n] \in Disks
    BY <1>3, <1>6
  <2>2. disk[n].size \in Nat
    BY <2>1 DEF Disks
  <2>3. P[s] = ExistingDiskDecision(c, a, n)
    BY <1>2, <1>4, <1>0, <1>6 DEF DiskDecision
  <2>4. ~disk[n].foreign /\ disk[n].size <= c.size[n]
    BY <1>1, <1>3, <1>0, <2>2, <2>3 DEF ExistingDiskDecision
  <2>5. P[s] = IF disk[n].size < c.size[n] THEN "resize" ELSE "skip"
    BY <1>3, <1>0, <2>2, <2>3, <2>4 DEF ExistingDiskDecision
  <2>6. CASE disk[n].size < c.size[n]
    <3>1. s \in DOMAIN q.plan /\ q.plan[s] = "resize"
      BY <1>1, <2>5, <2>6 DEF ToApply
    <3> QED
      BY <1>4, <1>6, <2>4, <2>6, <3>1 DEF Pending, ToolsFound, FileKinds
  <2>7. CASE disk[n].size = c.size[n]
    <3>1. s \notin DOMAIN q.plan
      BY <1>3, <2>5, <2>7 DEF ToApply
    <3> QED
      BY <1>4, <1>6, <2>4, <2>7, <3>1 DEF Done, ToolsFound, FileKinds
  <2> QED
    BY <1>3, <2>2, <2>4, <2>6, <2>7
<1> QED
  BY <1>5, <1>6

LEMMA UnitStepMet ==
    ASSUME HostOK, EnabledRun, NEW q, q.config \in HostConfigs, q.starts \in BOOLEAN,
           NEW P, P = PlanFor(q.config, Files, q.missed, q.allow, q.starts), ~HasRefusals(P),
           q.plan = [s \in ToApply(P) |-> P[s]],
           NEW s \in Steps(q.config, q.starts), s[1] \in {"reload", "daemon"}
    PROVE  /\ ToolsFound(s)
           /\ IF s \in DOMAIN q.plan THEN Pending(q, s) ELSE Done(q, s)
<1> DEFINE c == q.config  a == Seen(Files, q.missed)  u == UnitOf(s)
<1>1. /\ DOMAIN P = Steps(c, q.starts)
      /\ \A t \in DOMAIN P : P[t] = Decision(c, a, q.allow, t) /\ P[t] # "refuse"
  BY DEF PlanFor, Plan, HasRefusals
<1>2. CASE s[1] = "reload"
  <2>1. P[s] = ReloadDecision(c, a)
    BY <1>1, <1>2 DEF Decision
  <2>2. "systemctl" \in site.tools /\ P[s] \in {"skip", "reload"}
    BY <1>1, <2>1, SeenHost DEF ReloadDecision
  <2>3. s \in DOMAIN q.plan => q.plan[s] = "reload"
    BY <1>1, <2>2 DEF ToApply
  <2> QED
    BY <1>2, <2>2, <2>3 DEF Pending, Done, ToolsFound, FileKinds
<1>3. CASE s[1] = "daemon"
  <2>1. P[s] = DaemonDecision(c, a, u)
    BY <1>1, <1>3 DEF Decision, UnitOf
  <2>2. "systemctl" \in site.tools
    BY <1>1, <2>1, SeenHost DEF DaemonDecision
  <2>3. u \in UnitsOf(c) /\ u \in Units /\ Reload \in Steps(c, q.starts)
    BY <1>3, StepParts
  <2>4. /\ u \in a.enabled \cap a.active => u \in enabled /\ running[u] # Missing
        /\ u \notin a.enabled \cap a.active => running[u] = Missing \/ Unheard(q, u)
    BY <2>3, SeenHost DEF EnabledRun, Unheard
  <2>5. CASE u \notin a.enabled \cap a.active
    <3>1. P[s] = "enable"
      BY <2>1, <2>2, <2>5, SeenHost DEF DaemonDecision
    <3>2. s \in DOMAIN q.plan /\ q.plan[s] = "enable"
      BY <1>1, <3>1 DEF ToApply
    <3> QED
      BY <1>3, <2>2, <2>4, <2>5, <3>2 DEF Pending, ToolsFound, FileKinds
  <2>6. CASE u \in a.enabled \cap a.active
    <3>1. u \in enabled /\ running[u] # Missing
      BY <2>4, <2>6
    <3>2. P[s] = IF u \in ChangedUnits(c, a) THEN "restart" ELSE "skip"
      BY <2>1, <2>2, <2>6, SeenHost DEF DaemonDecision
    <3>3. CASE u \in ChangedUnits(c, a)
      <4>1. Reload \in DOMAIN P /\ Reload[1] = "reload"
        BY <1>1, <2>3 DEF Reload
      <4>2. P[Reload] = ReloadDecision(c, a)
        BY <1>1, <4>1 DEF Decision
      <4>3. Reload \in DOMAIN q.plan
        BY <1>1, <3>3, <4>1, <4>2 DEF ReloadDecision, ToApply
      <4>4. s \in DOMAIN q.plan /\ q.plan[s] = "restart"
        BY <1>1, <3>2, <3>3 DEF ToApply
      <4> QED
        BY <1>3, <2>2, <2>6, <3>1, <4>3, <4>4 DEF Pending, ToolsFound, FileKinds
    <3>4. CASE u \notin ChangedUnits(c, a)
      <4>1. s \notin DOMAIN q.plan
        BY <3>2, <3>4 DEF ToApply
      <4> QED
        BY <1>3, <2>2, <2>6, <3>1, <4>1 DEF Done, ToolsFound, FileKinds
    <3> QED
      BY <3>3, <3>4
  <2> QED
    BY <2>5, <2>6
<1> QED
  BY <1>2, <1>3

LEMMA DomainStepMet ==
    ASSUME HostOK, NEW q, q.config \in HostConfigs, q.starts \in BOOLEAN,
           NEW P, P = PlanFor(q.config, Files, q.missed, q.allow, q.starts), ~HasRefusals(P),
           q.plan = [s \in ToApply(P) |-> P[s]],
           q.before = [file |-> file, domain |-> domain],
           NEW s \in Steps(q.config, q.starts), s[1] \in {"define", "autostart", "start"}
    PROVE  /\ ToolsFound(s)
           /\ IF s \in DOMAIN q.plan THEN Pending(q, s) ELSE Done(q, s)
<1> DEFINE c == q.config  a == Seen(Files, q.missed)  n == s[2]
<1>1. s \in DOMAIN P /\ P[s] = Decision(c, a, q.allow, s) /\ P[s] # "refuse"
  BY DEF PlanFor, Plan, HasRefusals
<1>2. /\ n \in Nodes /\ a.tools = site.tools
      /\ a.domain[n].hash = IF Read(q, n) THEN Shown(domain[n]) ELSE Missing
      /\ a.domain[n].active <=> domain[n].live # Missing /\ ~Unnoticed(q, n)
      /\ a.domain[n].autostart => domain[n].autostart
  BY SeenHost, StepParts DEF Read, Unnoticed
<1>3. domain[n] \in Domains
  BY <1>2 DEF HostOK
<1>4. /\ domain[n].def = Missing => domain[n].live = Missing
      /\ c.want[Xml(n)] # Missing
  BY <1>2, <1>3 DEF Domains, HostConfigs, NodeFiles
<1>5. CASE s[1] = "define"
  <2>1. P[s] = DefineDecision(c, a, q.allow, n)
    BY <1>1, <1>5 DEF Decision
  <2>2. "virsh" \in site.tools
    BY <1>1, <1>2, <2>1 DEF DefineDecision
  <2>3. CASE a.domain[n].hash = Missing
    <3>1. P[s] = "define"
      BY <1>2, <1>4, <2>1, <2>2, <2>3, ContentsAssumption DEF DefineDecision
    <3>2. s \in DOMAIN q.plan /\ q.plan[s] = "define"
      BY <1>1, <3>1 DEF ToApply
    <3>3. Read(q, n) => domain[n].def = Missing
      BY <1>2, <2>3 DEF Shown
    <3> QED
      BY <1>5, <2>2, <3>2, <3>3 DEF Pending, ToolsFound, FileKinds
  <2>4. CASE a.domain[n].hash # Missing
    <3>1. domain[n].def # Missing /\ Read(q, n)
      BY <1>2, <1>4, <2>4 DEF Shown
    <3>2. /\ P[s] \in {"skip", "redefine"}
          /\ P[s] = "skip" => Shown(domain[n]) = c.want[Xml(n)]
          /\ P[s] = "redefine" /\ domain[n].live # Missing
                => "redefine" \in q.allow \/ Unnoticed(q, n)
      BY <1>1, <1>2, <2>1, <2>2, <2>4, <3>1 DEF DefineDecision
    <3>3. CASE P[s] = "redefine"
      <4>1. s \in DOMAIN q.plan /\ q.plan[s] = "redefine"
        BY <1>1, <3>3 DEF ToApply
      <4> QED
        BY <1>5, <2>2, <3>1, <3>2, <3>3, <4>1 DEF Pending, ToolsFound, FileKinds
    <3>4. CASE P[s] = "skip"
      <4>1. s \notin DOMAIN q.plan
        BY <3>4 DEF ToApply
      <4>2. \/ domain[n].def = c.want[Xml(n)]
            \/ AwaitedRestart(q, n) /\ domain[n].live = c.want[Xml(n)]
        BY <3>2, <3>4 DEF Shown, AwaitedRestart
      <4> QED
        BY <1>5, <2>2, <3>1, <4>1, <4>2 DEF Done, ToolsFound, FileKinds
    <3> QED
      BY <3>2, <3>3, <3>4
  <2> QED
    BY <2>3, <2>4
<1>6. CASE s[1] \in {"autostart", "start"}
  <2> DEFINE done == IF s[1] = "autostart" THEN a.domain[n].autostart ELSE a.domain[n].active
  <2>0. /\ s[1] = "autostart" /\ done => domain[n].autostart
        /\ s[1] = "start" /\ done => domain[n].live # Missing
        /\ s[1] = "start" /\ ~done => domain[n].live = Missing \/ Unnoticed(q, n)
    BY <1>2
  <2>1. P[s] = FlagDecision(a, done, s[1])
    BY <1>1, <1>2, <1>6 DEF Decision, FlagDecision
  <2>2. "virsh" \in site.tools /\ P[s] = IF done THEN "skip" ELSE s[1]
    BY <1>1, <1>2, <2>1 DEF FlagDecision
  <2>3. CASE done
    <3>1. s \notin DOMAIN q.plan
      BY <2>2, <2>3 DEF ToApply
    <3> QED
      BY <1>6, <2>0, <2>2, <2>3, <3>1 DEF Done, ToolsFound, FileKinds
  <2>4. CASE ~done
    <3>1. s \in DOMAIN q.plan /\ q.plan[s] = s[1]
      BY <1>1, <1>6, <2>2, <2>4 DEF ToApply
    <3> QED
      BY <1>6, <2>0, <2>2, <2>4, <3>1 DEF Pending, ToolsFound, FileKinds
  <2> QED
    BY <2>3, <2>4
<1> QED
  BY <1>5, <1>6

-----------------------------------------------------------------------------
(***************************************************************************)
(* An executed operation takes its step from pending to done, and leaves   *)
(* every other one pending or done.                                        *)
(***************************************************************************)
Met(r, s) == /\ ToolsFound(s)
             /\ IF s \in DOMAIN r.plan THEN Pending(r, s) ELSE Done(r, s)

Executing(r, q, s) ==
    /\ HostOK /\ ActiveOK(r) /\ HalfWay(r) /\ UNCHANGED site
    /\ s \in DOMAIN r.plan /\ Advanced(r, q, s)

LEMMA ExecutingFacts ==
    ASSUME NEW r, NEW q, NEW s, Executing(r, q, s)
    PROVE  /\ r.config \in HostConfigs /\ r.starts \in BOOLEAN
           /\ r.config.want \in [Files -> Contents]
           /\ \A n \in Nodes : r.config.want[Xml(n)] # Missing
           /\ DOMAIN r.plan \subseteq Steps(r.config, r.starts)
           /\ s \in Steps(r.config, r.starts) /\ Fits(s, r.plan[s])
           /\ DOMAIN q.plan = DOMAIN r.plan \ {s}
           /\ \A t \in DOMAIN q.plan : q.plan[t] = r.plan[t]
           /\ SameRun(q, r)
           /\ \A t \in Steps(r.config, r.starts) : Met(r, t)
           /\ Pending(r, s)
<1>1. r.config \in HostConfigs /\ r.starts \in BOOLEAN
  BY ConfigsAssumption DEF Executing, ActiveOK
<1>2. r.config.want \in [Files -> Contents] /\ \A n \in Nodes : r.config.want[Xml(n)] # Missing
  BY <1>1 DEF HostConfigs, NodeFiles
<1>3. /\ DOMAIN r.plan \subseteq Steps(r.config, r.starts)
      /\ s \in Steps(r.config, r.starts) /\ Fits(s, r.plan[s])
  BY DEF Executing, ActiveOK, PlanOK
<1>4. /\ DOMAIN q.plan = DOMAIN r.plan \ {s}
      /\ \A t \in DOMAIN q.plan : q.plan[t] = r.plan[t]
      /\ SameRun(q, r)
  BY DEF Executing, Advanced
<1>5. \A t \in Steps(r.config, r.starts) : Met(r, t)
  BY DEF Executing, HalfWay, Met
<1>6. Pending(r, s)
  BY <1>3, <1>5 DEF Executing, Met
<1> QED
  BY <1>1, <1>2, <1>3, <1>4, <1>5, <1>6

\* The effect of an operation, by the kind of its step.
LEMMA EffectByKind ==
    ASSUME NEW r, NEW q, NEW s, Executing(r, q, s)
    PROVE  LET c == r.config  op == r.plan[s]  n == s[2]  u == UnitOf(s)
           IN  /\ s[1] \in FileKinds => OnFiles(c, "write", s)
               /\ s[1] = "disk" => OnDisk(c, op, n)
               /\ s[1] \in {"reload", "daemon"} => OnUnits(op, u)
               /\ s[1] \in {"define", "autostart", "start"} => OnDomain(op, n)
<1> DEFINE c == r.config  op == r.plan[s]  n == s[2]  u == UnitOf(s)
<1>1. OnFiles(c, op, s) \/ OnDisk(c, op, n) \/ OnUnits(op, u) \/ OnDomain(op, n)
  BY DEF Executing, Advanced, Effect, UnitOf
<1>2. /\ s[1] \in FileKinds => op = "write"
      /\ s[1] = "disk" => op \in {"create", "resize"}
      /\ s[1] = "reload" => op = "reload"
      /\ s[1] = "daemon" => op \in {"enable", "restart"}
      /\ s[1] = "define" => op \in {"define", "redefine"}
      /\ s[1] \in {"autostart", "start"} => op = s[1]
  BY ExecutingFacts DEF Pending
<1>3. /\ OnFiles(c, op, s) => op = "write"
      /\ OnDisk(c, op, n) => op \in {"create", "resize"}
      /\ OnUnits(op, u) => op \in {"reload", "enable", "restart"}
      /\ OnDomain(op, n) => op \in {"define", "redefine", "autostart", "start"}
  BY DEF OnFiles, OnDisk, OnUnits, OnDomain
<1> QED
  BY <1>1, <1>2, <1>3 DEF FileKinds

LEMMA FileMet ==
    ASSUME NEW r, NEW q, NEW s, Executing(r, q, s), s[1] \in FileKinds,
           NEW t \in Steps(r.config, r.starts)
    PROVE  Met(q, t)'
<1>1. file' = [file EXCEPT ![s] = r.config.want[s]]
      /\ UNCHANGED <<disk, loaded, enabled, running, domain>>
  BY EffectByKind DEF OnFiles
<1>2. s \in Files /\ file \in [Files -> Contents] /\ (t[1] \in FileKinds => t \in Files)
  BY ExecutingFacts, StepParts DEF Executing, HostOK
<1>3. s # Reload
  BY DEF FileKinds, Reload
<1>4. Met(r, t) /\ SameRun(q, r) /\ UNCHANGED site
  BY ExecutingFacts DEF Executing
<1>5. CASE t = s
  <2>1. t \notin DOMAIN q.plan
    BY <1>5, ExecutingFacts
  <2>2. Done(q, t)'
    BY <1>1, <1>2, <1>4, <1>5 DEF Done, FileKinds, SameRun
  <2> QED
    BY <1>4, <2>1, <2>2 DEF Met, ToolsFound
<1>6. CASE t # s
  <2>1. /\ t \in DOMAIN q.plan <=> t \in DOMAIN r.plan
        /\ t \in DOMAIN r.plan => q.plan[t] = r.plan[t]
        /\ Reload \in DOMAIN q.plan <=> Reload \in DOMAIN r.plan
    BY <1>3, <1>6, ExecutingFacts
  <2>2. t[1] \in FileKinds => file'[t] = file[t]
    BY <1>1, <1>2, <1>6
  <2>3. t \in DOMAIN r.plan => Pending(q, t)'
    BY <1>1, <1>4, <2>1, <2>2 DEF Met, Pending, SameRun, Read, Unnoticed, Unheard
  <2>4. t \notin DOMAIN r.plan => Done(q, t)'
    BY <1>1, <1>4, <2>1, <2>2 DEF Met, Done, SameRun, AwaitedRestart
  <2> QED
    BY <1>4, <2>1, <2>3, <2>4 DEF Met, ToolsFound
<1> QED
  BY <1>5, <1>6

LEMMA DiskMet ==
    ASSUME NEW r, NEW q, NEW s, Executing(r, q, s), s[1] = "disk",
           NEW t \in Steps(r.config, r.starts)
    PROVE  Met(q, t)'
<1> DEFINE c == r.config  n == s[2]
<1>1. /\ UNCHANGED <<file, loaded, enabled, running, domain>>
      /\ \/ /\ r.plan[s] = "create"
            /\ disk' = [disk EXCEPT ![n] = [size |-> c.size[n], foreign |-> FALSE, used |-> FALSE]]
         \/ /\ r.plan[s] = "resize"
            /\ disk' = [disk EXCEPT ![n].size = c.size[n]]
  BY EffectByKind DEF OnDisk
<1>2. n \in Nodes /\ disk \in [Nodes -> Disks \cup {NoDisk}] /\ s # Reload
  BY ExecutingFacts, StepParts DEF Executing, HostOK, Reload
<1>3. Met(r, t) /\ SameRun(q, r) /\ UNCHANGED site
  BY ExecutingFacts DEF Executing
<1>4. CASE t = s
  <2>1. t \notin DOMAIN q.plan
    BY <1>4, ExecutingFacts
  <2>2. Ready(c, r.plan[s], n, UnitOf(s)) /\ Pending(r, s) /\ c.size[n] \in Nat
    BY <1>2, ExecutingFacts DEF Executing, Advanced, ReadyFor, HostConfigs
  <2>3. disk'[n] # NoDisk /\ ~disk'[n].foreign /\ disk'[n].size = c.size[n]
    <3>1. CASE r.plan[s] = "create"
      <4> DEFINE x == [size |-> c.size[n], foreign |-> FALSE, used |-> FALSE]
      <4>1. disk'[n] = x
        BY <1>1, <1>2, <3>1
      <4>2. x \in Disks /\ ~x.foreign /\ x.size = c.size[n]
        BY <2>2 DEF Disks
      <4> HIDE DEF x
      <4> QED
        BY <4>1, <4>2, NoDiskAssumption
    <3>2. CASE r.plan[s] = "resize"
      <4>1. disk[n] \in Disks /\ ~disk[n].foreign
        BY <1>2, <2>2, <3>2 DEF Pending, FileKinds
      <4>2. disk'[n] = [disk[n] EXCEPT !.size = c.size[n]]
        BY <1>1, <1>2, <3>2
      <4>3. disk'[n] \in Disks
        BY <2>2, <4>1, <4>2 DEF Disks
      <4> QED
        BY <4>1, <4>2, <4>3, NoDiskAssumption DEF Disks
    <3> QED
      BY <1>1, <3>1, <3>2
  <2>4. Done(q, t)'
    BY <1>3, <1>4, <2>3 DEF Done, FileKinds, SameRun
  <2> QED
    BY <1>3, <2>1, <2>4 DEF Met, ToolsFound
<1>5. CASE t # s
  <2>1. /\ t \in DOMAIN q.plan <=> t \in DOMAIN r.plan
        /\ t \in DOMAIN r.plan => q.plan[t] = r.plan[t]
        /\ Reload \in DOMAIN q.plan <=> Reload \in DOMAIN r.plan
    BY <1>2, <1>5, ExecutingFacts
  <2>2. t[1] = "disk" => disk'[t[2]] = disk[t[2]]
    <3> SUFFICES ASSUME t[1] = "disk" PROVE disk'[t[2]] = disk[t[2]]
      OBVIOUS
    <3>1. t = <<"disk", t[2], 0>> /\ s = <<"disk", s[2], 0>> /\ t[2] \in Nodes
      BY ExecutingFacts, StepType
    <3>2. t[2] # n
      BY <1>5, <3>1
    <3> QED
      BY <1>1, <1>2, <3>1, <3>2
  <2>3. t \in DOMAIN r.plan => Pending(q, t)'
    BY <1>1, <1>3, <2>1, <2>2 DEF Met, Pending, SameRun, Read, Unnoticed, Unheard
  <2>4. t \notin DOMAIN r.plan => Done(q, t)'
    BY <1>1, <1>3, <2>1, <2>2 DEF Met, Done, SameRun, AwaitedRestart
  <2> QED
    BY <1>3, <2>1, <2>3, <2>4 DEF Met, ToolsFound
<1> QED
  BY <1>4, <1>5

\* The unit files are all there when systemd is told of them.
LEMMA UnitsWritten ==
    ASSUME NEW r, NEW q, NEW s, Executing(r, q, s), s[1] \in {"reload", "daemon"},
           NEW u \in UnitsOf(r.config)
    PROVE  file[Unit(u)] = r.config.want[Unit(u)]
<1>1. Unit(u) \in Steps(r.config, r.starts) /\ Unit(u)[1] = "unit"
  BY DEF Steps, UnitSteps, Unit
<1>2. Unit(u) \notin DOMAIN r.plan
  <2>1. IsNext(r, s) /\ s \in DOMAIN r.plan
    BY DEF Executing, Advanced
  <2>2. \A t \in DOMAIN r.plan : t[1] # "unit"
    BY <2>1, ExecutingFacts, NextInOrder
  <2> QED
    BY <1>1, <2>2
<1>3. Done(r, Unit(u))
  BY <1>1, <1>2, ExecutingFacts DEF Met
<1> QED
  BY <1>1, <1>3 DEF Done, FileKinds

LEMMA ReloadMet ==
    ASSUME NEW r, NEW q, NEW s, Executing(r, q, s), s[1] = "reload",
           NEW t \in Steps(r.config, r.starts)
    PROVE  Met(q, t)'
<1>1. loaded' = ReadUnits /\ UNCHANGED <<file, disk, enabled, running, domain>>
  <2>1. r.plan[s] = "reload"
    BY ExecutingFacts DEF Pending
  <2> QED
    BY <2>1, EffectByKind DEF OnUnits
<1>2. Met(r, t) /\ SameRun(q, r) /\ UNCHANGED site
  BY ExecutingFacts DEF Executing
<1>3. \A u \in UnitsOf(r.config) : loaded'[u] = r.config.want[Unit(u)]
  BY <1>1, UnitsWritten DEF ReadUnits, UnitsOf
<1>4. CASE t = s
  <2>1. t \notin DOMAIN q.plan
    BY <1>4, ExecutingFacts
  <2>2. Done(q, t)'
    BY <1>4 DEF Done, FileKinds
  <2> QED
    BY <1>2, <2>1, <2>2 DEF Met, ToolsFound
<1>5. CASE t # s
  <2>1. /\ t \in DOMAIN q.plan <=> t \in DOMAIN r.plan
        /\ t \in DOMAIN r.plan => q.plan[t] = r.plan[t]
    BY <1>5, ExecutingFacts
  <2>2. t \in DOMAIN r.plan => t[1] # "unit"
    BY ExecutingFacts, NextInOrder DEF Executing, Advanced
  <2>3. t[1] = "daemon" => UnitOf(t) \in UnitsOf(r.config)
    BY ExecutingFacts, StepParts
  <2>4. t \in DOMAIN r.plan => Pending(q, t)'
    BY <1>1, <1>2, <1>3, <2>1, <2>2, <2>3 DEF Met, Pending, SameRun, Read, Unnoticed, Unheard
  <2>5. t \notin DOMAIN r.plan => Done(q, t)'
    BY <1>1, <1>2, <2>1 DEF Met, Done, SameRun, AwaitedRestart
  <2> QED
    BY <1>2, <2>1, <2>4, <2>5 DEF Met, ToolsFound
<1> QED
  BY <1>4, <1>5

\* Starting or restarting a daemon: it serves the unit file of the run, unless
\* it runs already and the inspection did not say so.
LEMMA DaemonServes ==
    ASSUME NEW r, NEW q, NEW s, Executing(r, q, s), s[1] = "daemon"
    PROVE  LET u == UnitOf(s)  w == r.config.want[Unit(u)]
           IN  /\ UNCHANGED <<file, disk, domain>>
               /\ u \in UnitsOf(r.config) /\ u \in Units
               /\ running'[u] = w \/ (Unheard(r, u) /\ running'[u] = running[u])
               /\ running'[u] # Missing /\ u \in enabled'
               /\ enabled \subseteq enabled'
               /\ \A v \in Units \ {u} : running'[v] = running[v]
               /\ \A v \in UnitsOf(r.config) :
                     loaded[v] = r.config.want[Unit(v)] => loaded'[v] = r.config.want[Unit(v)]
               /\ loaded' = loaded \/ loaded' = ReadUnits
<1> DEFINE u == UnitOf(s)  w == r.config.want[Unit(u)]
<1>1. u \in UnitsOf(r.config) /\ u \in Units /\ w # Missing
  BY ExecutingFacts, StepParts DEF UnitsOf
<1>2. file[Unit(u)] = w
  BY <1>1, UnitsWritten
<1>3. Reload \notin DOMAIN r.plan
  BY ExecutingFacts, NextInOrder DEF Executing, Advanced, Reload
<1>4. OnUnits(r.plan[s], u) /\ running \in [Units -> Contents]
  BY EffectByKind DEF Executing, HostOK
<1>5. CASE r.plan[s] = "enable" /\ (running[u] = Missing \/ Unheard(r, u))
  <2>1. /\ loaded' = ReadUnits /\ enabled' = enabled \cup {u}
        /\ running' = IF running[u] = Missing
                      THEN [running EXCEPT ![u] = file[Unit(u)]] ELSE running
        /\ UNCHANGED <<file, disk, domain>>
    BY <1>4, <1>5 DEF OnUnits
  <2>2. \A v \in UnitsOf(r.config) : loaded'[v] = r.config.want[Unit(v)]
    BY <2>1, UnitsWritten DEF ReadUnits, UnitsOf
  <2> QED
    BY <1>1, <1>2, <1>4, <1>5, <2>1, <2>2
<1>6. CASE r.plan[s] = "restart" /\ u \in enabled /\ loaded[u] = w
  <2>1. /\ running' = [running EXCEPT ![u] = loaded[u]]
        /\ UNCHANGED <<file, disk, domain, loaded, enabled>>
    BY <1>4, <1>6 DEF OnUnits
  <2> QED
    BY <1>1, <1>4, <1>6, <2>1
<1>7. \/ r.plan[s] = "enable" /\ (running[u] = Missing \/ Unheard(r, u))
      \/ r.plan[s] = "restart" /\ u \in enabled /\ loaded[u] = w
  BY <1>3, ExecutingFacts DEF Pending
<1> QED
  BY <1>5, <1>6, <1>7

LEMMA DaemonMet ==
    ASSUME NEW r, NEW q, NEW s, Executing(r, q, s), s[1] = "daemon",
           NEW t \in Steps(r.config, r.starts)
    PROVE  Met(q, t)'
<1> DEFINE u == UnitOf(s)
<1>1. Met(r, t) /\ SameRun(q, r) /\ UNCHANGED site /\ UNCHANGED <<file, disk, domain>>
  BY ExecutingFacts, DaemonServes DEF Executing
<1>2. CASE t = s
  <2>1. t \notin DOMAIN q.plan
    BY <1>2, ExecutingFacts
  <2>2. Done(q, t)'
    BY <1>2, DaemonServes DEF Done, FileKinds
  <2> QED
    BY <1>1, <2>1, <2>2 DEF Met, ToolsFound
<1>3. CASE t # s
  <2>1. /\ t \in DOMAIN q.plan <=> t \in DOMAIN r.plan
        /\ t \in DOMAIN r.plan => q.plan[t] = r.plan[t]
    BY <1>3, ExecutingFacts
  <2>2. t \in DOMAIN r.plan => t[1] \notin {"unit", "reload"}
    BY ExecutingFacts, NextInOrder DEF Executing, Advanced
  <2>3. Reload \notin DOMAIN r.plan
    BY ExecutingFacts, NextInOrder DEF Executing, Advanced, Reload
  <2>4. t[1] = "daemon" =>
          /\ UnitOf(t) \in UnitsOf(r.config) /\ UnitOf(t) \in Units
          /\ UnitOf(t) # u
          /\ running'[UnitOf(t)] = running[UnitOf(t)]
          /\ UnitOf(t) \in enabled => UnitOf(t) \in enabled'
          /\ loaded[UnitOf(t)] = r.config.want[Unit(UnitOf(t))]
                => loaded'[UnitOf(t)] = r.config.want[Unit(UnitOf(t))]
    <3> SUFFICES ASSUME t[1] = "daemon"
                 PROVE  /\ UnitOf(t) \in UnitsOf(r.config) /\ UnitOf(t) \in Units
                        /\ UnitOf(t) # u
      BY DaemonServes
    <3>1. t = Daemon(UnitOf(t)) /\ s = Daemon(u)
      BY ExecutingFacts, StepParts
    <3> QED
      BY <1>3, <3>1, ExecutingFacts, StepParts
  <2>5. t \in DOMAIN r.plan => Pending(q, t)'
    BY <1>1, <2>1, <2>2, <2>3, <2>4 DEF Met, Pending, SameRun, Read, Unnoticed, Unheard
  <2>6. t \notin DOMAIN r.plan => Done(q, t)'
    BY <1>1, <2>1, <2>4 DEF Met, Done, SameRun, AwaitedRestart
  <2> QED
    BY <1>1, <2>1, <2>5, <2>6 DEF Met, ToolsFound
<1> QED
  BY <1>2, <1>3

\* A VM changes in one field; the other fields, and the other VMs, stay.
LEMMA DomainFields ==
    ASSUME HostOK, NEW n \in Nodes, NEW x
    PROVE  /\ [domain EXCEPT ![n].def = x][n].def = x
           /\ [domain EXCEPT ![n].def = x][n].live = domain[n].live
           /\ [domain EXCEPT ![n].def = x][n].autostart = domain[n].autostart
           /\ [domain EXCEPT ![n].live = x][n].def = domain[n].def
           /\ [domain EXCEPT ![n].live = x][n].live = x
           /\ [domain EXCEPT ![n].live = x][n].autostart = domain[n].autostart
           /\ [domain EXCEPT ![n].autostart = x][n].def = domain[n].def
           /\ [domain EXCEPT ![n].autostart = x][n].live = domain[n].live
           /\ [domain EXCEPT ![n].autostart = x][n].autostart = x
           /\ \A m \in Nodes \ {n} : /\ [domain EXCEPT ![n].def = x][m] = domain[m]
                                     /\ [domain EXCEPT ![n].live = x][m] = domain[m]
                                     /\ [domain EXCEPT ![n].autostart = x][m] = domain[m]
<1>1. domain \in [Nodes -> Domains] /\ domain[n] \in Domains
  BY DEF HostOK
<1>2. domain[n] \in [def: Definitions, live: Definitions, autostart: BOOLEAN]
  BY <1>1 DEF Domains
<1> QED
  BY <1>1, <1>2

LEMMA DefineMet ==
    ASSUME NEW r, NEW q, NEW s, Executing(r, q, s), s[1] = "define",
           NEW t \in Steps(r.config, r.starts)
    PROVE  Met(q, t)'
<1> DEFINE n == s[2]  w == r.config.want[Xml(n)]
<1>1. n \in Nodes /\ w # Missing /\ HostOK
  BY ExecutingFacts, StepParts DEF Executing
<1>2. file[Xml(n)] = w
  <2>1. Xml(n) \in Steps(r.config, r.starts) /\ Xml(n)[1] = "xml"
    BY <1>1 DEF Steps, NodeSteps, Xml
  <2>2. \A x \in DOMAIN r.plan : x[1] # "xml"
    BY ExecutingFacts, NextInOrder DEF Executing, Advanced, EarlyKinds
  <2>3. Done(r, Xml(n))
    BY <2>1, <2>2, ExecutingFacts DEF Met
  <2> QED
    BY <2>1, <2>3 DEF Done, FileKinds
<1>3. domain' = [domain EXCEPT ![n].def = w] /\ UNCHANGED <<file, disk, loaded, enabled, running>>
  <2>1. r.plan[s] \in {"define", "redefine"}
    BY ExecutingFacts DEF Pending
  <2> QED
    BY <1>2, <2>1, EffectByKind DEF OnDomain
<1>4. /\ domain'[n].def = w /\ domain'[n].live = domain[n].live
      /\ domain'[n].autostart = domain[n].autostart
      /\ \A m \in Nodes \ {n} : domain'[m] = domain[m]
  BY <1>1, <1>3, DomainFields
<1>5. Met(r, t) /\ SameRun(q, r) /\ UNCHANGED site
      /\ (t[1] \in {"define", "autostart", "start"} => t[2] \in Nodes)
  BY ExecutingFacts, StepParts DEF Executing
<1>6. CASE t = s
  <2>1. t \notin DOMAIN q.plan
    BY <1>6, ExecutingFacts
  <2>2. Done(q, t)'
    BY <1>1, <1>4, <1>5, <1>6 DEF Done, FileKinds, SameRun
  <2> QED
    BY <1>5, <2>1, <2>2 DEF Met, ToolsFound
<1>7. CASE t # s
  <2>1. /\ t \in DOMAIN q.plan <=> t \in DOMAIN r.plan
        /\ t \in DOMAIN r.plan => q.plan[t] = r.plan[t]
        /\ Reload \in DOMAIN q.plan <=> Reload \in DOMAIN r.plan
    BY <1>7, ExecutingFacts DEF Reload
  <2>2. t[1] = "define" => t[2] # n
    BY <1>7, ExecutingFacts, StepParts
  <2>3. t \in DOMAIN r.plan => Pending(q, t)'
    BY <1>3, <1>4, <1>5, <2>1, <2>2 DEF Met, Pending, SameRun, Read, Unnoticed, Unheard
  <2>4. t \notin DOMAIN r.plan => Done(q, t)'
    BY <1>3, <1>4, <1>5, <2>1, <2>2 DEF Met, Done, SameRun, AwaitedRestart
  <2> QED
    BY <1>5, <2>1, <2>3, <2>4 DEF Met, ToolsFound
<1> QED
  BY <1>6, <1>7

LEMMA AutostartMet ==
    ASSUME NEW r, NEW q, NEW s, Executing(r, q, s), s[1] = "autostart",
           NEW t \in Steps(r.config, r.starts)
    PROVE  Met(q, t)'
<1> DEFINE n == s[2]
<1>1. n \in Nodes /\ HostOK
  BY ExecutingFacts, StepParts DEF Executing
<1>2. domain' = [domain EXCEPT ![n].autostart = TRUE]
      /\ UNCHANGED <<file, disk, loaded, enabled, running>>
  <2>1. r.plan[s] = "autostart"
    BY ExecutingFacts DEF Pending
  <2> QED
    BY <2>1, EffectByKind DEF OnDomain
<1>3. /\ domain'[n].def = domain[n].def /\ domain'[n].live = domain[n].live
      /\ domain'[n].autostart = TRUE
      /\ \A m \in Nodes \ {n} : domain'[m] = domain[m]
  BY <1>1, <1>2, DomainFields
<1>4. Met(r, t) /\ SameRun(q, r) /\ UNCHANGED site
      /\ (t[1] \in {"define", "autostart", "start"} => t[2] \in Nodes)
  BY ExecutingFacts, StepParts DEF Executing
<1>5. CASE t = s
  <2>1. t \notin DOMAIN q.plan
    BY <1>5, ExecutingFacts
  <2>2. Done(q, t)'
    BY <1>3, <1>5 DEF Done, FileKinds
  <2> QED
    BY <1>4, <2>1, <2>2 DEF Met, ToolsFound
<1>6. CASE t # s
  <2>1. /\ t \in DOMAIN q.plan <=> t \in DOMAIN r.plan
        /\ t \in DOMAIN r.plan => q.plan[t] = r.plan[t]
        /\ Reload \in DOMAIN q.plan <=> Reload \in DOMAIN r.plan
    BY <1>6, ExecutingFacts DEF Reload
  <2>2. t \in DOMAIN r.plan => Pending(q, t)'
    BY <1>2, <1>3, <1>4, <2>1 DEF Met, Pending, SameRun, Read, Unnoticed, Unheard
  <2>3. t \notin DOMAIN r.plan => Done(q, t)'
    BY <1>2, <1>3, <1>4, <2>1 DEF Met, Done, SameRun, AwaitedRestart
  <2> QED
    BY <1>4, <2>1, <2>2, <2>3 DEF Met, ToolsFound
<1> QED
  BY <1>5, <1>6

LEMMA StartMet ==
    ASSUME NEW r, NEW q, NEW s, Executing(r, q, s), s[1] = "start",
           NEW t \in Steps(r.config, r.starts)
    PROVE  Met(q, t)'
<1> DEFINE n == s[2]
<1>1. n \in Nodes /\ HostOK
  BY ExecutingFacts, StepParts DEF Executing
<1>2. /\ r.plan[s] = "start" /\ domain[n].live = Missing
      /\ StartVm(n) /\ UNCHANGED <<file, loaded, enabled, running>>
  <2>1. r.plan[s] = "start" /\ domain[n].live = Missing
    BY ExecutingFacts DEF Pending, Executing, Advanced, ReadyFor, Ready
  <2> QED
    BY <2>1, EffectByKind DEF OnDomain
<1>3. domain[n].def = r.config.want[Xml(n)] /\ domain[n].def # Missing
  <2>1. Define(n) \in Steps(r.config, r.starts) /\ Define(n)[1] = "define" /\ Define(n)[2] = n
    BY <1>1 DEF Steps, NodeSteps, Define
  <2>2. IsNext(r, s) /\ s \in DOMAIN r.plan
    BY DEF Executing, Advanced
  <2>3. \A x \in DOMAIN r.plan : x # Define(n)
    BY <2>2, ExecutingFacts, NextInOrder
  <2>4. Done(r, Define(n))
    BY <2>1, <2>3, ExecutingFacts DEF Met
  <2> QED
    BY <1>1, <1>2, <2>1, <2>4, ExecutingFacts DEF Done
<1>4. /\ domain'[n].def = domain[n].def /\ domain'[n].live = domain[n].def
      /\ domain'[n].autostart = domain[n].autostart
      /\ \A m \in Nodes \ {n} : domain'[m] = domain[m]
  BY <1>1, <1>2, DomainFields DEF StartVm
<1>5. Met(r, t) /\ SameRun(q, r) /\ UNCHANGED site
      /\ (t[1] \in {"disk", "define", "autostart", "start"} => t[2] \in Nodes)
  BY ExecutingFacts, StepParts DEF Executing
<1>6. ASSUME NEW m \in Nodes
      PROVE  /\ disk'[m] = NoDisk <=> disk[m] = NoDisk
             /\ disk[m] # NoDisk => /\ disk'[m].size = disk[m].size
                                    /\ disk'[m].foreign = disk[m].foreign
  <2>1. CASE disk'[m] = disk[m]
    BY <2>1
  <2>2. CASE disk'[m] # disk[m]
    <3>1. disk[m] # NoDisk /\ disk'[m] = [disk[m] EXCEPT !.used = TRUE]
      BY <1>1, <1>2, <2>2 DEF StartVm, HostOK
    <3>2. disk[m] \in Disks
      BY <1>1, <3>1 DEF HostOK
    <3>3. disk'[m] \in Disks /\ disk'[m].size = disk[m].size /\ disk'[m].foreign = disk[m].foreign
      BY <3>1, <3>2 DEF Disks
    <3> QED
      BY <3>1, <3>3, NoDiskAssumption
  <2> QED
    BY <2>1, <2>2
<1>7. CASE t = s
  <2>1. t \notin DOMAIN q.plan
    BY <1>7, ExecutingFacts
  <2>2. Done(q, t)'
    BY <1>3, <1>4, <1>7 DEF Done, FileKinds
  <2> QED
    BY <1>5, <2>1, <2>2 DEF Met, ToolsFound
<1>8. CASE t # s
  <2>1. /\ t \in DOMAIN q.plan <=> t \in DOMAIN r.plan
        /\ t \in DOMAIN r.plan => q.plan[t] = r.plan[t]
        /\ Reload \in DOMAIN q.plan <=> Reload \in DOMAIN r.plan
    BY <1>8, ExecutingFacts DEF Reload
  <2>2. t[1] = "start" => t[2] # n
    <3> SUFFICES ASSUME t[1] = "start" PROVE t[2] # n
      OBVIOUS
    <3>1. t = <<"start", t[2], 0>> /\ s = <<"start", s[2], 0>>
      BY ExecutingFacts, StepType
    <3> QED
      BY <1>8, <3>1
  <2>3. t \in DOMAIN r.plan => t # Define(n)
    BY ExecutingFacts, NextInOrder DEF Executing, Advanced
  <2>4. t[1] = "define" /\ t \in DOMAIN r.plan => t[2] # n
    BY <2>3, ExecutingFacts, StepParts
  <2>5. t \in DOMAIN r.plan => Pending(q, t)'
    BY <1>2, <1>4, <1>5, <1>6, <2>1, <2>2, <2>4 DEF Met, Pending, SameRun, Read, Unnoticed, Unheard
  <2>6. t \notin DOMAIN r.plan => Done(q, t)'
    BY <1>2, <1>3, <1>4, <1>5, <1>6, <2>1 DEF Met, Done, SameRun, AwaitedRestart
  <2> QED
    BY <1>5, <2>1, <2>5, <2>6 DEF Met, ToolsFound
<1> QED
  BY <1>7, <1>8

LEMMA StepMet ==
    ASSUME NEW r, NEW q, NEW s, Executing(r, q, s), NEW t \in Steps(r.config, r.starts)
    PROVE  Met(q, t)'
<1>1. s[1] \in {"xml", "dir", "disk", "seed", "define", "autostart", "start", "unit", "daemon",
                "reload"}
  BY ExecutingFacts, StepType
<1> QED
  BY <1>1, FileMet, DiskMet, ReloadMet, DaemonMet, DefineMet, AutostartMet, StartMet DEF FileKinds

-----------------------------------------------------------------------------
(***************************************************************************)
(* The run stays on course                                                 *)
(***************************************************************************)
\* Nothing changes the tools and the base image of the host.
LEMMA SiteFixed == [Next]_vars => UNCHANGED site
<1> SUFFICES ASSUME [Next]_vars PROVE UNCHANGED site
  OBVIOUS
<1>1. CASE UNCHANGED vars
  BY <1>1 DEF vars
<1>2. ASSUME NEW p \in Appliers, Starts(p) PROVE UNCHANGED site
  BY <1>2 DEF Starts, Begin
<1>3. ASSUME NEW p \in Appliers, Acquire(p) \/ Check(p) \/ Execute(p) \/ ExecuteFails(p)
      PROVE  UNCHANGED site
  BY <1>3 DEF Acquire, Check, Execute, ExecuteFails
<1>4. ASSUME NEW p \in Appliers, Restore(p) \/ Restored(p) \/ Commit(p) \/ Verify(p)
      PROVE  UNCHANGED site
  BY <1>4 DEF Restore, Restored, Commit, Verify
<1>5. ASSUME NEW p \in Appliers, Faulty(p) PROVE UNCHANGED site
  BY <1>5 DEF Faulty, AcquireFails, RestoreFails, CommitFails, VerifyFails, Kill
<1>6. CASE Reboot \/ EditConfig \/ ClearLock
  BY <1>6 DEF Reboot, EditConfig, ClearLock
<1>7. ASSUME NEW n \in Nodes, Meddle(n) PROVE UNCHANGED site
  BY <1>7 DEF Meddle
<1> QED
  BY <1>1, <1>2, <1>3, <1>4, <1>5, <1>6, <1>7 DEF Next, Work

\* What is said of a run stays true while the host stays as it is.
LEMMA StillOnCourse ==
    ASSUME NEW r, NEW q, UNCHANGED <<site, host>>
    PROVE  /\ PlanCurrent(r) => PlanCurrent(r)'
           /\ PlanCurrent(r) /\ SameRun(q, r) /\ q.plan = r.plan /\ q.undo = r.undo
                 => PlanCurrent(q)'
           /\ HalfWay(r) => HalfWay(r)'
           /\ Rewinds(r) => Rewinds(r)'
<1>1. /\ file' = file /\ disk' = disk /\ loaded' = loaded /\ enabled' = enabled
      /\ running' = running /\ domain' = domain /\ site' = site
  BY DEF host
<1>2. PlanCurrent(r) => PlanCurrent(r)'
  BY <1>1 DEF PlanCurrent, PlanFor, Seen
<1>3. PlanCurrent(r) /\ SameRun(q, r) /\ q.plan = r.plan /\ q.undo = r.undo => PlanCurrent(q)'
  BY <1>1 DEF PlanCurrent, PlanFor, Seen, SameRun, Read
<1>4. ASSUME NEW s PROVE /\ ToolsFound(s) => ToolsFound(s)'
                         /\ Pending(r, s) => Pending(r, s)'
                         /\ Done(r, s) => Done(r, s)'
  BY <1>1 DEF ToolsFound, Pending, Done
<1>5. HalfWay(r) => HalfWay(r)'
  BY <1>4 DEF HalfWay
<1>6. Rewinds(r) => Rewinds(r)'
  BY <1>1 DEF Rewinds
<1> QED
  BY <1>2, <1>3, <1>5, <1>6

RestartPending(r, u) == Daemon(u) \in DOMAIN r.plan /\ r.plan[Daemon(u)] = "restart"

\* The plan starts or restarts the daemon of every unit file it writes, and
\* restarts no other.
LEMMA DaemonPlanned ==
    ASSUME HostOK, NEW q, q.config \in HostConfigs, q.starts \in BOOLEAN,
           NEW P, P = PlanFor(q.config, Files, q.missed, q.allow, q.starts), ~HasRefusals(P),
           q.plan = [s \in ToApply(P) |-> P[s]], NEW u \in Units
    PROVE  /\ Unit(u) \in DOMAIN q.plan => Daemon(u) \in DOMAIN q.plan
           /\ RestartPending(q, u) => file[Unit(u)] # q.config.want[Unit(u)]
<1> DEFINE c == q.config  a == Seen(Files, q.missed)
<1>1. /\ DOMAIN P = Steps(c, q.starts)
      /\ \A t \in DOMAIN P : P[t] = Decision(c, a, q.allow, t) /\ P[t] # "refuse"
  BY DEF PlanFor, Plan, HasRefusals
<1>2. /\ Unit(u)[1] = "unit" /\ UnitOf(Unit(u)) = u /\ Unit(u) \in Files
      /\ Daemon(u)[1] = "daemon" /\ UnitOf(Daemon(u)) = u
  BY DEF Unit, Daemon, UnitOf, Units, Files, UnitFiles
<1>3. Unit(u) \in DOMAIN P \/ Daemon(u) \in DOMAIN P => u \in UnitsOf(c)
  BY <1>1, <1>2, StepParts
<1>4. u \in UnitsOf(c) => Daemon(u) \in DOMAIN P
  BY <1>1 DEF Steps, UnitSteps, Daemon
<1>5. Daemon(u) \in DOMAIN P =>
        /\ P[Daemon(u)] = DaemonDecision(c, a, u)
        /\ P[Daemon(u)] # "refuse"
        /\ u \in ChangedUnits(c, a) => P[Daemon(u)] # "skip"
        /\ P[Daemon(u)] = "restart" => u \in ChangedUnits(c, a)
  <2>1. Daemon(u) \in DOMAIN P => P[Daemon(u)] = DaemonDecision(c, a, u) /\ P[Daemon(u)] # "refuse"
    BY <1>1, <1>2 DEF Decision, UnitOf
  <2> QED
    BY <2>1 DEF DaemonDecision
<1>6. Unit(u) \in ToApply(P) => u \in ChangedUnits(c, a)
  <2>1. Unit(u) \in DOMAIN P => P[Unit(u)] = FileDecision(c, a, Unit(u))
    BY <1>1, <1>2 DEF Decision
  <2> QED
    BY <1>3, <2>1 DEF ToApply, FileDecision, ChangedUnits
<1>7. u \in ChangedUnits(c, a) => file[Unit(u)] # c.want[Unit(u)]
  BY <1>2, SeenHost DEF ChangedUnits, Changes
<1>8. DOMAIN q.plan = ToApply(P) /\ \A t \in ToApply(P) : q.plan[t] = P[t]
  OBVIOUS
<1>9. Unit(u) \in DOMAIN q.plan => Daemon(u) \in DOMAIN q.plan
  BY <1>3, <1>4, <1>5, <1>6, <1>8 DEF ToApply
<1>10. RestartPending(q, u) => file[Unit(u)] # c.want[Unit(u)]
  BY <1>5, <1>7, <1>8 DEF RestartPending, ToApply
<1> QED
  BY <1>9, <1>10

\* A plan that is approved is one that planning would give now.
LEMMA ApprovedOnCourse ==
    ASSUME HostOK, EnabledRun, NEW r, ActiveOK(r), PlanCurrent(r), NEW q, Approved(r, q)
    PROVE  HalfWay(q) /\ Rewinds(q) /\ Recording(q)
<1> DEFINE P == PlanFor(r.config, Files, r.missed, r.allow, r.starts)
<1>1. /\ q.config = r.config /\ q.starts = r.starts /\ q.allow = r.allow /\ q.missed = r.missed
      /\ q.config \in HostConfigs /\ q.starts \in BOOLEAN
  BY ConfigsAssumption DEF Approved, ActiveOK
<1>2. r.plan = P /\ ~HasRefusals(P) /\ q.plan = [s \in ToApply(P) |-> P[s]]
  BY DEF Approved, PlanCurrent
<1>3. q.undo = <<>> /\ q.before = [file |-> file, domain |-> domain]
  BY DEF Approved, PlanCurrent
<1>4. P = PlanFor(q.config, Files, q.missed, q.allow, q.starts)
  BY <1>1
<1> HIDE DEF P
<1>5. ASSUME NEW s \in Steps(q.config, q.starts)
      PROVE  ToolsFound(s) /\ IF s \in DOMAIN q.plan THEN Pending(q, s) ELSE Done(q, s)
  <2>1. s[1] \in {"xml", "dir", "disk", "seed", "define", "autostart", "start", "unit", "daemon",
                  "reload"}
    BY <1>1, StepType
  <2>2. CASE s[1] \in FileKinds
    BY <1>1, <1>2, <1>4, <2>2, FileStepMet
  <2>3. CASE s[1] = "disk"
    BY <1>1, <1>2, <1>4, <2>3, DiskStepMet
  <2>4. CASE s[1] \in {"reload", "daemon"}
    BY <1>1, <1>2, <1>4, <2>4, UnitStepMet
  <2>5. CASE s[1] \in {"define", "autostart", "start"}
    BY <1>1, <1>2, <1>3, <1>4, <2>5, DomainStepMet
  <2> QED
    BY <2>1, <2>2, <2>3, <2>4, <2>5 DEF FileKinds
<1>6. HalfWay(q)
  BY <1>3, <1>5 DEF HalfWay
<1>7. Len(q.undo) = 0 /\ q.before.file = file /\ q.before.domain = domain
  BY <1>3
<1>8. Rewinds(q)
  BY <1>7 DEF Rewinds
<1>9. \A n \in Nodes : Read(q, n) => q.previous[n] = Shown(q.before.domain[n])
  BY <1>1, <1>7 DEF Approved, PlanCurrent, Read
<1>10. \A u \in Units : Unit(u) \in DOMAIN q.plan => Daemon(u) \in DOMAIN q.plan
  BY <1>1, <1>2, <1>4, DaemonPlanned
<1> QED
  BY <1>6, <1>7, <1>8, <1>9, <1>10 DEF Recording

\* What a run is about to do: its plan is half executed, s is the next step.
Underway(r, s) ==
    /\ HostOK /\ ActiveOK(r) /\ HalfWay(r) /\ Rewinds(r) /\ Recording(r)
    /\ s \in DOMAIN r.plan

LEMMA UnderwayFacts ==
    ASSUME NEW r, NEW s, Underway(r, s)
    PROVE  /\ r.config \in HostConfigs /\ r.starts \in BOOLEAN
           /\ DOMAIN r.plan \subseteq Steps(r.config, r.starts)
           /\ s \in Steps(r.config, r.starts) /\ Pending(r, s)
           /\ s[1] \in {"xml", "dir", "disk", "seed", "define", "autostart", "start", "unit",
                        "daemon", "reload"}
           /\ s[1] = "unit" => r.plan[s] = "write" /\ file[s] # r.config.want[s]
           /\ r.plan[s] = "write" => s[1] \in FileKinds /\ s \in Files
           /\ r.plan[s] = "restart" => s[1] = "daemon" /\ UnitOf(s) \in enabled
           /\ r.plan[s] \in {"define", "redefine"} => s = Define(s[2]) /\ s[2] \in Nodes
           /\ r.plan[s] = "redefine" => Read(r, s[2])
           /\ r.plan[s] \in {"autostart", "start"} => s[2] \in Nodes
           /\ r.undo \in Seq(Undos)
<1>1. /\ r.config \in HostConfigs /\ r.starts \in BOOLEAN
      /\ DOMAIN r.plan \subseteq Steps(r.config, r.starts)
      /\ s \in Steps(r.config, r.starts)
      /\ r.undo \in Seq(Undos)
  BY ConfigsAssumption DEF Underway, ActiveOK, PlanOK
<1>2. Pending(r, s)
  BY <1>1 DEF Underway, HalfWay
<1>3. s[1] \in {"xml", "dir", "disk", "seed", "define", "autostart", "start", "unit",
                "daemon", "reload"}
  BY <1>1, StepType
<1>4. /\ s[1] = "unit" => r.plan[s] = "write" /\ file[s] # r.config.want[s]
      /\ r.plan[s] = "write" => s[1] \in FileKinds
      /\ r.plan[s] = "restart" => s[1] = "daemon" /\ UnitOf(s) \in enabled
      /\ r.plan[s] \in {"define", "redefine"} => s[1] = "define"
      /\ r.plan[s] = "redefine" => Read(r, s[2])
      /\ r.plan[s] \in {"autostart", "start"} => s[1] \in {"autostart", "start"}
  BY <1>2, <1>3 DEF Pending, FileKinds
<1> QED
  BY <1>1, <1>2, <1>3, <1>4, StepParts

\* An operation changes the unit file and the definition its step is about.
LEMMA EffectTouches ==
    ASSUME NEW r, NEW s, Underway(r, s),
           UNCHANGED host \/ Effect(r.config, r.plan[s], s)
    PROVE  /\ \A f \in Files : f # s => file'[f] = file[f]
           /\ \A n \in Nodes : s # Define(n) => domain'[n].def = domain[n].def
<1> DEFINE c == r.config  op == r.plan[s]  n == s[2]
<1>1. CASE UNCHANGED <<file, domain>>
  BY <1>1
<1>2. CASE OnFiles(c, op, s)
  <2>1. file' = [file EXCEPT ![s] = c.want[s]] /\ UNCHANGED domain
    BY <1>2 DEF OnFiles
  <2> QED
    BY <2>1 DEF Underway, HostOK
<1>3. CASE OnDomain(op, n)
  <2>1. UNCHANGED file
    BY <1>3 DEF OnDomain
  <2>2. n \in Nodes /\ HostOK
    BY <1>3, UnderwayFacts DEF OnDomain, Underway
  <2>3. CASE op \in {"define", "redefine"}
    <3>1. domain' = [domain EXCEPT ![n].def = file[Xml(n)]] /\ s = Define(n)
      BY <1>3, <2>3, UnderwayFacts DEF OnDomain
    <3>2. \A m \in Nodes \ {n} : domain'[m] = domain[m]
      BY <2>2, <3>1, DomainFields
    <3> QED
      BY <2>1, <3>1, <3>2
  <2>4. CASE op = "autostart"
    <3>1. domain' = [domain EXCEPT ![n].autostart = TRUE]
      BY <1>3, <2>4 DEF OnDomain
    <3>2. domain'[n].def = domain[n].def /\ \A m \in Nodes \ {n} : domain'[m] = domain[m]
      BY <2>2, <3>1, DomainFields
    <3> QED
      BY <2>1, <3>2
  <2>5. CASE op = "start"
    <3>1. domain' = [domain EXCEPT ![n].live = domain[n].def]
      BY <1>3, <2>5 DEF OnDomain, StartVm
    <3>2. domain'[n].def = domain[n].def /\ \A m \in Nodes \ {n} : domain'[m] = domain[m]
      BY <2>2, <3>1, DomainFields
    <3> QED
      BY <2>1, <3>2
  <2> QED
    BY <1>3, <2>3, <2>4, <2>5 DEF OnDomain
<1> QED
  BY <1>1, <1>2, <1>3 DEF Effect, OnDisk, OnUnits, host

\* Whatever the outcome of an operation, systemd starts what runs at boot.
LEMMA EffectEnabled ==
    ASSUME NEW r, NEW s, Underway(r, s), EnabledRun,
           UNCHANGED host \/ Effect(r.config, r.plan[s], s)
    PROVE  EnabledRun'
<1> DEFINE c == r.config  op == r.plan[s]  u == UnitOf(s)
<1>1. CASE UNCHANGED <<running, enabled>>
  BY <1>1 DEF EnabledRun
<1>2. CASE OnUnits(op, u)
  <2>1. \A v \in Units \ {u} : running'[v] = running[v]
    BY <1>2 DEF OnUnits, Underway, HostOK
  <2>2. enabled \subseteq enabled'
    BY <1>2 DEF OnUnits
  <2>3. u \in enabled' \/ running' = running
    BY <1>2, UnderwayFacts DEF OnUnits
  <2> QED
    BY <2>1, <2>2, <2>3 DEF EnabledRun
<1> QED
  BY <1>1, <1>2 DEF Effect, OnFiles, OnDisk, OnDomain, host, UnitOf

\* What a run notes before it executes an operation.
LEMMA StagedNotes ==
    ASSUME NEW r, NEW s, Underway(r, s), NEW undo, undo = Staged(r, r.plan[s], s)
    PROVE  \/ undo = r.undo
           \/ /\ Len(undo) = Len(r.undo) + 1 /\ Len(r.undo) \in Nat
              /\ \A i \in 1..Len(r.undo) : undo[i] = r.undo[i]
              /\ undo[Len(undo)].step = s
              /\ s[1] \in {"unit", "define"}
              /\ s \in UnitFiles => /\ undo[Len(undo)].old = r.before.file[s]
                                    /\ undo[Len(undo)].old # r.config.want[s]
              /\ s \notin UnitFiles => undo[Len(undo)].old = Shown(r.before.domain[s[2]])
<1>1. r.undo \in Seq(Undos) /\ Len(r.undo) \in Nat
  BY UnderwayFacts
<1>2. ~Noted(r, s)
  BY DEF Underway, Recording, Noted
<1>3. CASE s[1] = "unit" /\ file[s] # r.config.want[s]
  <2>1. s \in UnitFiles
    BY <1>3, UnderwayFacts, StepParts DEF UnitFiles
  <2>2. undo = Append(r.undo, [step |-> s, old |-> file[s]])
    BY <1>3, UnderwayFacts DEF Staged
  <2>3. file[s] = r.before.file[s]
    BY <1>2, <2>1 DEF Underway, Rewinds
  <2> QED
    BY <1>1, <1>3, <2>1, <2>2, <2>3
<1>4. CASE ~(s[1] = "unit" /\ file[s] # r.config.want[s]) /\ r.plan[s] = "redefine"
  <2>1. undo = Append(r.undo, [step |-> s, old |-> r.previous[s[2]]])
    BY <1>4 DEF Staged
  <2>2. s = Define(s[2]) /\ s[2] \in Nodes
    BY <1>4, UnderwayFacts
  <2>3. s \notin UnitFiles /\ s[1] = "define"
    BY <2>2 DEF UnitFiles, Unit, Define
  <2>4. r.previous[s[2]] = Shown(r.before.domain[s[2]])
    BY <1>4, <2>2, UnderwayFacts DEF Underway, Recording
  <2> QED
    BY <1>1, <2>1, <2>3, <2>4
<1>5. CASE ~(s[1] = "unit" /\ file[s] # r.config.want[s]) /\ r.plan[s] # "redefine"
  BY <1>5 DEF Staged
<1> QED
  BY <1>3, <1>4, <1>5

\* What is noted, is noted before it changes.
LEMMA StagedRewinds ==
    ASSUME NEW r, NEW s, Underway(r, s), NEW q, SameRun(q, r), q.undo = Staged(r, r.plan[s], s),
           UNCHANGED host \/ Effect(r.config, r.plan[s], s)
    PROVE  Rewinds(q)'
<1>1. \/ q.undo = r.undo
      \/ /\ Len(q.undo) = Len(r.undo) + 1 /\ Len(r.undo) \in Nat
         /\ \A i \in 1..Len(r.undo) : q.undo[i] = r.undo[i]
         /\ q.undo[Len(q.undo)].step = s
         /\ s[1] \in {"unit", "define"}
         /\ s \in UnitFiles => q.undo[Len(q.undo)].old = r.before.file[s]
         /\ s \notin UnitFiles => q.undo[Len(q.undo)].old = Shown(r.before.domain[s[2]])
  BY StagedNotes
<1>2. /\ q.before = r.before /\ q.missed = r.missed /\ Rewinds(r)
      /\ \A i \in 1..Len(r.undo) : r.undo[i].step # s
  BY DEF SameRun, Underway, Recording
<1>3. \A i, j \in 1..Len(q.undo) : q.undo[i].step = q.undo[j].step => i = j
  <2>1. \A i, j \in 1..Len(r.undo) : r.undo[i].step = r.undo[j].step => i = j
    BY <1>2 DEF Rewinds
  <2>2. CASE q.undo = r.undo
    BY <2>1, <2>2
  <2>3. CASE q.undo # r.undo
    <3>1. Len(q.undo) = Len(r.undo) + 1 /\ Len(r.undo) \in Nat /\ q.undo[Len(q.undo)].step = s
      BY <1>1, <2>3
    <3>2. \A i \in 1..Len(r.undo) : q.undo[i].step = r.undo[i].step /\ q.undo[i].step # s
      BY <1>1, <1>2, <2>3
    <3>3. \A i \in 1..Len(q.undo) : i \in 1..Len(r.undo) \/ i = Len(q.undo)
      BY <3>1
    <3> QED
      BY <2>1, <3>1, <3>2, <3>3
  <2> QED
    BY <2>2, <2>3
<1>4. \A i \in 1..Len(q.undo) :
         LET t == q.undo[i].step
         IN  /\ t \in UnitFiles => q.undo[i].old = q.before.file[t]
             /\ t \notin UnitFiles => q.undo[i].old = Shown(q.before.domain[t[2]])
  <2>1. \A i \in 1..Len(r.undo) :
           LET t == r.undo[i].step
           IN  /\ t \in UnitFiles => r.undo[i].old = q.before.file[t]
               /\ t \notin UnitFiles => r.undo[i].old = Shown(q.before.domain[t[2]])
    BY <1>2 DEF Rewinds
  <2>2. CASE q.undo = r.undo
    BY <2>1, <2>2
  <2>3. CASE q.undo # r.undo
    <3>1. SUFFICES ASSUME NEW i \in 1..Len(q.undo)
                   PROVE  LET t == q.undo[i].step
                          IN  /\ t \in UnitFiles => q.undo[i].old = q.before.file[t]
                              /\ t \notin UnitFiles =>
                                    q.undo[i].old = Shown(q.before.domain[t[2]])
      OBVIOUS
    <3>2. Len(q.undo) = Len(r.undo) + 1 /\ Len(r.undo) \in Nat
      BY <1>1, <2>3
    <3>3. CASE i \in 1..Len(r.undo)
      <4>1. q.undo[i] = r.undo[i]
        BY <1>1, <2>3, <3>3
      <4> QED
        BY <2>1, <3>3, <4>1
    <3>4. CASE i = Len(q.undo)
      <4>1. q.undo[i].step = s
        BY <1>1, <2>3, <3>4
      <4>2. s \in UnitFiles => q.undo[i].old = q.before.file[s]
        BY <1>1, <1>2, <2>3, <3>4
      <4>3. s \notin UnitFiles => q.undo[i].old = Shown(q.before.domain[s[2]])
        BY <1>1, <1>2, <2>3, <3>4
      <4> QED
        BY <4>1, <4>2, <4>3
    <3> QED
      BY <3>2, <3>3, <3>4
  <2> QED
    BY <2>2, <2>3
<1>5. \A t : Noted(r, t) => Noted(q, t)
  BY <1>1 DEF Noted
<1>6. q.undo # r.undo => Noted(q, s)
  BY <1>1 DEF Noted
<1>7. s \in UnitFiles => Noted(q, s) \/ file'[s] = file[s]
  <2>1. SUFFICES ASSUME s \in UnitFiles, q.undo = r.undo PROVE file'[s] = file[s]
    BY <1>6
  <2>2. s[1] = "unit"
    BY <2>1 DEF UnitFiles, Unit
  <2>3. file[s] # r.config.want[s]
    BY <2>2, UnderwayFacts
  <2>4. q.undo = Append(r.undo, [step |-> s, old |-> file[s]])
    BY <2>2, <2>3, UnderwayFacts DEF Staged
  <2>5. Append(r.undo, [step |-> s, old |-> file[s]]) # r.undo
    BY UnderwayFacts
  <2> QED
    BY <2>1, <2>4, <2>5
<1>8. ASSUME NEW f \in UnitFiles PROVE Noted(q, f) \/ file'[f] = q.before.file[f]
  <2>1. f # s => file'[f] = file[f]
    BY EffectTouches DEF Files
  <2> QED
    BY <1>2, <1>5, <1>7, <2>1 DEF Rewinds
<1>9. ASSUME NEW n \in Nodes
      PROVE  \/ Noted(q, Define(n))
             \/ q.before.domain[n].def = Missing \/ AwaitedRestart(q, n) \/ ~Read(q, n)
             \/ domain'[n].def = q.before.domain[n].def
  <2>1. \/ Noted(r, Define(n))
        \/ q.before.domain[n].def = Missing \/ AwaitedRestart(q, n) \/ ~Read(q, n)
        \/ domain[n].def = q.before.domain[n].def
    BY <1>2 DEF Rewinds, AwaitedRestart, Read
  <2>2. CASE s # Define(n)
    BY <1>5, <2>1, <2>2, EffectTouches
  <2>3. CASE s = Define(n)
    <3>1. s[1] = "define" /\ s[2] = n
      BY <2>3 DEF Define
    <3>2. \/ r.plan[s] = "define" /\ (Read(r, n) => domain[n].def = Missing)
          \/ r.plan[s] = "redefine"
      BY <3>1, UnderwayFacts DEF Pending
    <3>3. CASE r.plan[s] = "define" /\ (Read(r, n) => domain[n].def = Missing)
      <4>1. ~Noted(r, Define(n))
        BY <1>2, <2>3 DEF Noted
      <4>2. Read(q, n) => domain[n].def = Missing
        BY <1>2, <3>3 DEF Read
      <4> QED
        BY <2>1, <4>1, <4>2
    <3>4. CASE r.plan[s] = "redefine"
      <4>1. q.undo = Append(r.undo, [step |-> s, old |-> r.previous[s[2]]])
        BY <3>1, <3>4 DEF Staged
      <4>2. q.undo # r.undo
        BY <4>1, UnderwayFacts
      <4> QED
        BY <1>6, <2>3, <4>2
    <3> QED
      BY <3>2, <3>3, <3>4
  <2> QED
    BY <2>2, <2>3
<1> QED
  BY <1>3, <1>4, <1>8, <1>9 DEF Rewinds, Noted, AwaitedRestart

LEMMA AdvancedOnCourse ==
    ASSUME NEW r, NEW s, Underway(r, s), NEW q, Advanced(r, q, s), UNCHANGED site
    PROVE  HalfWay(q)' /\ Rewinds(q)' /\ Recording(q)
<1>1. Executing(r, q, s)
  BY DEF Executing, Underway
<1>2. /\ SameRun(q, r) /\ DOMAIN q.plan = DOMAIN r.plan \ {s}
      /\ q.undo = Staged(r, r.plan[s], s) /\ IsNext(r, s)
  BY DEF Advanced
<1>3. \A t \in Steps(q.config, q.starts) : Met(q, t)'
  BY <1>1, <1>2, StepMet DEF SameRun
<1>4. q.undo # <<>> => \A t \in DOMAIN q.plan : t[1] \notin EarlyKinds
  <2>1. r.undo # <<>> => \A t \in DOMAIN r.plan : t[1] \notin EarlyKinds
    BY DEF Underway, HalfWay
  <2>2. s[1] \in {"unit", "define"} => \A t \in DOMAIN r.plan : t[1] \notin EarlyKinds
    <3>1. ASSUME NEW t \in DOMAIN r.plan PROVE s[1] \notin EarlyKinds => t[1] \notin EarlyKinds
      BY <1>2, UnderwayFacts, NextInOrder DEF Underway
    <3> QED
      BY <3>1 DEF EarlyKinds
  <2>3. q.undo = r.undo \/ s[1] \in {"unit", "define"}
    BY <1>2, StagedNotes
  <2> QED
    BY <1>2, <2>1, <2>2, <2>3
<1>5. HalfWay(q)'
  BY <1>3, <1>4 DEF HalfWay, Met
<1>6. Rewinds(q)'
  BY <1>2, StagedRewinds DEF Advanced
<1>7. \A i \in 1..Len(q.undo) :
         /\ q.undo[i].step \notin DOMAIN q.plan
         /\ q.undo[i].step \in UnitFiles => q.undo[i].old # q.config.want[q.undo[i].step]
  <2>1. \A i \in 1..Len(r.undo) :
           /\ r.undo[i].step \notin DOMAIN r.plan
           /\ r.undo[i].step \in UnitFiles => r.undo[i].old # q.config.want[r.undo[i].step]
    BY <1>2 DEF Underway, Recording, SameRun
  <2>2. \/ q.undo = r.undo
        \/ /\ Len(q.undo) = Len(r.undo) + 1 /\ Len(r.undo) \in Nat
           /\ \A i \in 1..Len(r.undo) : q.undo[i] = r.undo[i]
           /\ q.undo[Len(q.undo)].step = s
           /\ s \in UnitFiles => q.undo[Len(q.undo)].old # q.config.want[s]
    BY <1>2, StagedNotes DEF SameRun
  <2> QED
    BY <1>2, <2>1, <2>2
<1>8. \A n \in Nodes : Read(q, n) => q.previous[n] = Shown(q.before.domain[n])
  BY <1>2 DEF SameRun, Underway, Recording, Read
<1>9. ASSUME NEW u \in Units, Unit(u) \in DOMAIN q.plan PROVE Daemon(u) \in DOMAIN q.plan
  <2>1. Unit(u) \in DOMAIN r.plan /\ Unit(u)[1] = "unit" /\ Daemon(u)[1] = "daemon"
    BY <1>2, <1>9 DEF Unit, Daemon
  <2>2. Daemon(u) \in DOMAIN r.plan
    BY <2>1 DEF Underway, Recording
  <2>3. s[1] = "daemon" => Unit(u)[1] # "unit"
    BY <1>2, <2>1, UnderwayFacts, NextInOrder DEF Underway
  <2> QED
    BY <1>2, <2>1, <2>2, <2>3
<1> QED
  BY <1>5, <1>6, <1>7, <1>8, <1>9 DEF Recording

\* Putting one change back leaves the others noted.
LEMMA TookBackRewinds ==
    ASSUME HostOK, NEW r, ActiveOK(r), Rewinds(r), NEW q, TookBack(r, q)
    PROVE  Rewinds(q)'
<1> DEFINE last == Len(r.undo)  s == r.undo[last].step  old == r.undo[last].old
<1>1. r.undo \in Seq(Undos) /\ last \in Nat /\ last > 0
  BY DEF TookBack, ActiveOK
<1>2. r.undo[last] \in Undos
  BY <1>1
<1>3. \/ s \in UnitFiles /\ s[1] = "unit"
      \/ s \notin UnitFiles /\ s[1] # "unit" /\ s = Define(s[2]) /\ s[2] \in Nodes
  <2>1. CASE s \in UnitFiles
    BY <2>1 DEF UnitFiles, Unit
  <2>2. CASE s \in NodeSteps({"define"})
    <3>1. s[1] = "define" /\ s = Define(s[2]) /\ s[2] \in Nodes
      BY <2>2 DEF NodeSteps, Define
    <3> QED
      BY <3>1 DEF UnitFiles, Unit
  <2> QED
    BY <1>2, <2>1, <2>2 DEF Undos
<1>4. /\ q.before = r.before /\ q.missed = r.missed /\ Len(q.undo) = last - 1
      /\ \A i \in 1..Len(q.undo) : q.undo[i] = r.undo[i]
  BY <1>1 DEF TookBack, SameRun
<1>5. \A t : Noted(r, t) => Noted(q, t) \/ t = s
  BY <1>1, <1>4 DEF Noted
<1>6. /\ s \in UnitFiles => old = r.before.file[s]
      /\ s \notin UnitFiles => old = Shown(r.before.domain[s[2]])
  BY <1>1 DEF Rewinds
<1>7. /\ s \in UnitFiles => file' = [file EXCEPT ![s] = old] /\ UNCHANGED domain
      /\ s \notin UnitFiles => domain' = [domain EXCEPT ![s[2]].def = old] /\ UNCHANGED file
  BY <1>3 DEF TookBack
<1>8. ASSUME NEW f \in UnitFiles PROVE Noted(q, f) \/ file'[f] = q.before.file[f]
  <2>1. file \in [Files -> Contents] /\ f \in Files
    BY DEF HostOK, Files
  <2>2. Noted(r, f) \/ file[f] = r.before.file[f]
    BY DEF Rewinds
  <2> QED
    BY <1>4, <1>5, <1>6, <1>7, <2>1, <2>2
<1>9. ASSUME NEW n \in Nodes
      PROVE  \/ Noted(q, Define(n))
             \/ q.before.domain[n].def = Missing \/ AwaitedRestart(q, n) \/ ~Read(q, n)
             \/ domain'[n].def = q.before.domain[n].def
  <2>1. \/ Noted(r, Define(n))
        \/ r.before.domain[n].def = Missing \/ AwaitedRestart(r, n) \/ ~Read(r, n)
        \/ domain[n].def = r.before.domain[n].def
    BY DEF Rewinds
  <2>2. CASE s = Define(n)
    <3>1. s \notin UnitFiles /\ s[2] = n
      BY <1>3, <2>2 DEF Define
    <3>2. domain'[n].def = Shown(r.before.domain[n])
      <4>1. domain' = [domain EXCEPT ![n].def = old]
        BY <1>7, <3>1
      <4>2. domain'[n].def = old
        BY <4>1, DomainFields
      <4> QED
        BY <1>6, <3>1, <4>2
    <3> QED
      BY <1>4, <3>2 DEF Shown, AwaitedRestart
  <2>3. CASE s # Define(n)
    <3>1. domain'[n] = domain[n]
      <4>1. CASE s \in UnitFiles
        BY <1>7, <4>1
      <4>2. CASE s \notin UnitFiles
        <5>1. s[2] \in Nodes /\ n # s[2]
          BY <1>3, <2>3, <4>2
        <5>2. domain' = [domain EXCEPT ![s[2]].def = old]
          BY <1>7, <4>2
        <5>3. \A m \in Nodes \ {s[2]} : [domain EXCEPT ![s[2]].def = old][m] = domain[m]
          BY <5>1, DomainFields
        <5> QED
          BY <5>1, <5>2, <5>3
      <4> QED
        BY <4>1, <4>2
    <3> QED
      BY <1>4, <1>5, <2>1, <2>3, <3>1 DEF AwaitedRestart, Read
  <2> QED
    BY <2>2, <2>3
<1>10. \A i, j \in 1..Len(q.undo) : q.undo[i].step = q.undo[j].step => i = j
  BY <1>1, <1>4 DEF Rewinds
<1>11. \A i \in 1..Len(q.undo) :
         LET t == q.undo[i].step
         IN  /\ t \in UnitFiles => q.undo[i].old = q.before.file[t]
             /\ t \notin UnitFiles => q.undo[i].old = Shown(q.before.domain[t[2]])
  <2> SUFFICES ASSUME NEW i \in 1..Len(q.undo)
               PROVE  LET t == q.undo[i].step
                      IN  /\ t \in UnitFiles => q.undo[i].old = q.before.file[t]
                          /\ t \notin UnitFiles => q.undo[i].old = Shown(q.before.domain[t[2]])
    OBVIOUS
  <2>1. i \in 1..Len(r.undo) /\ q.undo[i] = r.undo[i]
    BY <1>1, <1>4
  <2>2. LET t == r.undo[i].step
        IN  /\ t \in UnitFiles => r.undo[i].old = r.before.file[t]
            /\ t \notin UnitFiles => r.undo[i].old = Shown(r.before.domain[t[2]])
    BY <2>1 DEF Rewinds
  <2> QED
    BY <1>4, <2>1, <2>2
<1> QED
  BY <1>8, <1>9, <1>10, <1>11 DEF Rewinds, Noted, AwaitedRestart

LEMMA RunStays ==
    ASSUME Inv, Inv', EnabledRun, UNCHANGED site, NEW r, NEW q, Moves(r, q),
           IdleOK(r) \/ ActiveOK(r), RunOnCourse(r)
    PROVE  RunOnCourse(q)'
<1>1. HostOK
  BY DEF Inv, TypeInv
<1>2. \A result : Idle(result).at = "idle"
  BY DEF Idle
<1>3. r.at \in Phases => ActiveOK(r)
  BY DEF IdleOK, Idle, Phases
<1>4. CASE Ended(r, q) \/ Rebooted(q)
  BY <1>2, <1>4 DEF Ended, Rebooted, RunOnCourse
<1>5. CASE Started(r, q)
  <2>1. q.at = "planned" => PlanCurrent(q)'
    BY <1>5, StillOnCourse DEF Started
  <2> QED
    BY <1>5, <2>1 DEF Started, RunOnCourse
<1>6. CASE Shifted(r, q)
  <2>1. r.at = "planned" => PlanCurrent(q)'
    BY <1>6, StillOnCourse DEF Shifted, RunOnCourse
  <2> QED
    BY <1>6, <2>1 DEF Shifted, RunOnCourse
<1>7. CASE Approved(r, q)
  <2>1. HalfWay(q) /\ Rewinds(q) /\ Recording(q)
    BY <1>1, <1>3, <1>7, ApprovedOnCourse DEF Approved, RunOnCourse, Phases
  <2>2. HalfWay(q)' /\ Rewinds(q)'
    BY <1>7, <2>1, StillOnCourse DEF Approved
  <2> QED
    BY <1>7, <2>1, <2>2 DEF Approved, RunOnCourse
<1>8. CASE TookBack(r, q)
  <2>1. Rewinds(q)'
    BY <1>1, <1>3, <1>8, TookBackRewinds DEF TookBack, RunOnCourse, Phases
  <2> QED
    BY <1>8, <2>1 DEF TookBack, RunOnCourse
<1>9. ASSUME NEW s \in DOMAIN r.plan, Advanced(r, q, s) PROVE RunOnCourse(q)'
  <2>1. Underway(r, s)
    BY <1>1, <1>3, <1>9 DEF Advanced, RunOnCourse, Phases, Underway
  <2>2. HalfWay(q)' /\ Rewinds(q)' /\ Recording(q)
    BY <1>9, <2>1, AdvancedOnCourse
  <2> QED
    BY <1>9, <2>2 DEF Advanced, RunOnCourse
<1>10. ASSUME NEW s \in DOMAIN r.plan, FailedAt(r, q, s) PROVE RunOnCourse(q)'
  <2>1. Underway(r, s)
    BY <1>1, <1>3, <1>10 DEF FailedAt, RunOnCourse, Phases, Underway
  <2>2. Rewinds(q)'
    BY <1>10, <2>1, StagedRewinds DEF FailedAt
  <2> QED
    BY <1>10, <2>2 DEF FailedAt, RunOnCourse
<1>11. CASE Elsewhere(r, q)
  <2>1. CASE r.at = "idle"
    BY <1>11, <2>1 DEF Elsewhere, RunOnCourse
  <2>2. CASE UNCHANGED host
    BY <1>11, <2>2, StillOnCourse DEF Elsewhere, RunOnCourse
  <2> QED
    BY <1>11, <2>1, <2>2 DEF Elsewhere
<1> QED
  BY <1>4, <1>5, <1>6, <1>7, <1>8, <1>9, <1>10, <1>11 DEF Moves

LEMMA EnabledStays ==
    ASSUME Inv, EnabledRun, NEW r, NEW q, Moves(r, q), IdleOK(r) \/ ActiveOK(r), RunOnCourse(r)
    PROVE  EnabledRun'
<1>1. CASE UNCHANGED <<running, enabled>>
  BY <1>1 DEF EnabledRun
<1>2. CASE Rebooted(q)
  BY <1>2 DEF Rebooted, EnabledRun
<1>3. ASSUME NEW s \in DOMAIN r.plan, Advanced(r, q, s) \/ FailedAt(r, q, s) PROVE EnabledRun'
  <2>1. r.at = "executing" /\ (UNCHANGED host \/ Effect(r.config, r.plan[s], s))
    BY <1>3 DEF Advanced, FailedAt
  <2>2. Underway(r, s)
    BY <2>1 DEF RunOnCourse, Inv, TypeInv, IdleOK, Idle, Underway
  <2> QED
    BY <2>1, <2>2, EffectEnabled
<1> QED
  BY <1>1, <1>2, <1>3 DEF Moves, Ended, Started, Shifted, Approved, TookBack, Elsewhere, host

LEMMA InitSerial == Init => SerialInv
<1> SUFFICES ASSUME Init PROVE SerialInv
  OBVIOUS
<1>1. Inv
  BY InitInv
<1>2. EnabledRun
  BY DEF Init, EnabledRun
<1>3. \A p \in Appliers : RunOnCourse(run[p])
  BY DEF Init, Idle, RunOnCourse
<1> QED
  BY <1>1, <1>2, <1>3 DEF SerialInv

LEMMA NextSerial ==
    ASSUME Alone
    PROVE  SerialInv /\ [Next]_vars => SerialInv'
<1> SUFFICES ASSUME SerialInv, [Next]_vars PROVE SerialInv'
  OBVIOUS
<1>1. Inv /\ Inv' /\ EnabledRun /\ UNCHANGED site
  BY NextInv, SiteFixed DEF SerialInv
<1>2. ASSUME NEW p \in Appliers PROVE RunOnCourse(run[p])' /\ EnabledRun'
  <2>1. PICK r : r = run[p]
    OBVIOUS
  <2>2. PICK q : q = run'[p]
    OBVIOUS
  <2>3. Moves(r, q)
    BY <1>1, <2>1, <2>2, RunMoves
  <2>4. (IdleOK(r) \/ ActiveOK(r)) /\ RunOnCourse(r)
    BY <1>1, <2>1 DEF Inv, TypeInv, RunsOK, SerialInv
  <2>5. RunOnCourse(q)' /\ EnabledRun'
    BY <1>1, <2>3, <2>4, RunStays, EnabledStays
  <2> QED
    BY <2>2, <2>5 DEF RunOnCourse
<1>3. CASE Appliers # {}
  BY <1>1, <1>2, <1>3 DEF SerialInv
<1>4. CASE Appliers = {}
  <2>1. EnabledRun'
    BY <1>1, <1>4 DEF Next, vars, host, Reboot, EditConfig, ClearLock, Meddle, EnabledRun
  <2> QED
    BY <1>1, <1>4, <2>1 DEF SerialInv
<1> QED
  BY <1>3, <1>4

LEMMA SerialHolds ==
    ASSUME Alone
    PROVE  Spec => []SerialInv
<1>1. Init => SerialInv
  BY InitSerial
<1>2. SerialInv /\ [Next]_vars => SerialInv'
  BY NextSerial
<1> QED
  BY <1>1, <1>2, PTL DEF Spec

\* The one run, before and after a step.
LEMMA SerialStep ==
    ASSUME Alone, SerialInv, [Next]_vars, NEW p \in Appliers, NEW r, NEW q,
           r = run[p], q = run'[p]
    PROVE  /\ Moves(r, q) /\ RunOnCourse(r) /\ (IdleOK(r) \/ ActiveOK(r))
           /\ r.at \in Phases => ActiveOK(r)
           /\ \A s \in DOMAIN r.plan : r.at = "executing" => Underway(r, s)
<1>1. Inv
  BY DEF SerialInv
<1>2. Moves(r, q)
  BY <1>1, RunMoves
<1>3. RunOnCourse(r) /\ (IdleOK(r) \/ ActiveOK(r)) /\ HostOK
  BY <1>1 DEF Inv, TypeInv, RunsOK, SerialInv
<1>4. r.at \in Phases => ActiveOK(r)
  <2>1. IdleOK(r) => r.at = "idle"
    BY DEF IdleOK, Idle
  <2> QED
    BY <1>3, <2>1 DEF Phases
<1>5. \A s \in DOMAIN r.plan : r.at = "executing" => Underway(r, s)
  BY <1>3, <1>4 DEF RunOnCourse, Phases, Underway
<1> QED
  BY <1>2, <1>3, <1>4, <1>5

-----------------------------------------------------------------------------
(***************************************************************************)
(* What a single run promises                                              *)
(***************************************************************************)
LEMMA RollbackStep ==
    ASSUME Alone, SerialInv, [Next]_vars, NEW p \in Appliers,
           run[p].at = "restoring", run'[p] = Idle("failed")
    PROVE  LET old == run[p].before
           IN  /\ \A f \in UnitFiles : file[f] = old.file[f]
               /\ \A n \in Nodes :
                     /\ old.domain[n].def # Missing
                     /\ old.domain[n].live \in {Missing, old.domain[n].def}
                     /\ <<"dumpxml", n, 0>> \notin run[p].missed
                     => domain[n].def = old.domain[n].def
<1>1. PICK r : r = run[p]
  OBVIOUS
<1>2. PICK q : q = run'[p]
  OBVIOUS
<1>3. Moves(r, q) /\ RunOnCourse(r)
  BY <1>1, <1>2, SerialStep
<1>4. r.at = "restoring" /\ q = Idle("failed") /\ q.at = "idle" /\ q # Idle("none")
  BY <1>1, <1>2 DEF Idle
<1>5. r.undo = <<>>
  BY <1>3, <1>4 DEF Moves, Ended, Started, Shifted, Approved, TookBack, Advanced, FailedAt,
                    Rebooted, Elsewhere
<1>6. Rewinds(r) /\ \A t : ~Noted(r, t)
  BY <1>3, <1>4, <1>5 DEF RunOnCourse, Noted
<1>7. ASSUME NEW n \in Nodes, r.before.domain[n].def # Missing,
             r.before.domain[n].live \in {Missing, r.before.domain[n].def}, Read(r, n)
      PROVE  domain[n].def = r.before.domain[n].def
  BY <1>6, <1>7 DEF Rewinds, AwaitedRestart
<1>8. \A f \in UnitFiles : file[f] = r.before.file[f]
  BY <1>6 DEF Rewinds
<1> QED
  BY <1>1, <1>7, <1>8 DEF Read

(***************************************************************************)
(* A rollback that completes has put back the unit files and the persistent *)
(* definitions the run found, whichever operation failed, before or after  *)
(* its effect, and whichever other command of the inspection failed.       *)
(***************************************************************************)
THEOREM RollbackIsComplete ==
    ASSUME Alone
    PROVE  Spec => RollbackRestores
<1>1. SerialInv /\ [Next]_vars =>
        \A p \in Appliers :
          run[p].at = "restoring" /\ run'[p] = Idle("failed") =>
              LET old == run[p].before
              IN  /\ \A f \in UnitFiles : file[f] = old.file[f]
                  /\ \A n \in Nodes :
                        /\ old.domain[n].def # Missing
                        /\ old.domain[n].live \in {Missing, old.domain[n].def}
                        /\ <<"dumpxml", n, 0>> \notin run[p].missed
                        => domain[n].def = old.domain[n].def
  BY RollbackStep
<1>2. Spec => []SerialInv
  BY SerialHolds
<1> QED
  BY <1>1, <1>2, PTL DEF Spec, RollbackRestores

LEMMA RunningVmStep ==
    ASSUME Alone, SerialInv, [Next]_vars, NEW p \in Appliers, NEW n \in Nodes,
           run[p].at = "executing", domain[n].live # Missing, domain'[n].def # domain[n].def
    PROVE  "redefine" \in run[p].allow \/ Unnoticed(run[p], n)
<1>1. PICK r : r = run[p]
  OBVIOUS
<1>2. PICK q : q = run'[p]
  OBVIOUS
<1>3. Moves(r, q) /\ r.at = "executing"
  BY <1>1, <1>2, SerialStep
<1>4. PICK s \in DOMAIN r.plan : Advanced(r, q, s) \/ FailedAt(r, q, s)
  BY <1>3 DEF Moves, Ended, Started, Shifted, Approved, TookBack, Rebooted, Elsewhere, host
<1>5. Underway(r, s)
  BY <1>1, <1>2, <1>3, SerialStep
<1>6. UNCHANGED host \/ Effect(r.config, r.plan[s], s)
  BY <1>4 DEF Advanced, FailedAt
<1>7. s = Define(n)
  BY <1>5, <1>6, EffectTouches
<1>8. domain[n].def # Missing
  BY DEF SerialInv, Inv, TypeInv, HostOK, Domains
<1>9. s[1] = "define" /\ s[2] = n
  BY <1>7 DEF Define
<1>10. "redefine" \in r.allow \/ Unnoticed(r, n)
  BY <1>5, <1>8, <1>9, UnderwayFacts DEF Pending, Read, Unnoticed
<1> QED
  BY <1>1, <1>10

(***************************************************************************)
(* What the planner saw of a VM is still so when the plan is executed: no  *)
(* operation changes the definition of a running VM unless the operator    *)
(* allowed it, or dumpxml or domstate of that VM failed.                   *)
(***************************************************************************)
THEOREM RunningVmsAreKept ==
    ASSUME Alone
    PROVE  Spec => RunningVmsKept
<1>1. SerialInv /\ [Next]_vars =>
        \A p \in Appliers, n \in Nodes :
          /\ run[p].at = "executing" /\ lock = p
          /\ domain[n].live # Missing /\ domain'[n].def # domain[n].def
          => "redefine" \in run[p].allow \/ Unnoticed(run[p], n)
  BY RunningVmStep
<1>2. Spec => []SerialInv
  BY SerialHolds
<1> QED
  BY <1>1, <1>2, PTL DEF Spec, RunningVmsKept

\* An existing disk of a guest stays, and grows at most.
DiskKept(n) ==
    disk[n] # NoDisk /\ disk[n].used =>
        disk'[n] # NoDisk /\ disk'[n].used /\ disk'[n].size >= disk[n].size

LEMMA UsedDisk ==
    ASSUME HostOK, NEW n \in Nodes, disk[n] # NoDisk
    PROVE  /\ disk[n].size \in Nat
           /\ [disk[n] EXCEPT !.used = TRUE] # NoDisk
           /\ [disk[n] EXCEPT !.used = TRUE].used
           /\ [disk[n] EXCEPT !.used = TRUE].size = disk[n].size
           /\ \A k \in Nat : /\ [disk[n] EXCEPT !.size = k] # NoDisk
                             /\ [disk[n] EXCEPT !.size = k].used = disk[n].used
                             /\ [disk[n] EXCEPT !.size = k].size = k
<1>1. disk[n] \in Disks
  BY DEF HostOK
<1>2. [disk[n] EXCEPT !.used = TRUE] \in Disks
  BY <1>1 DEF Disks
<1>3. \A k \in Nat : [disk[n] EXCEPT !.size = k] \in Disks
  BY <1>1 DEF Disks
<1> QED
  BY <1>1, <1>2, <1>3, NoDiskAssumption DEF Disks

LEMMA MarkedDisk ==
    ASSUME HostOK, NEW n \in Nodes,
           \/ disk'[n] = disk[n]
           \/ disk[n] # NoDisk /\ disk'[n] = [disk[n] EXCEPT !.used = TRUE]
    PROVE  DiskKept(n)
<1>1. disk[n] # NoDisk => disk[n].size \in Nat
  BY UsedDisk
<1>2. CASE disk'[n] = disk[n]
  BY <1>1, <1>2 DEF DiskKept
<1>3. CASE disk[n] # NoDisk /\ disk'[n] = [disk[n] EXCEPT !.used = TRUE]
  BY <1>1, <1>3, UsedDisk DEF DiskKept
<1> QED
  BY <1>2, <1>3

LEMMA StartKeepsDisks ==
    ASSUME HostOK, NEW m \in Nodes, StartVm(m), NEW n \in Nodes
    PROVE  DiskKept(n)
<1>1. \/ disk'[n] = disk[n]
      \/ disk[n] # NoDisk /\ disk'[n] = [disk[n] EXCEPT !.used = TRUE]
  BY DEF StartVm, HostOK
<1> QED
  BY <1>1, MarkedDisk

LEMMA SameDisks ==
    ASSUME HostOK, UNCHANGED disk, NEW n \in Nodes
    PROVE  DiskKept(n)
BY MarkedDisk

LEMMA EffectKeepsDisks ==
    ASSUME NEW r, NEW s, Underway(r, s), UNCHANGED host \/ Effect(r.config, r.plan[s], s),
           NEW n \in Nodes
    PROVE  DiskKept(n)
<1> DEFINE c == r.config  op == r.plan[s]  m == s[2]
<1>1. HostOK
  BY DEF Underway
<1>2. CASE UNCHANGED disk
  BY <1>1, <1>2, SameDisks
<1>3. CASE OnDisk(c, op, m)
  <2>1. s[1] = "disk" /\ m \in Nodes /\ c.size[m] \in Nat
    <3>1. op \in {"create", "resize"}
      BY <1>3 DEF OnDisk
    <3>2. s[1] = "disk"
      BY <3>1, UnderwayFacts DEF Pending, FileKinds
    <3> QED
      BY <3>2, UnderwayFacts, StepParts DEF HostConfigs
  <2>2. CASE n # m
    <3>1. disk'[n] = disk[n]
      BY <1>1, <1>3, <2>2 DEF OnDisk, HostOK
    <3> QED
      BY <1>1, <3>1, UsedDisk DEF DiskKept
  <2>3. CASE n = m
    <3>1. \/ op = "create" /\ disk[n] = NoDisk
          \/ op = "resize" /\ disk[n] # NoDisk /\ disk[n].size < c.size[n]
      BY <2>1, <2>3, UnderwayFacts DEF Pending
    <3>2. CASE op = "resize" /\ disk[n] # NoDisk /\ disk[n].size < c.size[n]
      <4>1. disk'[n] = [disk[n] EXCEPT !.size = c.size[n]]
        BY <1>1, <1>3, <2>1, <2>3, <3>2 DEF OnDisk, HostOK
      <4> QED
        BY <1>1, <2>1, <2>3, <3>2, <4>1, UsedDisk DEF DiskKept
    <3> QED
      BY <3>1, <3>2 DEF DiskKept
  <2> QED
    BY <2>2, <2>3
<1>4. CASE OnDomain(op, m)
  <2>1. m \in Nodes
    BY <1>4, UnderwayFacts DEF OnDomain
  <2> QED
    BY <1>1, <1>2, <1>4, <2>1, StartKeepsDisks DEF OnDomain
<1> QED
  BY <1>2, <1>3, <1>4 DEF Effect, OnFiles, OnUnits, host

LEMMA DisksStep ==
    ASSUME Alone, SerialInv, [Next]_vars, NEW n \in Nodes
    PROVE  DiskKept(n)
<1>1. HostOK
  BY DEF SerialInv, Inv, TypeInv
<1>2. CASE UNCHANGED disk
  BY <1>1, <1>2, SameDisks
<1>3. ASSUME NEW p \in Appliers, Execute(p) \/ ExecuteFails(p) PROVE DiskKept(n)
  <2>1. PICK r : r = run[p]
    OBVIOUS
  <2>2. PICK s \in DOMAIN r.plan : UNCHANGED host \/ Effect(r.config, r.plan[s], s)
    BY <1>3, <2>1 DEF Execute, ExecuteFails
  <2>3. Underway(r, s)
    <3>1. r.at = "executing"
      BY <1>3, <2>1 DEF Execute, ExecuteFails
    <3> QED
      BY <2>1, <3>1, SerialStep
  <2> QED
    BY <2>2, <2>3, EffectKeepsDisks
<1>4. ASSUME NEW p \in Appliers, Starts(p) \/ Faulty(p) PROVE UNCHANGED disk
  BY <1>4 DEF Starts, Begin, Faulty, AcquireFails, RestoreFails, CommitFails, VerifyFails, Kill,
              host
<1>5. ASSUME NEW p \in Appliers,
             \/ Acquire(p) \/ Check(p) \/ Restore(p) \/ Restored(p) \/ Commit(p) \/ Verify(p)
      PROVE  UNCHANGED disk
  BY <1>5 DEF Acquire, Check, Restore, Restored, Commit, Verify, host
<1>6. CASE Reboot
  <2>1. \/ disk'[n] = disk[n]
        \/ disk[n] # NoDisk /\ disk'[n] = [disk[n] EXCEPT !.used = TRUE]
    <3>1. disk' = [m \in Nodes |-> IF disk[m] # NoDisk /\ domain[m].autostart
                                   THEN [disk[m] EXCEPT !.used = TRUE] ELSE disk[m]]
      BY <1>6 DEF Reboot
    <3> QED
      BY <3>1
  <2> QED
    BY <1>1, <2>1, MarkedDisk
<1>7. ASSUME NEW m \in Nodes, Meddle(m) PROVE DiskKept(n)
  BY <1>1, <1>2, <1>7, StartKeepsDisks DEF Meddle
<1>8. CASE EditConfig \/ ClearLock \/ UNCHANGED vars
  BY <1>2, <1>8 DEF EditConfig, ClearLock, vars, host
<1> QED
  BY <1>2, <1>3, <1>4, <1>5, <1>6, <1>7, <1>8 DEF Next, Work

(***************************************************************************)
(* No operation, no failure and no reboot replaces or shrinks the root     *)
(* disk a guest has booted from: between the inspection and the operation  *)
(* the disk of a node does not appear or grow behind the planner's back.   *)
(***************************************************************************)
THEOREM RootDisksAreKept ==
    ASSUME Alone
    PROVE  Spec => RootDisksKept
<1>1. SerialInv /\ [Next]_vars =>
        \A n \in Nodes :
          disk[n] # NoDisk /\ disk[n].used =>
              disk'[n] # NoDisk /\ disk'[n].used /\ disk'[n].size >= disk[n].size
  BY DisksStep DEF DiskKept
<1>2. Spec => []SerialInv
  BY SerialHolds
<1> QED
  BY <1>1, <1>2, PTL DEF Spec, RootDisksKept

\* A run whose plan is executed: everything the plan was for is there.
Finished(r) == /\ HostOK /\ ActiveOK(r) /\ HalfWay(r) /\ DOMAIN r.plan = {}

LEMMA FinishedFacts ==
    ASSUME NEW r, Finished(r)
    PROVE  /\ r.config \in HostConfigs /\ r.starts \in BOOLEAN
           /\ \A s \in Steps(r.config, r.starts) : ToolsFound(s) /\ Done(r, s)
           /\ \A u \in UnitsOf(r.config) : /\ file[Unit(u)] = r.config.want[Unit(u)]
                                           /\ u \in enabled /\ running[u] # Missing
           /\ \A n \in Nodes : \/ domain[n].def = r.config.want[Xml(n)]
                               \/ /\ AwaitedRestart(r, n)
                                  /\ domain[n].live = r.config.want[Xml(n)]
<1>1. r.config \in HostConfigs /\ r.starts \in BOOLEAN
  BY ConfigsAssumption DEF Finished, ActiveOK
<1>2. \A s \in Steps(r.config, r.starts) : ToolsFound(s) /\ Done(r, s)
  BY DEF Finished, HalfWay
<1>3. ASSUME NEW u \in UnitsOf(r.config)
      PROVE  file[Unit(u)] = r.config.want[Unit(u)] /\ u \in enabled /\ running[u] # Missing
  <2>1. /\ Unit(u) \in Steps(r.config, r.starts) /\ Unit(u)[1] = "unit"
        /\ Daemon(u) \in Steps(r.config, r.starts) /\ Daemon(u)[1] = "daemon"
    BY DEF Steps, UnitSteps, Unit, Daemon
  <2>2. UnitOf(Daemon(u)) = u
    BY DEF UnitsOf, Units, UnitOf, Daemon
  <2>3. file[Unit(u)] = r.config.want[Unit(u)]
    BY <1>2, <2>1 DEF Done, FileKinds
  <2> QED
    BY <1>2, <2>1, <2>2, <2>3 DEF Done
<1>4. ASSUME NEW n \in Nodes
      PROVE  \/ domain[n].def = r.config.want[Xml(n)]
             \/ AwaitedRestart(r, n) /\ domain[n].live = r.config.want[Xml(n)]
  <2>1. Define(n) \in Steps(r.config, r.starts) /\ Define(n)[1] = "define" /\ Define(n)[2] = n
    BY DEF Steps, NodeSteps, Define
  <2> QED
    BY <1>2, <2>1 DEF Done
<1> QED
  BY <1>1, <1>2, <1>3, <1>4

LEMMA FinishedSkips ==
    ASSUME NEW r, Finished(r), NEW s \in Steps(r.config, r.starts), NEW P,
           P = PlanFor(r.config, Files, {}, r.allow, r.starts)
    PROVE  P[s] = "skip" \/ (s[1] = "define" /\ AwaitsRestart(s[2]))
<1> DEFINE c == r.config  a == Seen(Files, {})  n == s[2]
<1>1. s \in DOMAIN P /\ P[s] = Decision(c, a, r.allow, s)
  BY DEF PlanFor, Plan
<1>2. c \in HostConfigs /\ r.starts \in BOOLEAN /\ ToolsFound(s) /\ Done(r, s) /\ HostOK
  BY FinishedFacts DEF Finished
<1>3. a.tools = site.tools /\ a.disk = disk /\ a.enabled = enabled
  BY <1>2, SeenAll
<1>4. ChangedUnits(c, a) = {}
  <2>1. \A u \in UnitsOf(c) : u \in Units /\ Unit(u) \in Files
    BY DEF UnitsOf, Files, UnitFiles
  <2> QED
    BY <1>2, <2>1, FinishedFacts, SeenAll DEF ChangedUnits, Changes
<1>5. CASE s[1] \in FileKinds
  <2>1. P[s] = FileDecision(c, a, s)
    BY <1>1, <1>5 DEF Decision, FileKinds
  <2>2. s \in Files /\ file[s] = c.want[s]
    BY <1>2, <1>5, StepParts DEF Done
  <2> QED
    BY <1>2, <2>1, <2>2, SeenAll DEF FileDecision, Changes
<1>6. CASE s[1] = "disk"
  <2>1. P[s] = DiskDecision(c, a, n)
    BY <1>1, <1>6 DEF Decision
  <2>2. disk[n] # NoDisk /\ ~disk[n].foreign /\ disk[n].size = c.size[n] /\ c.size[n] \in Nat
    BY <1>2, <1>6, StepParts DEF Done, HostConfigs
  <2>3. P[s] = ExistingDiskDecision(c, a, n)
    BY <1>2, <1>3, <1>6, <2>1, <2>2 DEF DiskDecision, ToolsFound
  <2> QED
    BY <1>3, <2>2, <2>3 DEF ExistingDiskDecision
<1>7. CASE s[1] = "reload"
  <2>1. P[s] = ReloadDecision(c, a)
    BY <1>1, <1>7 DEF Decision
  <2> QED
    BY <1>2, <1>3, <1>4, <1>7, <2>1 DEF ReloadDecision, ToolsFound
<1>8. CASE s[1] = "daemon"
  <2>1. P[s] = DaemonDecision(c, a, UnitOf(s))
    BY <1>1, <1>8 DEF Decision, UnitOf
  <2>2. UnitOf(s) \in enabled /\ UnitOf(s) \in a.active
    BY <1>2, <1>8, StepParts, SeenAll DEF Done
  <2> QED
    BY <1>2, <1>3, <1>4, <1>8, <2>1, <2>2 DEF DaemonDecision, ToolsFound
<1>9. CASE s[1] = "define"
  <2>1. P[s] = DefineDecision(c, a, r.allow, n)
    BY <1>1, <1>9 DEF Decision
  <2>2. n \in Nodes /\ a.domain[n].hash = Shown(domain[n])
    BY <1>2, <1>9, StepParts, SeenAll
  <2>3. c.want[Xml(n)] \in Contents /\ c.want[Xml(n)] # Missing
    BY <1>2, <2>2 DEF HostConfigs, NodeFiles, Files
  <2>4. c.want[Xml(n)] # Foreign
    BY <2>3, ContentsAssumption DEF Contents
  <2>5. \/ domain[n].def = c.want[Xml(n)]
        \/ domain[n].live = c.want[Xml(n)]
    BY <2>2, FinishedFacts
  <2>6. Shown(domain[n]) = c.want[Xml(n)] \/ AwaitsRestart(n)
    BY <2>3, <2>5 DEF Shown, AwaitsRestart
  <2>7. Shown(domain[n]) = c.want[Xml(n)] => P[s] = "skip"
    BY <1>2, <1>3, <1>9, <2>1, <2>2, <2>3, <2>4 DEF DefineDecision, ToolsFound
  <2> QED
    BY <1>9, <2>6, <2>7
<1>10. CASE s[1] \in {"autostart", "start"}
  <2>1. /\ n \in Nodes
        /\ a.domain[n].active <=> domain[n].live # Missing
        /\ a.domain[n].autostart = domain[n].autostart
    BY <1>2, <1>10, StepParts, SeenAll
  <2>2. \E done : done /\ P[s] = FlagDecision(a, done, s[1])
    BY <1>1, <1>2, <1>10, <2>1 DEF Decision, Done
  <2> QED
    BY <1>2, <1>3, <1>10, <2>2 DEF FlagDecision, ToolsFound
<1> QED
  BY <1>2, <1>5, <1>6, <1>7, <1>8, <1>9, <1>10, StepType DEF FileKinds

LEMMA ExecutedFinished ==
    ASSUME SerialInv, NEW p \in Appliers, Executed(p)
    PROVE  Finished(run[p]) /\ RunOnCourse(run[p])
<1>1. run[p].at \in Phases /\ RunOnCourse(run[p]) /\ Inv
  BY DEF Executed, Phases, SerialInv
<1>2. ActiveOK(run[p])
  BY <1>1, InProgress DEF Inv, TypeInv
<1> QED
  BY <1>1, <1>2 DEF Finished, Executed, RunOnCourse, Inv, TypeInv

LEMMA ExecutedSettles == SerialInv => ExecutedIsConverged
<1> SUFFICES ASSUME SerialInv, NEW p \in Appliers, Executed(p)
             PROVE  LET r == run[p] IN Settled(PlanFor(r.config, Files, {}, r.allow, r.starts))
  BY DEF ExecutedIsConverged
<1>1. PICK r : r = run[p]
  OBVIOUS
<1>2. PICK P : P = PlanFor(r.config, Files, {}, r.allow, r.starts)
  OBVIOUS
<1>3. DOMAIN P = Steps(r.config, r.starts)
  BY <1>2 DEF PlanFor, Plan
<1>4. \A s \in DOMAIN P : P[s] = "skip" \/ (s[1] = "define" /\ AwaitsRestart(s[2]))
  BY <1>1, <1>2, <1>3, ExecutedFinished, FinishedSkips
<1> QED
  BY <1>1, <1>2, <1>4 DEF Settled

(***************************************************************************)
(* An executed plan leaves nothing to plan: whatever the run found, skipped *)
(* or did, planning again skips every step, but for the definition of a VM *)
(* that is waiting for its restart.                                        *)
(***************************************************************************)
THEOREM ExecutedRunsConverge ==
    ASSUME Alone
    PROVE  Spec => []ExecutedIsConverged
<1>1. Spec => []SerialInv
  BY SerialHolds
<1> QED
  BY <1>1, ExecutedSettles, PTL

-----------------------------------------------------------------------------
(***************************************************************************)
(* What the daemons serve                                                  *)
(***************************************************************************)
\* The operations a plan is about to execute can only fail for the disk of a
\* running VM or a missing directory: the rest was prepared by the plan.
LEMMA OnlyDisksWait ==
    ASSUME NEW r, NEW s, Underway(r, s), IsNext(r, s), ~ReadyFor(r, s), r.missed = {}
    PROVE  s[1] = "disk"
<1> DEFINE c == r.config  op == r.plan[s]  n == s[2]
<1>1. \A t \in Steps(c, r.starts) : t \notin DOMAIN r.plan => Done(r, t)
  BY DEF Underway, HalfWay
<1>2. c \in HostConfigs /\ r.starts \in BOOLEAN /\ DOMAIN r.plan \subseteq Steps(c, r.starts)
      /\ s \in DOMAIN r.plan
  BY UnderwayFacts DEF Underway
<1>3. ASSUME NEW m \in Nodes, s[1] \notin EarlyKinds
      PROVE  /\ file[Xml(m)] # Missing
             /\ disk[m] # NoDisk
  <2>1. \A t \in DOMAIN r.plan : t[1] \notin EarlyKinds
    BY <1>2, <1>3, NextInOrder
  <2>2. /\ Xml(m) \in Steps(c, r.starts) /\ Xml(m)[1] = "xml"
        /\ <<"disk", m, 0>> \in Steps(c, r.starts)
    BY DEF Steps, NodeSteps, Xml
  <2>3. Done(r, Xml(m)) /\ Done(r, <<"disk", m, 0>>)
    BY <1>1, <2>1, <2>2 DEF EarlyKinds
  <2>4. c.want[Xml(m)] # Missing
    BY <1>2 DEF HostConfigs, NodeFiles
  <2> QED
    BY <2>2, <2>3, <2>4 DEF Done, FileKinds
<1>4. ASSUME s[1] \in {"autostart", "start"}
      PROVE  domain[n].def # Missing
  <2>1. n \in Nodes /\ Define(n) \in Steps(c, r.starts)
    BY <1>2, <1>4, StepParts DEF Steps, NodeSteps, Define
  <2>2. \A t \in DOMAIN r.plan : t # Define(n)
    BY <1>2, <1>4, NextInOrder
  <2>3. Done(r, Define(n)) /\ Define(n)[1] = "define" /\ Define(n)[2] = n
    BY <1>1, <2>1, <2>2 DEF Define
  <2> QED
    BY <2>3 DEF Done
<1>5. ASSUME s[1] = "start", NEW v \in UnitsOf(c) PROVE running[v] # Missing
  <2>1. Daemon(v) \in Steps(c, r.starts) /\ Daemon(v)[1] = "daemon" /\ UnitOf(Daemon(v)) = v
    BY DEF Steps, UnitSteps, Daemon, UnitOf, UnitsOf, Units
  <2>2. \A t \in DOMAIN r.plan : t[1] # "daemon"
    BY <1>2, <1>5, NextInOrder
  <2>3. Done(r, Daemon(v))
    BY <1>1, <2>1, <2>2
  <2> QED
    BY <2>1, <2>3 DEF Done
<1>6. Pending(r, s) /\ s[1] \in {"xml", "dir", "disk", "seed", "define", "autostart", "start",
                                 "unit", "daemon", "reload"}
  BY UnderwayFacts
<1>7. CASE s[1] = "define"
  <2>1. op \in {"define", "redefine"} /\ n \in Nodes
    BY <1>2, <1>6, <1>7, StepParts DEF Pending
  <2> QED
    BY <1>3, <1>7, <2>1 DEF ReadyFor, Ready, EarlyKinds
<1>8. CASE s[1] = "autostart"
  <2>1. op = "autostart"
    BY <1>6, <1>8 DEF Pending
  <2> QED
    BY <1>4, <1>8, <2>1 DEF ReadyFor, Ready
<1>9. CASE s[1] = "start"
  <2>1. op = "start" /\ domain[n].live = Missing /\ n \in Nodes
    BY <1>2, <1>6, <1>9, StepParts DEF Pending, Unnoticed
  <2> QED
    BY <1>3, <1>4, <1>5, <1>9, <2>1 DEF ReadyFor, Ready, EarlyKinds
<1>10. CASE s[1] \in {"xml", "dir", "seed", "unit", "daemon", "reload"}
  <2>1. op \in {"write", "reload", "enable", "restart"}
    BY <1>6, <1>10 DEF Pending, FileKinds
  <2> QED
    BY <2>1 DEF ReadyFor, Ready
<1> QED
  BY <1>6, <1>7, <1>8, <1>9, <1>10

\* What an operation does to the units of the run.
LEMMA UnitsAfter ==
    ASSUME NEW r, NEW s, Underway(r, s), IsNext(r, s), Effect(r.config, r.plan[s], s),
           r.missed = {}
    PROVE  \/ /\ s[1] \notin {"reload", "daemon"} /\ UNCHANGED <<loaded, enabled, running>>
           \/ /\ s = Reload /\ loaded' = ReadUnits /\ UNCHANGED <<file, enabled, running>>
           \/ /\ s[1] = "daemon" /\ s = Daemon(UnitOf(s)) /\ r.plan[s] = "enable"
              /\ UnitOf(s) \in UnitsOf(r.config) /\ Reload \notin DOMAIN r.plan
              /\ running[UnitOf(s)] = Missing
              /\ running' = [running EXCEPT ![UnitOf(s)] = file[Unit(UnitOf(s))]]
              /\ loaded' = ReadUnits /\ UNCHANGED file
           \/ /\ s[1] = "daemon" /\ s = Daemon(UnitOf(s)) /\ r.plan[s] = "restart"
              /\ UnitOf(s) \in UnitsOf(r.config) /\ Reload \notin DOMAIN r.plan
              /\ running' = [running EXCEPT ![UnitOf(s)] = loaded[UnitOf(s)]]
              /\ UNCHANGED <<file, loaded>>
<1> DEFINE c == r.config  op == r.plan[s]  u == UnitOf(s)
<1>1. OnFiles(c, op, s) \/ OnDisk(c, op, s[2]) \/ OnUnits(op, u) \/ OnDomain(op, s[2])
  BY DEF Effect, UnitOf
<1>2. /\ s[1] \in FileKinds => op = "write"
      /\ s[1] = "disk" => op \in {"create", "resize"}
      /\ s[1] = "reload" => op = "reload"
      /\ s[1] = "daemon" => op \in {"enable", "restart"}
      /\ s[1] = "define" => op \in {"define", "redefine"}
      /\ s[1] \in {"autostart", "start"} => op = s[1]
  BY UnderwayFacts DEF Pending
<1>3. s[1] \in {"xml", "dir", "disk", "seed", "define", "autostart", "start", "unit",
                "daemon", "reload"}
  BY UnderwayFacts
<1>4. /\ OnFiles(c, op, s) => op = "write" /\ UNCHANGED <<loaded, enabled, running>>
      /\ OnDisk(c, op, s[2]) => op \in {"create", "resize"} /\ UNCHANGED <<loaded, enabled, running>>
      /\ OnDomain(op, s[2]) => /\ op \in {"define", "redefine", "autostart", "start"}
                               /\ UNCHANGED <<loaded, enabled, running>>
      /\ OnUnits(op, u) => op \in {"reload", "enable", "restart"}
  BY DEF OnFiles, OnDisk, OnUnits, OnDomain
<1>5. CASE s[1] = "reload"
  <2>1. s = Reload
    BY <1>5, UnderwayFacts, StepNumbers
  <2>2. OnUnits("reload", u)
    BY <1>1, <1>2, <1>4, <1>5
  <2> QED
    BY <2>1, <2>2 DEF OnUnits
<1>6. CASE s[1] = "daemon"
  <2>1. s = Daemon(u) /\ u \in UnitsOf(c)
    BY <1>6, UnderwayFacts, StepParts
  <2>2. Reload \notin DOMAIN r.plan
    BY <1>6, UnderwayFacts, NextInOrder DEF Underway, Reload
  <2>3. OnUnits(op, u)
    BY <1>1, <1>2, <1>4, <1>6
  <2>4. CASE op = "enable"
    <3>1. running[u] = Missing
      BY <1>6, <2>4, UnderwayFacts DEF Pending, Unheard
    <3>2. /\ loaded' = ReadUnits /\ UNCHANGED file
          /\ running' = [running EXCEPT ![u] = file[Unit(u)]]
      BY <2>3, <2>4, <3>1 DEF OnUnits
    <3> QED
      BY <1>6, <2>1, <2>2, <2>4, <3>1, <3>2
  <2>5. CASE op = "restart"
    <3>1. UNCHANGED <<file, loaded>> /\ running' = [running EXCEPT ![u] = loaded[u]]
      BY <2>3, <2>5 DEF OnUnits
    <3> QED
      BY <1>6, <2>1, <2>2, <2>5, <3>1
  <2> QED
    BY <1>2, <1>6, <2>4, <2>5
<1>7. CASE s[1] \notin {"reload", "daemon"}
  <2>1. ~OnUnits(op, u)
    BY <1>2, <1>3, <1>4, <1>7 DEF FileKinds
  <2> QED
    BY <1>1, <1>4, <1>7, <2>1
<1> QED
  BY <1>5, <1>6, <1>7

\* A run that did not learn everything is one whose inspection failed.
Whole(r) == r.at = "idle" \/ r.missed = {} \/ faults["inspect"] > 0

LEMMA WholeStays ==
    ASSUME NEW r, NEW q, Moves(r, q), FaultsGrow, Whole(r)
    PROVE  Whole(q)'
<1>1. faults["inspect"] > 0 => faults'["inspect"] > 0
  BY FaultKindsAssumption DEF FaultsGrow
<1>2. CASE Ended(r, q) \/ Rebooted(q)
  BY <1>2 DEF Ended, Rebooted, Idle, Whole
<1>3. CASE Started(r, q)
  BY <1>3 DEF Started, Whole
<1>4. CASE Elsewhere(r, q)
  BY <1>1, <1>4 DEF Elsewhere, Whole
<1>5. CASE r.at # "idle" /\ q.missed = r.missed
  BY <1>1, <1>5 DEF Whole
<1>6. /\ Shifted(r, q) \/ Approved(r, q) \/ TookBack(r, q)
            => r.at # "idle" /\ q.missed = r.missed
      /\ \A s \in DOMAIN r.plan :
            Advanced(r, q, s) \/ FailedAt(r, q, s) => r.at # "idle" /\ q.missed = r.missed
  BY DEF Shifted, Approved, TookBack, Advanced, FailedAt, SameRun
<1> QED
  BY <1>2, <1>3, <1>4, <1>5, <1>6 DEF Moves

\* No run was killed, and no operation or inspection failed.
Smooth == faults["crash"] = 0 /\ faults["fail"] = 0 /\ faults["inspect"] = 0

\* Every daemon that runs serves its unit file, and systemd has read it.
Serving == \A u \in Units : /\ running[u] \in {Missing, file[Unit(u)]}
                            /\ loaded[u] = file[Unit(u)]

\* But for what the run is about to do: it restarts no daemon that serves what
\* the configuration asks for.
Catching(r) ==
    /\ r.undo = <<>> => Serving
    /\ \A u \in Units : IF RestartPending(r, u)
                        THEN running[u] # r.config.want[Unit(u)]
                        ELSE running[u] \in {Missing, file[Unit(u)]}
    /\ Reload \in DOMAIN r.plan \/ \A u \in Units : loaded[u] = file[Unit(u)]

SmoothRun(r) ==
    Smooth => IF r.at = "executing" THEN Catching(r)
              ELSE Serving /\ (r.at = "restoring" => r.undo = <<>>)

\* What a step leaves of the plan and of the notes.
LEMMA AfterStep ==
    ASSUME NEW r, NEW s, Underway(r, s), NEW q, Advanced(r, q, s)
    PROVE  /\ q.config = r.config
           /\ DOMAIN q.plan = DOMAIN r.plan \ {s}
           /\ q.undo = <<>> => r.undo = <<>> /\ s[1] # "unit"
           /\ \A u \in Units : s # Daemon(u) => (RestartPending(q, u) <=> RestartPending(r, u))
           /\ ~RestartPending(q, UnitOf(s)) \/ s # Daemon(UnitOf(s))
<1>1. q.config = r.config /\ q.plan = [t \in DOMAIN r.plan \ {s} |-> r.plan[t]]
      /\ q.undo = Staged(r, r.plan[s], s)
  BY DEF Advanced, SameRun
<1>2. q.undo = <<>> => r.undo = <<>>
  <2>1. \/ q.undo = r.undo
        \/ Len(q.undo) = Len(r.undo) + 1 /\ Len(r.undo) \in Nat
    BY <1>1, StagedNotes
  <2> QED
    BY <2>1
<1>3. s[1] = "unit" => q.undo # <<>>
  <2>1. s[1] = "unit" => q.undo = Append(r.undo, [step |-> s, old |-> file[s]])
    BY <1>1, UnderwayFacts DEF Staged
  <2>2. r.undo \in Seq(Undos)
    BY UnderwayFacts
  <2> QED
    BY <2>1, <2>2
<1> QED
  BY <1>1, <1>2, <1>3 DEF RestartPending

LEMMA AdvancedCatches ==
    ASSUME NEW r, NEW s, Underway(r, s), NEW q, Advanced(r, q, s), Catching(r), r.missed = {}
    PROVE  Catching(q)'
<1> DEFINE c == r.config  u == UnitOf(s)
<1>1. IsNext(r, s) /\ Effect(c, r.plan[s], s) /\ HostOK
  BY DEF Advanced, Underway
<1>2. /\ q.config = c /\ DOMAIN q.plan = DOMAIN r.plan \ {s}
      /\ q.undo = <<>> => r.undo = <<>> /\ s[1] # "unit"
      /\ \A v \in Units : s # Daemon(v) => (RestartPending(q, v) <=> RestartPending(r, v))
      /\ ~RestartPending(q, u) \/ s # Daemon(u)
  BY AfterStep
<1>3. running \in [Units -> Contents]
  BY <1>1 DEF HostOK
<1>4. CASE s[1] = "unit"
  <2>1. UNCHANGED <<loaded, enabled, running>>
    BY <1>1, <1>4, UnitsAfter DEF Reload
  <2>2. u \in Units /\ s = Unit(u)
    BY <1>4, UnderwayFacts, StepParts
  <2>3. \A v \in Units : s # Daemon(v)
    BY <1>4 DEF Daemon
  <2>4. \A v \in Units \ {u} : file'[Unit(v)] = file[Unit(v)]
    <3>1. \A v \in Units \ {u} : Unit(v) \in Files /\ Unit(v) # s
      BY <2>2 DEF Files, UnitFiles, Unit, Units
    <3> QED
      BY <1>1, <3>1, EffectTouches
  <2>5. RestartPending(q, u) \/ running[u] = Missing
    <3>1. Daemon(u) \in DOMAIN r.plan /\ Daemon(u)[1] = "daemon" /\ UnitOf(Daemon(u)) = u
      BY <2>2 DEF Underway, Recording, Daemon, UnitOf, Units
    <3>2. Pending(r, Daemon(u))
      BY <3>1, UnderwayFacts DEF Underway, HalfWay
    <3>3. r.plan[Daemon(u)] = "restart" \/ running[u] = Missing
      BY <3>1, <3>2 DEF Pending, Unheard
    <3> QED
      BY <1>2, <2>2, <2>3, <3>1, <3>3 DEF RestartPending
  <2>6. Reload \in DOMAIN q.plan
    <3>1. Reload \in DOMAIN r.plan /\ Reload # s
      BY <1>4, UnderwayFacts DEF Pending, Reload
    <3> QED
      BY <1>2, <3>1
  <2>7. ASSUME NEW v \in Units
        PROVE  IF RestartPending(q, v) THEN running'[v] # c.want[Unit(v)]
               ELSE running'[v] \in {Missing, file'[Unit(v)]}
    <3>1. CASE v = u
      BY <1>2, <2>1, <2>3, <2>5, <3>1 DEF Catching
    <3>2. CASE v # u
      BY <1>2, <2>1, <2>3, <2>4, <3>2 DEF Catching
    <3> QED
      BY <3>1, <3>2
  <2> QED
    BY <1>2, <1>4, <2>6, <2>7 DEF Catching, RestartPending
<1>5. CASE s[1] # "unit"
  <2>1. \A v \in Units : file'[Unit(v)] = file[Unit(v)]
    <3>1. \A v \in Units : Unit(v) \in Files /\ Unit(v) # s
      BY <1>5 DEF Files, UnitFiles, Unit
    <3> QED
      BY <1>1, <3>1, EffectTouches
  <2>2. CASE UNCHANGED <<loaded, running>> /\ s # Reload /\ s[1] # "daemon"
    <3>1. \A v \in Units : s # Daemon(v)
      BY <2>2 DEF Daemon
    <3> QED
      BY <1>2, <2>1, <2>2, <3>1 DEF Catching, Serving, RestartPending
  <2>3. CASE s = Reload /\ loaded' = ReadUnits /\ UNCHANGED <<file, enabled, running>>
    <3>1. \A v \in Units : s # Daemon(v)
      BY <2>3 DEF Daemon, Reload
    <3>2. \A v \in Units : loaded'[v] = file'[Unit(v)]
      BY <2>3 DEF ReadUnits
    <3> QED
      BY <1>2, <2>1, <2>3, <3>1, <3>2 DEF Catching, Serving, RestartPending
  <2>4. ASSUME s[1] = "daemon", s = Daemon(u), u \in UnitsOf(c), Reload \notin DOMAIN r.plan,
               running' = [running EXCEPT ![u] = file[Unit(u)]],
               \A v \in Units : loaded'[v] = file'[Unit(v)]
        PROVE  Catching(q)'
    <3>1. u \in Units /\ \A v \in Units \ {u} : s # Daemon(v)
      BY <2>4 DEF UnitsOf, Daemon, Units
    <3>2. running'[u] = file'[Unit(u)] /\ ~RestartPending(q, u)
      BY <1>2, <1>3, <2>1, <2>4, <3>1
    <3>3. \A v \in Units \ {u} : running'[v] = running[v]
      BY <1>3, <2>4
    <3>4. ASSUME NEW v \in Units
          PROVE  IF RestartPending(q, v) THEN running'[v] # c.want[Unit(v)]
                 ELSE running'[v] \in {Missing, file'[Unit(v)]}
      <4>1. CASE v = u
        BY <3>2, <4>1
      <4>2. CASE v # u
        BY <1>2, <2>1, <3>1, <3>3, <4>2 DEF Catching
      <4> QED
        BY <4>1, <4>2
    <3>5. r.undo = <<>> => \A v \in Units : running'[v] \in {Missing, file'[Unit(v)]}
      BY <2>1, <3>2, <3>3 DEF Catching, Serving
    <3> QED
      BY <1>2, <2>4, <3>4, <3>5 DEF Catching, Serving, RestartPending
  <2>5. CASE r.plan[s] = "enable" /\ s[1] = "daemon"
    BY <1>1, <2>4, <2>5, UnitsAfter DEF ReadUnits, Reload
  <2>6. CASE r.plan[s] = "restart" /\ s[1] = "daemon"
    <3>1. /\ s = Daemon(u) /\ u \in UnitsOf(c) /\ Reload \notin DOMAIN r.plan
          /\ running' = [running EXCEPT ![u] = loaded[u]] /\ UNCHANGED <<file, loaded>>
      BY <1>1, <2>6, UnitsAfter DEF Reload
    <3>2. \A v \in Units : loaded[v] = file[Unit(v)]
      BY <3>1 DEF Catching
    <3>3. u \in Units
      BY <3>1 DEF UnitsOf
    <3> QED
      BY <2>4, <2>6, <3>1, <3>2, <3>3
  <2>7. \/ s[1] \notin {"reload", "daemon"} /\ UNCHANGED <<loaded, running>>
        \/ s = Reload /\ loaded' = ReadUnits /\ UNCHANGED <<file, enabled, running>>
        \/ s[1] = "daemon" /\ r.plan[s] \in {"enable", "restart"}
    BY <1>1, UnitsAfter
  <2>8. s[1] \notin {"reload", "daemon"} => s # Reload
    BY DEF Reload
  <2> QED
    BY <2>2, <2>3, <2>5, <2>6, <2>7, <2>8
<1> QED
  BY <1>4, <1>5

LEMMA SmoothStays ==
    ASSUME Inv, NEW r, NEW q, Moves(r, q), r.at \in Phases => ActiveOK(r), RunOnCourse(r),
           \A s \in DOMAIN r.plan : r.at = "executing" => Underway(r, s),
           FaultsGrow, Whole(r), SmoothRun(r)
    PROVE  SmoothRun(q)'
<1> SUFFICES ASSUME faults'["crash"] = 0, faults'["fail"] = 0, faults'["inspect"] = 0
             PROVE  IF q.at = "executing" THEN Catching(q)'
                    ELSE Serving' /\ (q.at = "restoring" => q.undo = <<>>)
  BY DEF SmoothRun, Smooth
<1>1. Smooth
  BY FaultKindsAssumption DEF FaultsGrow, Smooth
<1>0. r.at = "executing" => r.missed = {}
  BY <1>1 DEF Whole, Smooth
<1>2. IF r.at = "executing" THEN Catching(r) ELSE Serving /\ (r.at = "restoring" => r.undo = <<>>)
  BY <1>1 DEF SmoothRun
<1>3. r.at = "executing" /\ DOMAIN r.plan = {} => Serving
  BY <1>2 DEF Catching, RestartPending, Serving
<1>4. ASSUME UNCHANGED host PROVE Serving => Serving'
  BY <1>4 DEF host, Serving
<1>5. CASE Ended(r, q)
  <2>1. q.at = "idle" /\ Serving
    BY <1>2, <1>3, <1>5 DEF Ended, Idle
  <2> QED
    BY <1>4, <1>5, <2>1 DEF Ended
<1>6. CASE Started(r, q)
  BY <1>2, <1>4, <1>6 DEF Started
<1>7. CASE Shifted(r, q)
  BY <1>2, <1>3, <1>4, <1>7 DEF Shifted
<1>8. CASE Approved(r, q)
  <2>1. Serving /\ UNCHANGED host /\ PlanCurrent(r) /\ HostOK /\ ActiveOK(r)
    BY <1>2, <1>8 DEF Approved, RunOnCourse, Inv, TypeInv, Phases
  <2>2. ASSUME NEW u \in Units, RestartPending(q, u) PROVE running[u] # q.config.want[Unit(u)]
    <3>1. PICK P : P = PlanFor(q.config, Files, q.missed, q.allow, q.starts)
      OBVIOUS
    <3>2. r.plan = P /\ ~HasRefusals(P) /\ q.plan = [s \in ToApply(P) |-> P[s]]
          /\ q.config \in HostConfigs /\ q.starts \in BOOLEAN
      BY <1>8, <2>1, <3>1, ConfigsAssumption DEF Approved, PlanCurrent, ActiveOK
    <3>3. file[Unit(u)] # q.config.want[Unit(u)]
      BY <2>1, <2>2, <3>1, <3>2, DaemonPlanned
    <3>4. q.config.want[Unit(u)] # Missing
      <4>1. Daemon(u) \in Steps(q.config, q.starts)
        BY <2>2, <3>1, <3>2 DEF RestartPending, ToApply, PlanFor, Plan
      <4>2. Daemon(u)[1] = "daemon" /\ UnitOf(Daemon(u)) = u
        BY DEF Daemon, UnitOf, Units
      <4> QED
        BY <3>2, <4>1, <4>2, StepParts DEF UnitsOf
    <3> QED
      BY <2>1, <3>3, <3>4 DEF Serving
  <2>3. Catching(q)
    BY <2>1, <2>2 DEF Catching, Serving
  <2>4. Catching(q)'
    BY <2>1, <2>3 DEF Catching, Serving, host, RestartPending
  <2> QED
    BY <1>8, <2>4 DEF Approved
<1>9. CASE TookBack(r, q)
  BY <1>2, <1>9 DEF TookBack
<1>10. ASSUME NEW s \in DOMAIN r.plan, Advanced(r, q, s) PROVE Catching(q)' /\ q.at = "executing"
  BY <1>0, <1>2, <1>10, AdvancedCatches DEF Advanced
<1>11. ASSUME NEW s \in DOMAIN r.plan, FailedAt(r, q, s)
       PROVE  Serving' /\ q.at = "restoring" /\ q.undo = <<>>
  <2>1. r.at = "executing" /\ Underway(r, s) /\ IsNext(r, s) /\ ~ReadyFor(r, s) /\ UNCHANGED host
    BY <1>11 DEF FailedAt
  <2>2. s[1] = "disk"
    BY <1>0, <2>1, OnlyDisksWait
  <2>3. r.undo = <<>>
    BY <2>1, <2>2 DEF Underway, HalfWay, EarlyKinds
  <2>4. q.undo = r.undo
    BY <1>11, <2>1, <2>2, UnderwayFacts DEF FailedAt, Staged, Define
  <2> QED
    BY <1>2, <1>4, <1>11, <2>1, <2>3, <2>4 DEF FailedAt, Catching
<1>12. CASE Rebooted(q)
  BY <1>12 DEF Rebooted, Idle, Serving, ReadUnits
<1>13. CASE Elsewhere(r, q)
  BY <1>2, <1>13 DEF Elsewhere, Catching, Serving, RestartPending
<1> QED
  BY <1>5, <1>6, <1>7, <1>8, <1>9, <1>10, <1>11, <1>12, <1>13 DEF Moves

\* There is one configuration, no run was killed, no rollback broke off and no
\* inspection failed.
Steady == /\ faults["crash"] = 0 /\ faults["broken"] = 0 /\ faults["edit"] = 0
          /\ faults["inspect"] = 0

\* The unit file of the configuration is the one that is read and served.
Sound(c, u) ==
    file[Unit(u)] = c.want[Unit(u)] =>
        loaded[u] = c.want[Unit(u)] /\ running[u] \in {Missing, c.want[Unit(u)]}

\* A unit file that is as it should be is read and served, or will be: the run
\* has written it itself.
Landed(r, u) ==
    LET w == r.config.want[Unit(u)]
    IN  /\ loaded[u] = w \/ (Reload \in DOMAIN r.plan /\ Noted(r, Unit(u)))
        /\ running[u] \in {Missing, w} \/ (RestartPending(r, u) /\ Noted(r, Unit(u)))

\* A failed run has noted the unit files that were wrong before it, and gets
\* them wrong again.
SoundAfter(r, u) ==
    IF Noted(r, Unit(u))
    THEN \A i \in 1..Len(r.undo) : r.undo[i].step = Unit(u) => r.undo[i].old # r.config.want[Unit(u)]
    ELSE Sound(r.config, u)

SteadyRun(r) ==
    Steady =>
        /\ r.at # "idle" => r.config = config
        /\ \A u \in UnitsOf(config) :
              /\ r.at \notin {"executing", "restoring"} => Sound(config, u)
              /\ r.at = "executing" => Unit(u) \in DOMAIN r.plan \/ Landed(r, u)
              /\ r.at = "restoring" => SoundAfter(r, u)

LEMMA ConfigKept ==
    ASSUME FaultsTypeOK, [Next]_vars
    PROVE  config' = config \/ faults'["edit"] > 0
<1>1. CASE UNCHANGED vars
  BY <1>1 DEF vars
<1>2. ASSUME NEW p \in Appliers, Starts(p) PROVE UNCHANGED config
  BY <1>2 DEF Starts, Begin
<1>3. ASSUME NEW p \in Appliers, Acquire(p) \/ Check(p) \/ Execute(p) \/ ExecuteFails(p)
      PROVE  UNCHANGED config
  BY <1>3 DEF Acquire, Check, Execute, ExecuteFails
<1>4. ASSUME NEW p \in Appliers, Restore(p) \/ Restored(p) \/ Commit(p) \/ Verify(p)
      PROVE  UNCHANGED config
  BY <1>4 DEF Restore, Restored, Commit, Verify
<1>5. ASSUME NEW p \in Appliers, Faulty(p) PROVE UNCHANGED config
  BY <1>5 DEF Faulty, AcquireFails, RestoreFails, CommitFails, VerifyFails, Kill
<1>6. CASE Reboot \/ ClearLock
  BY <1>6 DEF Reboot, ClearLock
<1>7. CASE EditConfig
  BY <1>7, FaultCounts, FaultKindsAssumption DEF EditConfig
<1>8. ASSUME NEW n \in Nodes, Meddle(n) PROVE UNCHANGED config
  BY <1>8 DEF Meddle
<1> QED
  BY <1>1, <1>2, <1>3, <1>4, <1>5, <1>6, <1>7, <1>8 DEF Next, Work

LEMMA FaultsOnlyGrow ==
    ASSUME FaultsTypeOK, [Next]_vars
    PROVE  FaultsGrow
<1>1. CASE NoFault
  BY <1>1, FaultCounts
<1>2. ASSUME NEW k \in FaultKinds, Happens(k) PROVE FaultsGrow
  BY <1>2, FaultCounts
<1>3. CASE UNCHANGED vars
  BY <1>1, <1>3 DEF vars
<1>4. ASSUME NEW p \in Appliers, Starts(p) PROVE FaultsGrow
  <2>1. NoFault \/ Happens("inspect")
    BY <1>4 DEF Starts, Begin
  <2> QED
    BY <1>1, <1>2, <2>1, FaultKindsAssumption
<1>5. ASSUME NEW p \in Appliers, Acquire(p) \/ Check(p) \/ Execute(p) PROVE FaultsGrow
  BY <1>1, <1>5 DEF Acquire, Check, Execute
<1>6. ASSUME NEW p \in Appliers, ExecuteFails(p) PROVE FaultsGrow
  <2>1. NoFault \/ Happens("fail")
    BY <1>6 DEF ExecuteFails
  <2> QED
    BY <1>1, <1>2, <2>1, FaultKindsAssumption
<1>7. ASSUME NEW p \in Appliers, Restore(p) \/ Restored(p) \/ Commit(p) \/ Verify(p)
      PROVE  FaultsGrow
  BY <1>1, <1>7 DEF Restore, Restored, Commit, Verify
<1>8. ASSUME NEW p \in Appliers, Faulty(p) PROVE FaultsGrow
  <2>1. Happens("fail") \/ Happens("broken") \/ Happens("crash")
    BY <1>8 DEF Faulty, AcquireFails, RestoreFails, CommitFails, VerifyFails, Kill
  <2> QED
    BY <1>2, <2>1, FaultKindsAssumption
<1>9. CASE Reboot \/ EditConfig \/ \E n \in Nodes : Meddle(n)
  <2>1. Happens("reboot") \/ Happens("edit") \/ Happens("meddle")
    BY <1>9 DEF Reboot, EditConfig, Meddle
  <2> QED
    BY <1>2, <2>1, FaultKindsAssumption
<1>10. CASE ClearLock
  BY <1>1, <1>10 DEF ClearLock
<1> QED
  BY <1>3, <1>4, <1>5, <1>6, <1>7, <1>8, <1>9, <1>10 DEF Next, Work

\* The unit file of a step that is over is as it should be.
LEMMA UnitDone ==
    ASSUME NEW r, NEW s, Underway(r, s), NEW u \in UnitsOf(r.config)
    PROVE  /\ u \in Units /\ Unit(u) \in Files /\ Unit(u) \in UnitFiles
           /\ Unit(u) \in DOMAIN r.plan => file[Unit(u)] # r.config.want[Unit(u)]
           /\ Unit(u) \notin DOMAIN r.plan => file[Unit(u)] = r.config.want[Unit(u)]
           /\ r.config.want[Unit(u)] # Missing
<1>1. Unit(u) \in Steps(r.config, r.starts) /\ Unit(u)[1] = "unit"
  BY DEF Steps, UnitSteps, Unit
<1>2. IF Unit(u) \in DOMAIN r.plan THEN Pending(r, Unit(u)) ELSE Done(r, Unit(u))
  BY <1>1 DEF Underway, HalfWay
<1>3. u \in Units /\ r.config.want[Unit(u)] # Missing
  BY DEF UnitsOf
<1> QED
  BY <1>1, <1>2, <1>3 DEF Pending, Done, FileKinds, Files, UnitFiles

LEMMA AdvancedLands ==
    ASSUME NEW r, NEW s, Underway(r, s), NEW q, Advanced(r, q, s), NEW u \in UnitsOf(r.config),
           Unit(u) \in DOMAIN r.plan \/ Landed(r, u), r.missed = {}
    PROVE  Unit(u) \in DOMAIN q.plan \/ Landed(q, u)'
<1> DEFINE c == r.config  w == c.want[Unit(u)]
<1>1. IsNext(r, s) /\ Effect(c, r.plan[s], s) /\ HostOK /\ running \in [Units -> Contents]
  BY DEF Advanced, Underway, HostOK
<1>2. /\ q.config = c /\ DOMAIN q.plan = DOMAIN r.plan \ {s}
      /\ \A v \in Units : s # Daemon(v) => (RestartPending(q, v) <=> RestartPending(r, v))
  BY AfterStep
<1>3. u \in Units /\ Unit(u)[1] = "unit" /\ Unit(u) # Reload /\ \A v \in Units : Unit(u) # Daemon(v)
  BY DEF UnitsOf, Unit, Reload, Daemon
<1>4. Noted(r, Unit(u)) => Noted(q, Unit(u))
  <2>1. q.undo = Staged(r, r.plan[s], s)
    BY DEF Advanced
  <2>2. \/ q.undo = r.undo
        \/ /\ Len(q.undo) = Len(r.undo) + 1 /\ Len(r.undo) \in Nat
           /\ \A i \in 1..Len(r.undo) : q.undo[i] = r.undo[i]
    BY <2>1, StagedNotes
  <2> QED
    BY <2>2 DEF Noted
<1>5. CASE Unit(u) \in DOMAIN r.plan /\ s # Unit(u)
  BY <1>2, <1>5
<1>6. CASE s = Unit(u)
  <2>1. UNCHANGED <<loaded, enabled, running>>
    BY <1>1, <1>3, <1>6, UnitsAfter
  <2>2. Noted(q, Unit(u))
    <3>1. q.undo = Append(r.undo, [step |-> s, old |-> file[s]])
      BY <1>3, <1>6, UnderwayFacts DEF Staged, Advanced
    <3>2. r.undo \in Seq(Undos)
      BY UnderwayFacts
    <3>3. Len(q.undo) \in 1..Len(q.undo) /\ q.undo[Len(q.undo)].step = s
      BY <3>1, <3>2
    <3> QED
      BY <1>6, <3>3 DEF Noted
  <2>3. Reload \in DOMAIN q.plan
    <3>1. Reload \in DOMAIN r.plan
      BY <1>3, <1>6, UnderwayFacts DEF Pending
    <3> QED
      BY <1>2, <1>3, <1>6, <3>1
  <2>4. RestartPending(q, u) \/ running[u] = Missing
    <3>1. Daemon(u) \in DOMAIN r.plan /\ Daemon(u)[1] = "daemon" /\ UnitOf(Daemon(u)) = u
      BY <1>3, <1>6 DEF Underway, Recording, Daemon, UnitOf, Units
    <3>2. Pending(r, Daemon(u))
      BY <3>1, UnderwayFacts DEF Underway, HalfWay
    <3>3. r.plan[Daemon(u)] = "restart" \/ running[u] = Missing
      BY <3>1, <3>2 DEF Pending, Unheard
    <3> QED
      BY <1>2, <1>3, <1>6, <3>1, <3>3 DEF RestartPending
  <2> QED
    BY <2>1, <2>2, <2>3, <2>4 DEF Landed, Noted, RestartPending
<1>7. CASE Unit(u) \notin DOMAIN r.plan
  <2>1. Landed(r, u) /\ file[Unit(u)] = w /\ w # Missing
    BY <1>7, UnitDone
  <2>2. CASE s[1] \notin {"reload", "daemon"} /\ UNCHANGED <<loaded, running>>
    <3>1. s # Reload /\ \A v \in Units : s # Daemon(v)
      BY <2>2 DEF Reload, Daemon
    <3> QED
      BY <1>2, <1>3, <1>4, <2>1, <2>2, <3>1 DEF Landed, Noted, RestartPending
  <2>3. CASE s = Reload /\ loaded' = ReadUnits /\ UNCHANGED <<file, enabled, running>>
    <3>1. \A v \in Units : s # Daemon(v)
      BY <2>3 DEF Reload, Daemon
    <3>2. loaded'[u] = w
      BY <1>3, <2>1, <2>3 DEF ReadUnits
    <3> QED
      BY <1>2, <1>3, <1>4, <2>1, <2>3, <3>1, <3>2 DEF Landed, Noted, RestartPending
  <2>4. CASE s[1] = "daemon"
    <3>1. /\ s = Daemon(UnitOf(s)) /\ UnitOf(s) \in UnitsOf(c) /\ Reload \notin DOMAIN r.plan
          /\ \/ /\ r.plan[s] = "enable" /\ loaded' = ReadUnits
                /\ running' = [running EXCEPT ![UnitOf(s)] = file[Unit(UnitOf(s))]]
             \/ /\ r.plan[s] = "restart" /\ UNCHANGED loaded
                /\ running' = [running EXCEPT ![UnitOf(s)] = loaded[UnitOf(s)]]
      BY <1>1, <2>4, UnitsAfter DEF Reload
    <3>2. loaded[u] = w
      BY <2>1, <3>1 DEF Landed
    <3>3. loaded'[u] = w
      BY <1>3, <2>1, <3>1, <3>2 DEF ReadUnits
    <3>4. CASE UnitOf(s) = u
      <4>1. running'[u] = w
        BY <1>1, <1>3, <2>1, <3>1, <3>2, <3>4
      <4> QED
        BY <1>2, <3>3, <4>1 DEF Landed
    <3>5. CASE UnitOf(s) # u
      <4>1. running'[u] = running[u] /\ s # Daemon(u)
        BY <1>1, <1>3, <3>1, <3>5 DEF Daemon, UnitOf, Units
      <4> QED
        BY <1>2, <1>3, <1>4, <2>1, <3>3, <4>1 DEF Landed, Noted, RestartPending
    <3> QED
      BY <3>4, <3>5
  <2> QED
    BY <1>1, <2>2, <2>3, <2>4, UnitsAfter
<1> QED
  BY <1>5, <1>6, <1>7

LEMMA FailedSound ==
    ASSUME NEW r, NEW s, Underway(r, s), IsNext(r, s), NEW q, SameRun(q, r),
           q.undo = Staged(r, r.plan[s], s), UNCHANGED host \/ Effect(r.config, r.plan[s], s),
           NEW u \in UnitsOf(r.config), Unit(u) \in DOMAIN r.plan \/ Landed(r, u),
           r.missed = {}
    PROVE  SoundAfter(q, u)'
<1> DEFINE c == r.config  w == c.want[Unit(u)]
<1>1. q.config = c /\ HostOK /\ running \in [Units -> Contents]
  BY DEF SameRun, Underway, HostOK
<1>2. \/ q.undo = r.undo
      \/ /\ Len(q.undo) = Len(r.undo) + 1 /\ Len(r.undo) \in Nat
         /\ \A i \in 1..Len(r.undo) : q.undo[i] = r.undo[i]
         /\ q.undo[Len(q.undo)].step = s
         /\ s \in UnitFiles => q.undo[Len(q.undo)].old # c.want[s]
  BY StagedNotes
<1>3. u \in Units /\ Unit(u) \in UnitFiles /\ Unit(u) \in Files /\ Unit(u)[1] = "unit" /\ w # Missing
  BY UnitDone DEF Unit
<1>4. CASE Noted(q, Unit(u))
  <2>1. \A i \in 1..Len(r.undo) : r.undo[i].step \in UnitFiles => r.undo[i].old # c.want[r.undo[i].step]
    BY DEF Underway, Recording
  <2>2. \A i \in 1..Len(q.undo) : q.undo[i].step = Unit(u) => q.undo[i].old # q.config.want[Unit(u)]
    BY <1>1, <1>2, <1>3, <2>1
  <2> QED
    BY <1>4, <2>2 DEF SoundAfter, Noted
<1>5. CASE ~Noted(q, Unit(u))
  <2>1. ~Noted(r, Unit(u))
    BY <1>2, <1>5 DEF Noted
  <2>2. s # Unit(u)
    <3>1. SUFFICES ASSUME s = Unit(u) PROVE Noted(q, Unit(u))
      BY <1>5
    <3>2. q.undo = Append(r.undo, [step |-> s, old |-> file[s]])
      BY <1>3, <3>1, UnderwayFacts DEF Staged
    <3>3. r.undo \in Seq(Undos)
      BY UnderwayFacts
    <3>4. Len(q.undo) \in 1..Len(q.undo) /\ q.undo[Len(q.undo)].step = s
      BY <3>2, <3>3
    <3> QED
      BY <3>1, <3>4 DEF Noted
  <2>3. file'[Unit(u)] = file[Unit(u)]
    BY <1>3, <2>2, EffectTouches
  <2>4. CASE Unit(u) \in DOMAIN r.plan
    <3>1. file'[Unit(u)] # w
      BY <2>3, <2>4, UnitDone
    <3> QED
      BY <1>1, <1>5, <3>1 DEF SoundAfter, Sound, Noted
  <2>5. CASE Unit(u) \notin DOMAIN r.plan
    <3>1. file[Unit(u)] = w /\ loaded[u] = w /\ running[u] \in {Missing, w}
      BY <2>1, <2>5, UnitDone DEF Landed
    <3>2. CASE UNCHANGED <<loaded, running>>
      BY <1>1, <1>5, <3>1, <3>2 DEF SoundAfter, Sound, Noted
    <3>3. CASE s = Reload /\ loaded' = ReadUnits /\ UNCHANGED running
      <4>1. loaded'[u] = w
        BY <1>3, <3>1, <3>3 DEF ReadUnits
      <4> QED
        BY <1>1, <1>5, <3>1, <3>3, <4>1 DEF SoundAfter, Sound, Noted
    <3>4. CASE /\ UnitOf(s) \in UnitsOf(c)
               /\ \/ /\ loaded' = ReadUnits
                     /\ running' = [running EXCEPT ![UnitOf(s)] = file[Unit(UnitOf(s))]]
                  \/ /\ UNCHANGED loaded
                     /\ running' = [running EXCEPT ![UnitOf(s)] = loaded[UnitOf(s)]]
      <4>1. loaded'[u] = w
        BY <1>3, <3>1, <3>4 DEF ReadUnits
      <4>2. running'[u] \in {Missing, w}
        BY <1>1, <1>3, <3>1, <3>4
      <4> QED
        BY <1>1, <1>5, <4>1, <4>2 DEF SoundAfter, Sound, Noted
    <3>5. CASE Effect(c, r.plan[s], s)
      BY <3>2, <3>3, <3>4, <3>5, UnitsAfter
    <3> QED
      BY <3>2, <3>5 DEF host
  <2> QED
    BY <2>4, <2>5
<1> QED
  BY <1>4, <1>5

LEMMA TookBackSound ==
    ASSUME HostOK, NEW r, ActiveOK(r), Rewinds(r), NEW q, TookBack(r, q),
           NEW u \in UnitsOf(r.config), SoundAfter(r, u)
    PROVE  SoundAfter(q, u)'
<1> DEFINE c == r.config  last == Len(r.undo)  s == r.undo[last].step  old == r.undo[last].old
<1>1. r.undo \in Seq(Undos) /\ last \in Nat /\ last > 0
  BY DEF TookBack, ActiveOK
<1>2. /\ q.config = c /\ Len(q.undo) = last - 1
      /\ \A i \in 1..Len(q.undo) : q.undo[i] = r.undo[i]
  BY <1>1 DEF TookBack, SameRun
<1>3. UNCHANGED <<loaded, running>> /\ file \in [Files -> Contents]
      /\ Unit(u) \in Files /\ Unit(u)[1] = "unit"
  BY DEF TookBack, HostOK, UnitsOf, Files, UnitFiles, Unit
<1>4. CASE s = Unit(u)
  <2>1. ~Noted(q, Unit(u))
    BY <1>1, <1>2, <1>4 DEF Noted, Rewinds
  <2>2. old # c.want[Unit(u)]
    BY <1>1, <1>4 DEF SoundAfter, Noted
  <2>3. file' = [file EXCEPT ![s] = old]
    BY <1>3, <1>4 DEF TookBack
  <2>4. file'[Unit(u)] # c.want[Unit(u)]
    BY <1>3, <1>4, <2>2, <2>3
  <2> QED
    BY <1>2, <2>1, <2>4 DEF SoundAfter, Sound, Noted
<1>5. CASE s # Unit(u)
  <2>1. file'[Unit(u)] = file[Unit(u)]
    BY <1>3, <1>5 DEF TookBack
  <2>2. Noted(q, Unit(u)) <=> Noted(r, Unit(u))
    BY <1>1, <1>2, <1>5 DEF Noted
  <2>3. CASE Noted(r, Unit(u))
    <3>1. \A i \in 1..Len(r.undo) : r.undo[i].step = Unit(u) => r.undo[i].old # c.want[Unit(u)]
      BY <2>3 DEF SoundAfter
    <3>2. \A i \in 1..Len(q.undo) : q.undo[i].step = Unit(u) => q.undo[i].old # q.config.want[Unit(u)]
      BY <1>1, <1>2, <3>1
    <3> QED
      BY <2>2, <2>3, <3>2 DEF SoundAfter, Noted
  <2>4. CASE ~Noted(r, Unit(u))
    BY <1>2, <1>3, <2>1, <2>2, <2>4 DEF SoundAfter, Sound, Noted
  <2> QED
    BY <2>3, <2>4
<1> QED
  BY <1>4, <1>5

LEMMA SteadyStays ==
    ASSUME Inv, NEW r, NEW q, Moves(r, q), r.at \in Phases => ActiveOK(r), RunOnCourse(r),
           \A s \in DOMAIN r.plan : r.at = "executing" => Underway(r, s),
           FaultsGrow, config' = config \/ faults'["edit"] > 0, Whole(r), SteadyRun(r)
    PROVE  SteadyRun(q)'
<1> SUFFICES ASSUME faults'["crash"] = 0, faults'["broken"] = 0, faults'["edit"] = 0,
                    faults'["inspect"] = 0
             PROVE  /\ q.at # "idle" => q.config = config'
                    /\ \A u \in UnitsOf(config') :
                          /\ q.at \notin {"executing", "restoring"} => Sound(config, u)'
                          /\ q.at = "executing" => Unit(u) \in DOMAIN q.plan \/ Landed(q, u)'
                          /\ q.at = "restoring" => SoundAfter(q, u)'
  BY DEF SteadyRun, Steady
<1>1. Steady /\ config' = config
  BY FaultKindsAssumption DEF FaultsGrow, Steady
<1>0. r.at = "executing" => r.missed = {}
  BY <1>1 DEF Whole, Steady
<1>2. /\ r.at # "idle" => r.config = config
      /\ \A u \in UnitsOf(config) :
            /\ r.at \notin {"executing", "restoring"} => Sound(config, u)
            /\ r.at = "executing" => Unit(u) \in DOMAIN r.plan \/ Landed(r, u)
            /\ r.at = "restoring" => SoundAfter(r, u)
  BY <1>1 DEF SteadyRun
<1>3. HostOK
  BY DEF Inv, TypeInv
<1>4. ASSUME UNCHANGED host, NEW u \in UnitsOf(config), Sound(config, u) PROVE Sound(config, u)'
  BY <1>1, <1>4 DEF host, Sound
<1>5. ASSUME r.at = "executing", DOMAIN r.plan = {}, NEW u \in UnitsOf(config)
      PROVE  Sound(config, u)
  BY <1>2, <1>5 DEF Landed, RestartPending, Sound
<1>6. CASE Ended(r, q)
  <2>1. q.at = "idle" /\ UNCHANGED host
    BY <1>6 DEF Ended, Idle
  <2>2. r.at = "restoring" => r.undo = <<>>
    BY <1>6 DEF Ended
  <2>3. r.at = "executing" => DOMAIN r.plan = {}
    BY <1>6 DEF Ended
  <2>4. ASSUME NEW u \in UnitsOf(config) PROVE Sound(config, u)
    <3>1. CASE r.at = "restoring"
      BY <1>2, <2>2, <3>1 DEF SoundAfter, Noted
    <3>2. CASE r.at = "executing"
      BY <1>5, <2>3, <3>2
    <3>3. CASE r.at \notin {"executing", "restoring"}
      BY <1>2, <3>3
    <3> QED
      BY <3>1, <3>2, <3>3
  <2> QED
    BY <1>1, <1>4, <2>1, <2>4
<1>7. CASE Started(r, q)
  BY <1>1, <1>2, <1>4, <1>7 DEF Started
<1>8. CASE Shifted(r, q)
  <2>1. UNCHANGED host /\ q.config = r.config /\ r.at # "idle" /\ q.at \notin {"executing", "restoring"}
    BY <1>8 DEF Shifted, SameRun
  <2>2. ASSUME NEW u \in UnitsOf(config) PROVE Sound(config, u)
    BY <1>2, <1>5, <1>8 DEF Shifted
  <2> QED
    BY <1>1, <1>2, <1>4, <2>1, <2>2
<1>9. CASE Approved(r, q)
  <2>1. /\ UNCHANGED host /\ q.config = r.config /\ r.config = config /\ q.at = "executing"
        /\ ActiveOK(r) /\ PlanCurrent(r)
    BY <1>2, <1>9 DEF Approved, RunOnCourse, Phases
  <2>2. ASSUME NEW u \in UnitsOf(config), Unit(u) \notin DOMAIN q.plan PROVE Landed(q, u)'
    <3>1. PICK P : P = PlanFor(q.config, Files, q.missed, q.allow, q.starts)
      OBVIOUS
    <3>2. r.plan = P /\ ~HasRefusals(P) /\ q.plan = [s \in ToApply(P) |-> P[s]]
          /\ q.config \in HostConfigs /\ q.starts \in BOOLEAN
      BY <1>9, <2>1, <3>1, ConfigsAssumption DEF Approved, PlanCurrent, ActiveOK
    <3>3. Unit(u) \in Steps(q.config, q.starts) /\ Unit(u)[1] \in FileKinds
      BY <2>1, <2>2 DEF Steps, UnitSteps, Unit, FileKinds
    <3>4. Done(q, Unit(u))
      BY <1>3, <2>2, <3>1, <3>2, <3>3, FileStepMet
    <3>5. file[Unit(u)] = config.want[Unit(u)]
      BY <2>1, <3>3, <3>4 DEF Done
    <3>6. loaded[u] = config.want[Unit(u)] /\ running[u] \in {Missing, config.want[Unit(u)]}
      BY <1>2, <1>9, <2>2, <3>5 DEF Approved, Sound
    <3> QED
      BY <2>1, <3>6 DEF Landed, host
  <2> QED
    BY <1>1, <2>1, <2>2
<1>10. CASE TookBack(r, q)
  <2>1. /\ q.config = r.config /\ r.config = config /\ q.at = "restoring"
        /\ ActiveOK(r) /\ Rewinds(r)
    BY <1>2, <1>10 DEF TookBack, SameRun, RunOnCourse, Phases
  <2>2. ASSUME NEW u \in UnitsOf(config) PROVE SoundAfter(q, u)'
    BY <1>2, <1>3, <1>10, <2>1, <2>2, TookBackSound DEF TookBack
  <2> QED
    BY <1>1, <2>1, <2>2
<1>11. ASSUME NEW s \in DOMAIN r.plan, Advanced(r, q, s)
       PROVE  /\ q.config = config /\ q.at = "executing"
              /\ \A u \in UnitsOf(config) : Unit(u) \in DOMAIN q.plan \/ Landed(q, u)'
  <2>1. /\ q.config = r.config /\ r.config = config /\ q.at = "executing" /\ r.at = "executing"
        /\ Underway(r, s)
    BY <1>2, <1>11 DEF Advanced, SameRun
  <2>2. ASSUME NEW u \in UnitsOf(config) PROVE Unit(u) \in DOMAIN q.plan \/ Landed(q, u)'
    BY <1>0, <1>2, <1>11, <2>1, <2>2, AdvancedLands
  <2> QED
    BY <2>1, <2>2
<1>12. ASSUME NEW s \in DOMAIN r.plan, FailedAt(r, q, s)
       PROVE  /\ q.config = config /\ q.at = "restoring"
              /\ \A u \in UnitsOf(config) : SoundAfter(q, u)'
  <2>1. /\ q.config = r.config /\ r.config = config /\ q.at = "restoring" /\ r.at = "executing"
        /\ Underway(r, s)
    BY <1>2, <1>12 DEF FailedAt, SameRun
  <2>2. /\ IsNext(r, s) /\ SameRun(q, r) /\ q.undo = Staged(r, r.plan[s], s)
        /\ UNCHANGED host \/ Effect(r.config, r.plan[s], s)
    BY <1>12 DEF FailedAt
  <2>3. ASSUME NEW u \in UnitsOf(config) PROVE SoundAfter(q, u)'
    BY <1>0, <1>2, <2>1, <2>2, <2>3, FailedSound
  <2> QED
    BY <2>1, <2>3
<1>13. CASE Rebooted(q)
  <2>1. q.at = "idle" /\ loaded' = ReadUnits /\ UNCHANGED file
        /\ running' = [u \in Units |-> IF u \in enabled THEN file[Unit(u)] ELSE Missing]
    BY <1>13 DEF Rebooted, Idle
  <2>2. ASSUME NEW u \in UnitsOf(config) PROVE Sound(config, u)'
    BY <1>1, <2>1 DEF Sound, ReadUnits, UnitsOf
  <2> QED
    BY <1>1, <2>1, <2>2
<1>14. CASE Elsewhere(r, q)
  <2>1. q = r /\ UNCHANGED <<file, loaded, running>>
    BY <1>14 DEF Elsewhere
  <2>2. ASSUME NEW u \in UnitsOf(config)
        PROVE  /\ Sound(config, u) => Sound(config, u)'
               /\ Landed(r, u) => Landed(q, u)'
               /\ SoundAfter(r, u) => SoundAfter(q, u)'
    BY <1>1, <2>1 DEF Sound, Landed, SoundAfter, Noted, RestartPending
  <2> QED
    BY <1>1, <1>2, <2>1, <2>2
<1> QED
  BY <1>1, <1>6, <1>7, <1>8, <1>9, <1>10, <1>11, <1>12, <1>13, <1>14 DEF Moves

\* The inductive invariant of what the daemons serve.
ServedInv ==
    /\ SerialInv
    /\ \A p \in Appliers : Whole(run[p]) /\ SmoothRun(run[p]) /\ SteadyRun(run[p])

LEMMA InitServed == Init => ServedInv
<1> SUFFICES ASSUME Init PROVE ServedInv
  OBVIOUS
<1>1. SerialInv
  BY InitSerial
<1>2. \A u \in Units : loaded[u] = file[Unit(u)] /\ running[u] = file[Unit(u)]
  BY DEF Init
<1>3. \A p \in Appliers : run[p].at = "idle"
  BY DEF Init, Idle
<1>4. \A p \in Appliers : SmoothRun(run[p])
  BY <1>2, <1>3 DEF SmoothRun, Serving
<1>5. \A u \in UnitsOf(config) : Sound(config, u)
  BY <1>2 DEF Sound, UnitsOf
<1>6. \A p \in Appliers : SteadyRun(run[p])
  BY <1>3, <1>5 DEF SteadyRun
<1>7. \A p \in Appliers : Whole(run[p])
  BY <1>3 DEF Whole
<1> QED
  BY <1>1, <1>4, <1>6, <1>7 DEF ServedInv

LEMMA NextServed ==
    ASSUME Alone
    PROVE  ServedInv /\ [Next]_vars => ServedInv'
<1> SUFFICES ASSUME ServedInv, [Next]_vars PROVE ServedInv'
  OBVIOUS
<1>1. SerialInv /\ SerialInv' /\ Inv /\ FaultsTypeOK
  BY NextSerial DEF ServedInv, SerialInv, Inv, TypeInv
<1>2. FaultsGrow /\ (config' = config \/ faults'["edit"] > 0)
  BY <1>1, FaultsOnlyGrow, ConfigKept
<1>3. ASSUME NEW p \in Appliers
      PROVE  Whole(run[p])' /\ SmoothRun(run[p])' /\ SteadyRun(run[p])'
  <2>1. PICK r : r = run[p]
    OBVIOUS
  <2>2. PICK q : q = run'[p]
    OBVIOUS
  <2>3. /\ Moves(r, q) /\ RunOnCourse(r)
        /\ r.at \in Phases => ActiveOK(r)
        /\ \A s \in DOMAIN r.plan : r.at = "executing" => Underway(r, s)
    BY <1>1, <2>1, <2>2, SerialStep
  <2>4. Whole(r) /\ SmoothRun(r) /\ SteadyRun(r)
    BY <2>1 DEF ServedInv
  <2>5. SmoothRun(q)'
    BY <1>1, <1>2, <2>3, <2>4, SmoothStays
  <2>6. SteadyRun(q)'
    BY <1>1, <1>2, <2>3, <2>4, SteadyStays
  <2>7. q = run[p]'
    BY <2>2
  <2>8. Whole(q)'
    BY <1>2, <2>3, <2>4, WholeStays
  <2> QED
    BY <2>5, <2>6, <2>7, <2>8 DEF Whole, SmoothRun, SteadyRun, Catching, SoundAfter, Landed, RestartPending,
                            Noted
<1> QED
  BY <1>1, <1>3 DEF ServedInv

LEMMA ServedHolds ==
    ASSUME Alone
    PROVE  Spec => []ServedInv
<1>1. Init => ServedInv
  BY InitServed
<1>2. ServedInv /\ [Next]_vars => ServedInv'
  BY NextServed
<1> QED
  BY <1>1, <1>2, PTL DEF Spec

LEMMA ServedRestarts == ServedInv => RestartsNeeded
<1> SUFFICES ASSUME ServedInv, NEW p \in Appliers, run[p].at = "executing",
                    faults["crash"] + faults["fail"] + faults["inspect"] = 0,
                    NEW s \in DOMAIN run[p].plan, run[p].plan[s] = "restart"
             PROVE  running[<<s[2], s[3]>>] # run[p].config.want[<<"unit", s[2], s[3]>>]
  BY DEF RestartsNeeded
<1>1. PICK r : r = run[p]
  OBVIOUS
<1>2. Smooth
  BY FaultKindsAssumption DEF ServedInv, SerialInv, Inv, TypeInv, FaultsTypeOK, Smooth
<1>3. Catching(r)
  BY <1>1, <1>2 DEF ServedInv, SmoothRun
<1>4. Underway(r, s)
  <2>1. RunOnCourse(r) /\ HostOK
    BY <1>1 DEF ServedInv, SerialInv, Inv, TypeInv
  <2>2. ActiveOK(r)
    BY <1>1, InProgress DEF ServedInv, SerialInv, Inv, TypeInv, Phases
  <2> QED
    BY <1>1, <2>1, <2>2 DEF RunOnCourse, Underway
<1>5. s = Daemon(UnitOf(s)) /\ UnitOf(s) \in Units
  BY <1>1, <1>4, UnderwayFacts, StepParts
<1>6. running[UnitOf(s)] # r.config.want[Unit(UnitOf(s))]
  BY <1>1, <1>3, <1>5 DEF Catching, RestartPending, Underway
<1> QED
  BY <1>1, <1>6 DEF UnitOf, Unit

(***************************************************************************)
(* Without a failure, no plan restarts a daemon that already serves what   *)
(* the configuration asks for: the planner looks at the unit file only,    *)
(* and a daemon never serves anything else than its unit file.             *)
(***************************************************************************)
THEOREM RestartsAreNeeded ==
    ASSUME Alone
    PROVE  Spec => []RestartsNeeded
<1>1. Spec => []ServedInv
  BY ServedHolds
<1> QED
  BY <1>1, ServedRestarts, PTL

LEMMA ServedDesired == ServedInv => ServesDesired
<1> SUFFICES ASSUME ServedInv, NEW p \in Appliers, Executed(p)
             PROVE  LET r == run[p]  c == r.config
                    IN  /\ Unfailed => \A u \in UnitsOf(c) : /\ running[u] = c.want[Unit(u)]
                                                             /\ loaded[u] = c.want[Unit(u)]
                                                             /\ u \in enabled
                        /\ \A n \in Nodes : \/ domain[n].def = c.want[Xml(n)]
                                            \/ /\ AwaitedRestart(r, n)
                                               /\ domain[n].live = c.want[Xml(n)]
  BY DEF ServesDesired
<1>1. PICK r : r = run[p]
  OBVIOUS
<1>2. Finished(r) /\ r.at = "executing" /\ DOMAIN r.plan = {}
  BY <1>1, ExecutedFinished DEF Executed, ServedInv
<1>3. \A n \in Nodes : \/ domain[n].def = r.config.want[Xml(n)]
                       \/ AwaitedRestart(r, n) /\ domain[n].live = r.config.want[Xml(n)]
  BY <1>2, FinishedFacts
<1>4. \A u \in UnitsOf(r.config) : /\ file[Unit(u)] = r.config.want[Unit(u)]
                                   /\ u \in enabled /\ running[u] # Missing /\ u \in Units
  BY <1>2, FinishedFacts DEF UnitsOf
<1>5. Unfailed => Smooth \/ Steady
  BY FaultKindsAssumption DEF ServedInv, SerialInv, Inv, TypeInv, FaultsTypeOK, Smooth, Steady,
                              Unfailed
<1>6. CASE Smooth
  <2>1. Catching(r)
    BY <1>1, <1>2, <1>6 DEF ServedInv, SmoothRun
  <2>2. \A u \in UnitsOf(r.config) : /\ running[u] = r.config.want[Unit(u)]
                                     /\ loaded[u] = r.config.want[Unit(u)]
    BY <1>2, <1>4, <2>1 DEF Catching, RestartPending
  <2> QED
    BY <1>1, <1>3, <1>4, <2>2
<1>7. CASE Steady
  <2>1. r.config = config /\ \A u \in UnitsOf(config) : Landed(r, u)
    BY <1>1, <1>2, <1>7 DEF ServedInv, SteadyRun
  <2>2. \A u \in UnitsOf(r.config) : /\ running[u] = r.config.want[Unit(u)]
                                     /\ loaded[u] = r.config.want[Unit(u)]
    BY <1>2, <1>4, <2>1 DEF Landed, RestartPending
  <2> QED
    BY <1>1, <1>3, <1>4, <2>2
<1>8. CASE ~Unfailed
  BY <1>1, <1>3, <1>8
<1> QED
  BY <1>5, <1>6, <1>7, <1>8

(***************************************************************************)
(* What an executed plan means: every daemon of the configuration runs     *)
(* from its present unit file, also when earlier runs for the same         *)
(* configuration failed anywhere and were rolled back, and libvirt has the *)
(* desired definition of every VM but those that awaited a restart.        *)
(***************************************************************************)
THEOREM ExecutedRunsServe ==
    ASSUME Alone
    PROVE  Spec => []ServesDesired
<1>1. Spec => []ServedInv
  BY ServedHolds
<1> QED
  BY <1>1, ServedDesired, PTL
=============================================================================
