-------------------------- MODULE NodePluginProofs --------------------------
(***************************************************************************)
(* Proofs about NodePlugin, for all volumes, pods, requests,               *)
(* configurations, numbers of handlers and numbers of faults.              *)
(***************************************************************************)
EXTENDS NodePlugin, SequenceTheorems, TLAPS

USE DEF NoFault

-----------------------------------------------------------------------------
(***************************************************************************)
(* The mount table                                                         *)
(***************************************************************************)
\* A fault leaves the budget well typed.
LEMMA FaultType ==
    ASSUME FaultsTypeOK, NEW k \in FaultKinds, Fault(k) \/ NoFault
    PROVE  FaultsTypeOK'
BY MaxFaultsAssumption DEF FaultsTypeOK, Fault

\* What a process sees under a path is a mount.
LEMMA TopType ==
    ASSUME MountsTypeOK, NEW p \in Paths
    PROVE  /\ Top(p) \in Mounts
           /\ Mounted(p) => Len(mounts[p]) \in 1..Len(mounts[p])
<1>1. mounts[p] \in Seq(Mounts)
  BY DEF MountsTypeOK
<1>2. CASE Mounted(p)
  <2>1. Len(mounts[p]) \in 1..Len(mounts[p])
    BY <1>1, <1>2, EmptySeq DEF Mounted
  <2>2. mounts[p][Len(mounts[p])] \in Mounts
    BY <1>1, <2>1, ElementOfSeq
  <2> QED
    BY <1>2, <2>1, <2>2 DEF Top
<1>3. CASE ~Mounted(p)
  BY <1>3 DEF Top, Mounts
<1> QED
  BY <1>2, <1>3

\* A stack without its last mount.
LEMMA Popped ==
    ASSUME NEW s \in Seq(Mounts), s # <<>>
    PROVE  /\ SubSeq(s, 1, Len(s) - 1) \in Seq(Mounts)
           /\ Len(SubSeq(s, 1, Len(s) - 1)) = Len(s) - 1
           /\ \A i \in 1..Len(s) - 1 : SubSeq(s, 1, Len(s) - 1)[i] = s[i]
<1>1. Len(s) \in Nat \ {0}
  BY EmptySeq
<1>2. \A i \in 1..Len(s) - 1 : s[i] \in Mounts
  BY <1>1, ElementOfSeq
<1> DEFINE n == Len(s) - 1
<1>3. n \in Int /\ \A i \in 1..n : s[i] \in Mounts
  BY <1>1, <1>2
<1> HIDE DEF n
<1>4. /\ SubSeq(s, 1, n) \in Seq(Mounts)
      /\ Len(SubSeq(s, 1, n)) = IF 1 <= n THEN n - 1 + 1 ELSE 0
      /\ \A i \in 1..n - 1 + 1 : SubSeq(s, 1, n)[i] = s[1 + i - 1]
  BY <1>3, SubSeqProperties
<1>5. n \in Nat
  BY <1>1 DEF n
<1>6. Len(SubSeq(s, 1, n)) = n /\ \A i \in 1..n : SubSeq(s, 1, n)[i] = s[i]
  BY <1>4, <1>5
<1> QED
  BY <1>4, <1>6 DEF n

\* All mounts on p show one of the sources in S.
ShowsSources(p, S) == \A i \in 1..Len(mounts[p]) : mounts[p][i].source \in S

\* mount --bind keeps the table well typed, and the target shows nothing but
\* what it showed before and what the source shows.
LEMMA BindMountEffect ==
    ASSUME FaultsTypeOK, MountsTypeOK, NEW s \in Paths, NEW t \in Paths,
           NEW ok \in BOOLEAN, BindMount(s, t, ok)
    PROVE  /\ FaultsTypeOK' /\ MountsTypeOK'
           /\ \A p \in Paths \ {t} : mounts'[p] = mounts[p]
           /\ \A S : ShowsSources(t, S) /\ Top(s).source \in S => ShowsSources(t, S)'
<1>1. FaultsTypeOK'
  BY FaultType, MountFaultAssumption DEF BindMount
<1>2. CASE UNCHANGED mounts
  BY <1>1, <1>2 DEF MountsTypeOK, ShowsSources
<1>3. CASE mounts' = [mounts EXCEPT ![t] = Append(@, Top(s))]
  <2>1. mounts[t] \in Seq(Mounts) /\ Top(s) \in Mounts
    BY TopType DEF MountsTypeOK
  <2> DEFINE new == Append(mounts[t], Top(s))
  <2>2. /\ new \in Seq(Mounts)
        /\ Len(new) = Len(mounts[t]) + 1
        /\ \A i \in 1..Len(mounts[t]) : new[i] = mounts[t][i]
        /\ new[Len(mounts[t]) + 1] = Top(s)
    BY <2>1, AppendProperties
  <2>3. mounts'[t] = new
    BY <1>3 DEF MountsTypeOK
  <2>4. Len(mounts[t]) \in Nat
    BY <2>1, LenProperties
  <2> HIDE DEF new
  <2>5. MountsTypeOK'
    BY <1>3, <2>2 DEF MountsTypeOK, new
  <2>6. \A i \in 1..Len(new) : i \in 1..Len(mounts[t]) \/ i = Len(mounts[t]) + 1
    BY <2>2, <2>4
  <2>7. \A S : ShowsSources(t, S) /\ Top(s).source \in S => ShowsSources(t, S)'
    BY <2>2, <2>3, <2>6 DEF ShowsSources
  <2> QED
    BY <1>1, <1>3, <2>5, <2>7 DEF MountsTypeOK
<1> QED
  BY <1>2, <1>3 DEF BindMount

\* Making a mount read-only changes no source.
LEMMA RemountEffect ==
    ASSUME FaultsTypeOK, MountsTypeOK, NEW t \in Paths, NEW ok \in BOOLEAN,
           RemountReadOnly(t, ok)
    PROVE  /\ FaultsTypeOK' /\ MountsTypeOK'
           /\ \A p \in Paths \ {t} : mounts'[p] = mounts[p]
           /\ \A S : ShowsSources(t, S) => ShowsSources(t, S)'
<1>1. FaultsTypeOK'
  BY FaultType, MountFaultAssumption DEF RemountReadOnly
<1>2. CASE UNCHANGED mounts
  BY <1>1, <1>2 DEF MountsTypeOK, ShowsSources
<1> DEFINE front == SubSeq(mounts[t], 1, Len(mounts[t]) - 1)
           last == [source |-> Top(t).source, readOnly |-> TRUE]
           new == Append(front, last)
<1>3. CASE Mounted(t) /\ mounts' = [mounts EXCEPT ![t] = new]
  <2>1. mounts[t] \in Seq(Mounts) /\ Top(t) \in Mounts /\ mounts[t] # <<>>
    BY <1>3, TopType DEF MountsTypeOK, Mounted
  <2>2. last \in Mounts
    BY <2>1 DEF Mounts
  <2>3. /\ front \in Seq(Mounts)
        /\ Len(front) = Len(mounts[t]) - 1
        /\ \A i \in 1..Len(mounts[t]) - 1 : front[i] = mounts[t][i]
    BY <2>1, Popped
  <2>4. last.source = mounts[t][Len(mounts[t])].source
    BY <1>3 DEF Top
  <2>5. Len(mounts[t]) \in Nat \ {0}
    BY <2>1, EmptySeq
  <2> HIDE DEF front, last
  <2>6. /\ new \in Seq(Mounts)
        /\ Len(new) = Len(front) + 1
        /\ \A i \in 1..Len(front) : new[i] = front[i]
        /\ new[Len(front) + 1] = last
    BY <2>2, <2>3, AppendProperties
  <2>7. mounts'[t] = new
    BY <1>3 DEF MountsTypeOK
  <2> HIDE DEF new
  <2>8. MountsTypeOK'
    BY <1>3, <2>6 DEF MountsTypeOK
  <2>9. /\ Len(new) = Len(mounts[t])
        /\ \A i \in 1..Len(mounts[t]) : new[i].source = mounts[t][i].source
    <3>1. Len(new) = Len(mounts[t])
      BY <2>3, <2>5, <2>6
    <3>2. ASSUME NEW i \in 1..Len(mounts[t])
          PROVE  new[i].source = mounts[t][i].source
      <4>1. CASE i = Len(mounts[t])
        BY <2>3, <2>4, <2>5, <2>6, <4>1
      <4>2. CASE i \in 1..Len(mounts[t]) - 1
        BY <2>3, <2>5, <2>6, <4>2
      <4> QED
        BY <2>5, <4>1, <4>2
    <3> QED
      BY <3>1, <3>2
  <2> QED
    BY <1>1, <1>3, <2>7, <2>8, <2>9 DEF MountsTypeOK, ShowsSources
<1> QED
  BY <1>2, <1>3 DEF RemountReadOnly

\* umount takes a mount away.
LEMMA UnmountEffect ==
    ASSUME FaultsTypeOK, MountsTypeOK, NEW t \in Paths, NEW ok \in BOOLEAN,
           Unmount(t, ok)
    PROVE  /\ FaultsTypeOK' /\ MountsTypeOK'
           /\ \A p \in Paths \ {t} : mounts'[p] = mounts[p]
           /\ \A S : ShowsSources(t, S) => ShowsSources(t, S)'
<1>1. FaultsTypeOK'
  BY FaultType, MountFaultAssumption DEF Unmount
<1>2. CASE UNCHANGED mounts
  BY <1>1, <1>2 DEF MountsTypeOK, ShowsSources
<1> DEFINE new == SubSeq(mounts[t], 1, Len(mounts[t]) - 1)
<1>3. CASE Mounted(t) /\ mounts' = [mounts EXCEPT ![t] = new]
  <2>1. mounts[t] \in Seq(Mounts) /\ mounts[t] # <<>>
    BY <1>3 DEF MountsTypeOK, Mounted
  <2>2. /\ new \in Seq(Mounts)
        /\ Len(new) = Len(mounts[t]) - 1
        /\ \A i \in 1..Len(mounts[t]) - 1 : new[i] = mounts[t][i]
    BY <2>1, Popped
  <2>3. Len(mounts[t]) \in Nat \ {0}
    BY <2>1, EmptySeq
  <2>4. mounts'[t] = new
    BY <1>3 DEF MountsTypeOK
  <2> HIDE DEF new
  <2>5. MountsTypeOK'
    BY <1>3, <2>2 DEF MountsTypeOK
  <2>6. \A S : ShowsSources(t, S) => ShowsSources(t, S)'
    BY <2>2, <2>3, <2>4 DEF ShowsSources
  <2> QED
    BY <1>1, <1>3, <2>5, <2>6 DEF MountsTypeOK
<1> QED
  BY <1>2, <1>3 DEF Unmount

-----------------------------------------------------------------------------
(***************************************************************************)
(* Type correctness                                                        *)
(***************************************************************************)
\* The paths of the volumes and targets are paths of the mount table.
LEMMA PathsOfRequests ==
    /\ \A v \in Volumes : ExportPath(v) \in Paths /\ StagingPath(v) \in Paths
    /\ \A t \in Targets : TargetPath(t) \in Paths
BY PathsAssumption

\* The step a handler is at determines what the call carries.
LEMMA CallShape ==
    ASSUME call \in [Handlers -> Calls], NEW h \in Handlers
    PROVE  /\ call[h].step \in {"bind", "remount", "reply"} =>
                 call[h] \in MountPlans
           /\ call[h].step = "umount" => call[h] \in UnmountPlans
<1>1. call[h] \in Calls
  OBVIOUS
<1>2. CASE call[h] = Idle
  BY <1>2 DEF Idle
<1>3. CASE call[h] \in MountPlans
  BY <1>3 DEF MountPlans
<1>4. CASE call[h] \in UnmountPlans
  BY <1>4 DEF UnmountPlans
<1> QED
  BY <1>1, <1>2, <1>3, <1>4 DEF Calls

\* A handler at a mount step works on two paths of the mount table.
LEMMA PlannedPaths ==
    ASSUME NodeTypeOK, NEW h \in Handlers,
           call[h].step \in {"bind", "remount", "reply"}
    PROVE  /\ call[h] \in MountPlans /\ FitsRequest(call[h])
           /\ call[h].source \in Paths /\ call[h].target \in Paths
BY CallShape DEF NodeTypeOK, MountPlans

\* Moving a call to another mount step keeps the rest of it.
LEMMA ThenType ==
    ASSUME NEW c \in MountPlans, FitsRequest(c),
           NEW step \in {"bind", "remount", "reply"}
    PROVE  /\ Then(c, step) \in MountPlans
           /\ FitsRequest(Then(c, step))
           /\ Then(c, step).step = step
<1>1. CASE c \in [step: {"bind", "remount", "reply"}, operation: {"stage"},
                  request: StageRequests, source: Paths, target: Paths,
                  readOnly: BOOLEAN]
  BY <1>1 DEF Then, MountPlans, FitsRequest
<1>2. CASE c \in [step: {"bind", "remount", "reply"}, operation: {"publish"},
                  request: PublishRequests, source: Paths, target: Paths,
                  readOnly: BOOLEAN]
  BY <1>2 DEF Then, MountPlans, FitsRequest
<1> QED
  BY <1>1, <1>2 DEF MountPlans

\* One handler at a new, well-typed call.
CallOK(c) == c \in Calls /\ (c.step \in {"bind", "remount", "reply"} => FitsRequest(c))

LEMMA IdleOK == CallOK(Idle)
BY DEF CallOK, Idle, Calls

LEMMA ContinueType ==
    ASSUME NodeTypeOK, NEW h \in Handlers, NEW c, CallOK(c), Continue(h, c)
    PROVE  /\ call' \in [Handlers -> Calls]
           /\ \A g \in Handlers :
                 call'[g].step \in {"bind", "remount", "reply"} => FitsRequest(call'[g])
BY DEF NodeTypeOK, CallOK, Continue

\* The answer to a stage or a publish is one of a volume or a target.
LEMMA AcknowledgeType ==
    ASSUME NodeTypeOK, NEW operation, NEW r,
           \/ operation = "stage" /\ r \in StageRequests
           \/ operation = "publish" /\ r \in PublishRequests,
           Acknowledge(operation, r)
    PROVE  /\ staged' \subseteq Volumes
           /\ published' \in [Targets -> Publishes \cup {NoPublish}]
<1>1. CASE operation = "stage" /\ r \in StageRequests
  BY <1>1, StageRequestsAssumption DEF Acknowledge, NodeTypeOK
<1>2. CASE operation = "publish" /\ r \in PublishRequests
  <2>1. r \in [volume: Volumes, target: Targets, readOnly: BOOLEAN]
    BY <1>2, PublishRequestsAssumption
  <2>2. exports[r.volume] \in Exports \cup {NoExport}
    BY <2>1, ConfigsAssumption DEF NodeTypeOK
  <2>3. Promise(r) \in Publishes \cup {NoPublish}
    BY <2>1, <2>2 DEF Promise, Publishes, Exports
  <2> QED
    BY <1>2, <2>1, <2>3 DEF Acknowledge, NodeTypeOK
<1> QED
  BY <1>1, <1>2

\* A stage or publish that is planned fits its request.
LEMMA PlanOK ==
    ASSUME NEW operation, NEW r, NEW readOnly \in BOOLEAN,
           \/ operation = "stage" /\ r \in StageRequests
           \/ operation = "publish" /\ r \in PublishRequests,
           NEW s \in Paths, NEW t \in Paths,
           FitsRequest(MountPlan(operation, r, s, t, readOnly))
    PROVE  CallOK(MountPlan(operation, r, s, t, readOnly))
BY DEF CallOK, MountPlan, MountPlans, Calls

\* Every request leaves all variables well typed.
LEMMA StageType ==
    ASSUME NodeTypeOK, NEW h \in Handlers, NEW r \in StageRequests,
           NodeStageVolume(h, r)
    PROVE  NodeTypeOK'
<1>1. r.volume \in Volumes /\ r.readOnly \in BOOLEAN
  BY StageRequestsAssumption
<1>2. PICK w \in MatchingExports(r.volume) :
         \/ /\ Continue(h, MountPlan("stage", r, ExportPath(w), StagingPath(r.volume),
                                     StageReadOnly(r, w)))
            /\ UNCHANGED <<staged, published>>
         \/ Acknowledge("stage", r) /\ UNCHANGED call
  BY DEF NodeStageVolume
<1>3. w = r.volume /\ exports[r.volume] \in Exports
  BY <1>1, ConfigsAssumption DEF MatchingExports, NodeTypeOK
<1>4. UNCHANGED <<faults, mounts, up, exports, gone>>
  BY DEF NodeStageVolume
<1>5. CASE Acknowledge("stage", r) /\ UNCHANGED call
  BY <1>4, <1>5, AcknowledgeType DEF NodeTypeOK, FaultsTypeOK, MountsTypeOK
<1> DEFINE plan == MountPlan("stage", r, ExportPath(w), StagingPath(r.volume),
                             StageReadOnly(r, w))
<1>6. CASE Continue(h, plan) /\ UNCHANGED <<staged, published>>
  <2>1. StageReadOnly(r, w) \in BOOLEAN
    BY <1>1, <1>3 DEF StageReadOnly, Exports
  <2>2. FitsRequest(plan)
    BY <1>3 DEF FitsRequest, MountPlan
  <2>3. CallOK(plan)
    BY <1>1, <1>3, <2>1, <2>2, PlanOK, PathsOfRequests
  <2> QED
    BY <1>4, <1>6, <2>3, ContinueType DEF NodeTypeOK, FaultsTypeOK, MountsTypeOK
<1> QED
  BY <1>2, <1>5, <1>6

LEMMA PublishType ==
    ASSUME NodeTypeOK, NEW h \in Handlers, NEW r \in PublishRequests,
           NodePublishVolume(h, r)
    PROVE  NodeTypeOK'
<1>1. r.volume \in Volumes /\ r.target \in Targets /\ r.readOnly \in BOOLEAN
  BY PublishRequestsAssumption
<1>2. UNCHANGED <<faults, mounts, up, exports>> /\ gone' \subseteq Targets
  BY DEF NodePublishVolume, NodeTypeOK
<1>3. CASE Acknowledge("publish", r) /\ UNCHANGED call
  BY <1>2, <1>3, AcknowledgeType DEF NodeTypeOK, FaultsTypeOK, MountsTypeOK
<1> DEFINE plan == MountPlan("publish", r, StagingPath(r.volume),
                             TargetPath(r.target), r.readOnly)
<1>4. CASE Continue(h, plan) /\ UNCHANGED <<staged, published>>
  <2>1. FitsRequest(plan)
    BY DEF FitsRequest, MountPlan
  <2>2. CallOK(plan)
    BY <1>1, <2>1, PlanOK, PathsOfRequests
  <2> QED
    BY <1>2, <1>4, <2>2, ContinueType DEF NodeTypeOK, FaultsTypeOK, MountsTypeOK
<1> QED
  BY <1>3, <1>4 DEF NodePublishVolume

LEMMA UndoType ==
    ASSUME NodeTypeOK, NEW h \in Handlers,
           \/ \E v \in Unstageable : NodeUnstageVolume(h, v)
           \/ \E t \in Unpublishable : NodeUnpublishVolume(h, t)
    PROVE  NodeTypeOK'
<1>1. ASSUME NEW v \in Unstageable, NodeUnstageVolume(h, v)
      PROVE  NodeTypeOK'
  <2> DEFINE plan == [step |-> "umount", operation |-> "unstage", of |-> v]
  <2>1. CallOK(plan)
    BY <1>1 DEF CallOK, Calls, UnmountPlans
  <2>2. /\ Continue(h, plan) \/ UNCHANGED call
        /\ staged' \subseteq Volumes
        /\ UNCHANGED <<faults, mounts, up, exports, published, gone>>
    BY <1>1 DEF NodeUnstageVolume, NodeTypeOK
  <2> HIDE DEF plan
  <2> QED
    BY <2>1, <2>2, ContinueType DEF NodeTypeOK, FaultsTypeOK, MountsTypeOK
<1>2. ASSUME NEW t \in Unpublishable, NodeUnpublishVolume(h, t)
      PROVE  NodeTypeOK'
  <2> DEFINE plan == [step |-> "umount", operation |-> "unpublish", of |-> t]
  <2>1. CallOK(plan)
    BY <1>2 DEF CallOK, Calls, UnmountPlans
  <2>2. t \in Targets
    BY <1>2, TeardownAssumption
  <2>3. /\ Continue(h, plan) \/ UNCHANGED call
        /\ published' \in [Targets -> Publishes \cup {NoPublish}]
        /\ gone' \subseteq Targets
        /\ UNCHANGED <<faults, mounts, up, exports, staged>>
    BY <1>2, <2>2 DEF NodeUnpublishVolume, Release, NodeTypeOK
  <2> HIDE DEF plan
  <2> QED
    BY <2>1, <2>3, ContinueType DEF NodeTypeOK, FaultsTypeOK, MountsTypeOK
<1> QED
  BY <1>1, <1>2

\* Every step of a handler after its request leaves all variables well typed.
LEMMA BindType ==
    ASSUME NodeTypeOK, NEW h \in Handlers, Bind(h)
    PROVE  NodeTypeOK'
<1>1. /\ call[h] \in MountPlans /\ FitsRequest(call[h])
      /\ call[h].source \in Paths /\ call[h].target \in Paths
  BY PlannedPaths DEF Bind, AtStep
<1>2. PICK ok \in BOOLEAN :
         /\ BindMount(call[h].source, call[h].target, ok)
         /\ Continue(h, IF ok THEN AfterBind(call[h]) ELSE Idle)
  BY DEF Bind
<1>3. FaultsTypeOK' /\ MountsTypeOK'
  BY <1>1, <1>2, BindMountEffect DEF NodeTypeOK
<1>4. CallOK(AfterBind(call[h]))
  <2>1. CallOK(Then(call[h], "remount")) /\ CallOK(Then(call[h], "reply"))
    BY <1>1, ThenType DEF CallOK, Calls
  <2> QED
    BY <2>1 DEF AfterBind
<1>5. CallOK(IF ok THEN AfterBind(call[h]) ELSE Idle)
  BY <1>4, IdleOK
<1>6. UNCHANGED <<up, exports, staged, published, gone>>
  BY DEF Bind
<1> QED
  BY <1>2, <1>3, <1>5, <1>6, ContinueType DEF NodeTypeOK

LEMMA RemountType ==
    ASSUME NodeTypeOK, NEW h \in Handlers, Remount(h)
    PROVE  NodeTypeOK'
<1>1. /\ call[h] \in MountPlans /\ FitsRequest(call[h])
      /\ call[h].target \in Paths
  BY PlannedPaths DEF Remount, AtStep
<1>2. PICK ok \in BOOLEAN :
         /\ RemountReadOnly(call[h].target, ok)
         /\ Continue(h, IF ok THEN Then(call[h], "reply") ELSE Idle)
  BY DEF Remount
<1>3. FaultsTypeOK' /\ MountsTypeOK'
  BY <1>1, <1>2, RemountEffect DEF NodeTypeOK
<1>4. CallOK(Then(call[h], "reply"))
  BY <1>1, ThenType DEF CallOK, Calls
<1>5. CallOK(IF ok THEN Then(call[h], "reply") ELSE Idle)
  BY <1>4, IdleOK
<1>6. UNCHANGED <<up, exports, staged, published, gone>>
  BY DEF Remount
<1> QED
  BY <1>2, <1>3, <1>5, <1>6, ContinueType DEF NodeTypeOK

LEMMA AnswerType ==
    ASSUME NodeTypeOK, NEW h \in Handlers, Answer(h)
    PROVE  NodeTypeOK'
<1>1. call[h] \in MountPlans
  BY PlannedPaths DEF Answer, AtStep
<1>2. \/ call[h].operation = "stage" /\ call[h].request \in StageRequests
      \/ call[h].operation = "publish" /\ call[h].request \in PublishRequests
  BY <1>1 DEF MountPlans
<1>3. /\ staged' \subseteq Volumes
      /\ published' \in [Targets -> Publishes \cup {NoPublish}]
  BY <1>2, AcknowledgeType DEF Answer
<1>4. Continue(h, Idle) /\ UNCHANGED <<faults, mounts, up, exports, gone>>
  BY DEF Answer, Return, Continue
<1> QED
  BY <1>3, <1>4, IdleOK, ContinueType DEF NodeTypeOK, FaultsTypeOK, MountsTypeOK

\* The path a handler is about to unmount.
LEMMA UnmountedPath ==
    ASSUME NodeTypeOK, NEW h \in Handlers, AtStep(h, "umount")
    PROVE  /\ call[h].operation = "unstage" => call[h].of \in Volumes
           /\ call[h].operation = "unpublish" => call[h].of \in Targets
BY CallShape, TeardownAssumption DEF NodeTypeOK, AtStep, UnmountPlans

LEMMA UnmountType ==
    ASSUME NodeTypeOK, NEW h \in Handlers, UnmountStaging(h) \/ UnmountTarget(h)
    PROVE  NodeTypeOK'
<1>1. ASSUME NEW p \in Paths, NEW ok \in BOOLEAN, Unmount(p, ok)
      PROVE  FaultsTypeOK' /\ MountsTypeOK'
  BY <1>1, UnmountEffect DEF NodeTypeOK
<1>2. FaultsTypeOK' /\ MountsTypeOK'
  <2>1. CASE UnmountStaging(h)
    BY <1>1, <2>1, UnmountedPath, PathsOfRequests DEF UnmountStaging
  <2>2. CASE UnmountTarget(h)
    BY <1>1, <2>2, UnmountedPath, PathsOfRequests DEF UnmountTarget
  <2> QED
    BY <2>1, <2>2
<1>3. gone' \subseteq Targets
  <2>1. CASE UnmountStaging(h)
    BY <2>1 DEF UnmountStaging, NodeTypeOK
  <2>2. CASE UnmountTarget(h)
    BY <2>2, UnmountedPath DEF UnmountTarget, Release, NodeTypeOK
  <2> QED
    BY <2>1, <2>2
<1>4. Continue(h, Idle) /\ UNCHANGED <<up, exports, staged, published>>
  BY DEF UnmountStaging, UnmountTarget, Return, Continue
<1> QED
  BY <1>2, <1>3, <1>4, IdleOK, ContinueType DEF NodeTypeOK

\* The guest's mount of an export is a mount of the table.
LEMMA ExportMountType ==
    ASSUME NodeTypeOK, NEW v \in Volumes, ExportMounted(v) \/ ExportUnmounted(v)
    PROVE  NodeTypeOK'
<1>1. ExportPath(v) \in Paths
  BY PathsOfRequests
<1>2. CASE ExportMounted(v)
  <2>1. PICK c \in RuntimeConfigs :
          /\ c[v] # NoExport
          /\ mounts' = [mounts EXCEPT ![ExportPath(v)] =
                          <<[source |-> c[v].tag, readOnly |-> c[v].readOnly]>>]
    BY <1>2 DEF ExportMounted
  <2>2. c[v] \in Exports
    BY <2>1, ConfigsAssumption
  <2> DEFINE m == [source |-> c[v].tag, readOnly |-> c[v].readOnly]
  <2>3. m \in Mounts
    BY <2>2 DEF Exports, Mounts
  <2> HIDE DEF m
  <2>4. <<m>> \in Seq(Mounts)
    BY <2>3
  <2>5. MountsTypeOK'
    BY <1>1, <2>1, <2>4 DEF NodeTypeOK, MountsTypeOK, m
  <2> QED
    BY <1>2, <2>5 DEF ExportMounted, NodeTypeOK, FaultsTypeOK
<1>3. CASE ExportUnmounted(v)
  <2>1. FaultsTypeOK'
    BY <1>3, FaultType, FaultKindsAssumption DEF ExportUnmounted, NodeTypeOK
  <2>2. MountsTypeOK'
    BY <1>1, <1>3, EmptySeq DEF ExportUnmounted, NodeTypeOK, MountsTypeOK
  <2> QED
    BY <1>3, <2>1, <2>2 DEF ExportUnmounted, NodeTypeOK
<1> QED
  BY <1>2, <1>3

\* Every variable keeps its type and every planned mount fits its request.
THEOREM NodeTypeCorrect == Spec => []NodeTypeOK
<1>1. Init => NodeTypeOK
  <2> SUFFICES ASSUME Init PROVE NodeTypeOK
    OBVIOUS
  <2>1. FaultsTypeOK
    BY DEF Init, FaultsInit, FaultsTypeOK
  <2>2. MountsTypeOK
    BY EmptySeq DEF Init, MountsTypeOK
  <2> QED
    BY <2>1, <2>2 DEF Init, NodeTypeOK, Calls, Idle
<1>2. NodeTypeOK /\ [Next]_vars => NodeTypeOK'
  <2> SUFFICES ASSUME NodeTypeOK, [Next]_vars PROVE NodeTypeOK'
    OBVIOUS
  <2>1. ASSUME NEW h \in Handlers, Request(h)
        PROVE  NodeTypeOK'
    BY <2>1, StageType, PublishType, UndoType DEF Request
  <2>2. ASSUME NEW h \in Handlers, Advance(h)
        PROVE  NodeTypeOK'
    BY <2>2, BindType, RemountType, AnswerType, UnmountType DEF Advance
  <2>3. CASE Start
    BY <2>3 DEF Start, NodeTypeOK, FaultsTypeOK, MountsTypeOK
  <2>4. CASE Crash
    <3>1. FaultsTypeOK'
      BY <2>4, FaultType, FaultKindsAssumption DEF Crash, NodeTypeOK
    <3> QED
      BY <2>4, <3>1 DEF Crash, NodeTypeOK, MountsTypeOK, Calls, Idle
  <2>5. ASSUME NEW v \in Volumes, ExportMounted(v) \/ ExportUnmounted(v)
        PROVE  NodeTypeOK'
    BY <2>5, ExportMountType
  <2>6. CASE UNCHANGED vars
    BY <2>6 DEF vars, NodeTypeOK, FaultsTypeOK, MountsTypeOK
  <2> QED
    BY <2>1, <2>2, <2>3, <2>4, <2>5, <2>6 DEF Next
<1> QED
  BY <1>1, <1>2, PTL DEF Spec

-----------------------------------------------------------------------------
(***************************************************************************)
(* Confinement                                                             *)
(***************************************************************************)
\* The paths on which a volume may be seen.
Owns(v, p) ==
    \/ p \in {ExportPath(v), StagingPath(v)}
    \/ \E r \in PublishRequests : r.volume = v /\ p = TargetPath(r.target)

\* The inductive invariant: MountsConfined, and the same of the guest's mounts
\* of the exports, which are what stages bind.
Confined == \A v \in Volumes, p \in Paths : Owns(v, p) => ShowsOnly(p, v)

LEMMA ConfinedSuffices ==
    ASSUME Confined
    PROVE  MountsConfined
BY PathsOfRequests, PublishRequestsAssumption DEF Confined, Owns, MountsConfined

\* ShowsOnly in the terms of the lemmas about the mount table.
LEMMA ShowsOnlySources ==
    ASSUME NEW p \in Paths, NEW v \in Volumes
    PROVE  ShowsOnly(p, v) <=> ShowsSources(p, TagsOf(v) \cup {Disk})
BY DEF ShowsOnly, ShowsSources

LEMMA TopShown ==
    ASSUME MountsTypeOK, NEW p \in Paths, NEW v \in Volumes, ShowsOnly(p, v)
    PROVE  Top(p).source \in TagsOf(v) \cup {Disk}
BY TopType DEF Top, ShowsOnly

\* A step that changes the stack of one path keeps the volumes apart when it
\* keeps them apart on that path.
LEMMA OnePathChanges ==
    ASSUME Confined, NEW t \in Paths,
           \A p \in Paths \ {t} : mounts'[p] = mounts[p],
           \A v \in Volumes : Owns(v, t) => ShowsOnly(t, v)'
    PROVE  Confined'
BY DEF Confined, ShowsOnly, Owns

\* What may be seen on the target of a planned mount is what may be seen on
\* its source.
LEMMA SourceOwned ==
    ASSUME NodeTypeOK, NEW h \in Handlers,
           call[h].step \in {"bind", "remount", "reply"},
           NEW v \in Volumes, Owns(v, call[h].target)
    PROVE  Owns(v, call[h].source)
<1>1. call[h] \in MountPlans /\ FitsRequest(call[h])
  BY PlannedPaths
<1>2. CASE call[h].operation = "stage"
  BY <1>1, <1>2 DEF FitsRequest, Owns, ExportPath, StagingPath, TargetPath
<1>3. CASE call[h].operation = "publish"
  <2>1. call[h].request \in PublishRequests
    BY <1>1, <1>3 DEF MountPlans
  <2>2. call[h].target = TargetPath(call[h].request.target)
    BY <1>1, <1>3 DEF FitsRequest
  <2>3. PICK r \in PublishRequests :
          r.volume = v /\ call[h].target = TargetPath(r.target)
    BY <2>2 DEF Owns, ExportPath, StagingPath, TargetPath
  <2>4. r.target = call[h].request.target
    BY <2>2, <2>3 DEF TargetPath
  <2>5. call[h].request.volume = v
    BY <2>1, <2>3, <2>4, PublishRequestsAssumption
  <2> QED
    BY <1>1, <1>3, <2>5 DEF FitsRequest, Owns
<1> QED
  BY <1>1, <1>2, <1>3 DEF MountPlans

LEMMA BindConfined ==
    ASSUME NodeTypeOK, Confined, NEW h \in Handlers, Bind(h)
    PROVE  Confined'
<1>1. call[h].step \in {"bind", "remount", "reply"}
  BY DEF Bind, AtStep
<1>2. PICK s \in Paths, t \in Paths : s = call[h].source /\ t = call[h].target
  BY <1>1, PlannedPaths
<1>3. PICK ok \in BOOLEAN : BindMount(s, t, ok)
  BY <1>2 DEF Bind
<1>4. ASSUME NEW v \in Volumes, Owns(v, t)
      PROVE  ShowsOnly(t, v)'
  <2>1. ShowsOnly(t, v) /\ ShowsOnly(s, v)
    BY <1>1, <1>2, <1>4, SourceOwned DEF Confined
  <2>2. Top(s).source \in TagsOf(v) \cup {Disk}
    BY <2>1, TopShown DEF NodeTypeOK
  <2>3. ShowsSources(t, TagsOf(v) \cup {Disk})
    BY <2>1, ShowsOnlySources
  <2>4. ShowsSources(t, TagsOf(v) \cup {Disk})'
    BY <1>3, <2>2, <2>3, BindMountEffect DEF NodeTypeOK
  <2> QED
    BY <2>4 DEF ShowsOnly, ShowsSources
<1>5. \A p \in Paths \ {t} : mounts'[p] = mounts[p]
  BY <1>3, BindMountEffect DEF NodeTypeOK
<1> QED
  BY <1>4, <1>5, OnePathChanges

\* Remounting and unmounting show nothing new.
LEMMA OthersConfined ==
    ASSUME NodeTypeOK, Confined, NEW t \in Paths, NEW ok \in BOOLEAN,
           RemountReadOnly(t, ok) \/ Unmount(t, ok)
    PROVE  Confined'
<1>1. /\ \A p \in Paths \ {t} : mounts'[p] = mounts[p]
      /\ \A S : ShowsSources(t, S) => ShowsSources(t, S)'
  BY RemountEffect, UnmountEffect DEF NodeTypeOK
<1>2. ASSUME NEW v \in Volumes, Owns(v, t)
      PROVE  ShowsOnly(t, v)'
  <2>1. ShowsSources(t, TagsOf(v) \cup {Disk})
    BY <1>2, ShowsOnlySources DEF Confined
  <2>2. ShowsSources(t, TagsOf(v) \cup {Disk})'
    BY <1>1, <2>1
  <2> QED
    BY <2>2 DEF ShowsOnly, ShowsSources
<1> QED
  BY <1>1, <1>2, OnePathChanges

LEMMA AdvanceConfined ==
    ASSUME NodeTypeOK, Confined, NEW h \in Handlers, Advance(h)
    PROVE  Confined'
<1>1. CASE Bind(h)
  BY <1>1, BindConfined
<1>2. CASE Remount(h)
  BY <1>2, PlannedPaths, OthersConfined DEF Remount, AtStep
<1>3. CASE Answer(h)
  BY <1>3 DEF Answer, Confined, ShowsOnly, Owns
<1>4. CASE UnmountStaging(h)
  BY <1>4, UnmountedPath, PathsOfRequests, OthersConfined DEF UnmountStaging
<1>5. CASE UnmountTarget(h)
  BY <1>5, UnmountedPath, PathsOfRequests, OthersConfined DEF UnmountTarget
<1> QED
  BY <1>1, <1>2, <1>3, <1>4, <1>5 DEF Advance

\* The guest mounts on the path of an export a share of that export.
LEMMA ExportsConfined ==
    ASSUME NodeTypeOK, Confined, NEW v \in Volumes,
           ExportMounted(v) \/ ExportUnmounted(v)
    PROVE  Confined'
<1> DEFINE t == ExportPath(v)
<1>1. t \in Paths
  BY PathsOfRequests
<1>2. \A p \in Paths \ {t} : mounts'[p] = mounts[p]
  BY DEF ExportMounted, ExportUnmounted, NodeTypeOK, MountsTypeOK
<1>3. \A w \in Volumes : Owns(w, t) => w = v
  BY DEF Owns, ExportPath, StagingPath, TargetPath
<1>4. ShowsOnly(t, v)'
  <2>1. CASE ExportMounted(v)
    <3>1. PICK c \in RuntimeConfigs :
            /\ c[v] # NoExport
            /\ mounts' = [mounts EXCEPT ![t] =
                            <<[source |-> c[v].tag, readOnly |-> c[v].readOnly]>>]
      BY <2>1 DEF ExportMounted
    <3>2. c[v].tag \in TagsOf(v)
      BY <3>1 DEF TagsOf
    <3>3. mounts'[t] = <<[source |-> c[v].tag, readOnly |-> c[v].readOnly]>>
      BY <1>1, <3>1 DEF NodeTypeOK, MountsTypeOK
    <3> HIDE DEF t
    <3> QED
      BY <3>2, <3>3 DEF ShowsOnly
  <2>2. CASE ExportUnmounted(v)
    <3>1. mounts'[t] = <<>>
      BY <1>1, <2>2 DEF ExportUnmounted, NodeTypeOK, MountsTypeOK
    <3> HIDE DEF t
    <3> QED
      BY <3>1 DEF ShowsOnly
  <2> QED
    BY <2>1, <2>2
<1> HIDE DEF t
<1> QED
  BY <1>1, <1>2, <1>3, <1>4, OnePathChanges

\* Whatever is mounted on a staging path or a target is a share of the volume
\* it belongs to, under every interleaving, failure and configuration change.
THEOREM PodsAreConfined == Spec => []MountsConfined
<1>1. Init => Confined
  BY DEF Init, Confined, ShowsOnly
<1>2. NodeTypeOK /\ Confined /\ [Next]_vars => Confined'
  <2> SUFFICES ASSUME NodeTypeOK, Confined, [Next]_vars PROVE Confined'
    OBVIOUS
  <2>1. CASE UNCHANGED mounts
    BY <2>1 DEF Confined, ShowsOnly, Owns
  <2>2. ASSUME NEW h \in Handlers, Request(h)
        PROVE  UNCHANGED mounts
    BY <2>2 DEF Request, NodeStageVolume, NodePublishVolume, NodeUnstageVolume,
                NodeUnpublishVolume
  <2>3. ASSUME NEW h \in Handlers, Advance(h)
        PROVE  Confined'
    BY <2>3, AdvanceConfined
  <2>4. ASSUME NEW v \in Volumes, ExportMounted(v) \/ ExportUnmounted(v)
        PROVE  Confined'
    BY <2>4, ExportsConfined
  <2>5. CASE Start \/ Crash \/ UNCHANGED vars
    BY <2>1, <2>5 DEF Start, Crash, vars
  <2> QED
    BY <2>1, <2>2, <2>3, <2>4, <2>5 DEF Next
<1>3. Confined => MountsConfined
  BY ConfinedSuffices
<1> QED
  BY <1>1, <1>2, <1>3, NodeTypeCorrect, PTL DEF Spec
=============================================================================
