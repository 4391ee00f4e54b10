----------------------- MODULE NodePluginSerialProofs -----------------------
(***************************************************************************)
(* Proofs about NodePlugin under a caller that never lets two calls touch  *)
(* the same path (SerialSpec), for all volumes, pods, requests,            *)
(* configurations, numbers of handlers and numbers of faults.              *)
(***************************************************************************)
EXTENDS NodePluginProofs

-----------------------------------------------------------------------------
(***************************************************************************)
(* Every behaviour of SerialSpec is one of Spec, and with one handler the  *)
(* other way round.                                                        *)
(***************************************************************************)
LEMMA SerialStep ==
    ASSUME [SerialNext]_vars
    PROVE  [Next]_vars
BY DEF SerialNext, SerialRequest, Next, Request

LEMMA SerialInvariants == SerialSpec => [](NodeTypeOK /\ MountsConfined)
<1>1. [SerialNext]_vars => [Next]_vars
  BY SerialStep
<1> QED
  BY <1>1, NodeTypeCorrect, PodsAreConfined, PTL DEF SerialSpec, Spec

\* With one handler there is no call in flight when a request comes.
OneHandler == \A g, h \in Handlers : g = h

\* A plugin that works off its calls one by one (the gRPC server does not, its
\* caller may) is a case of SerialSpec, so that what is proved of SerialSpec
\* holds of one handler without a condition on the callers.
THEOREM OneHandlerIsSerial ==
    ASSUME OneHandler
    PROVE  Spec => SerialSpec
<1>1. ASSUME NEW h \in Handlers, HandlerIdle(h)
      PROVE  \A p : Quiet(p) /\ Unread(p)
  BY <1>1 DEF OneHandler, HandlerIdle, Quiet, Unread, AtStep, Idle
<1>2. [Next]_vars => [SerialNext]_vars
  <2> SUFFICES ASSUME NEW h \in Handlers, Request(h)
               PROVE  SerialRequest(h)
    BY DEF Next, SerialNext
  <2>1. HandlerIdle(h)
    BY DEF Request, NodeStageVolume, NodePublishVolume, NodeUnstageVolume, NodeUnpublishVolume
  <2> QED
    BY <1>1, <2>1 DEF Request, SerialRequest
<1> QED
  BY <1>2, PTL DEF Spec, SerialSpec

-----------------------------------------------------------------------------
(***************************************************************************)
(* Paths and calls                                                         *)
(***************************************************************************)
LEMMA PathsDiffer ==
    /\ \A v, w : /\ ExportPath(v) # StagingPath(w)
                 /\ ExportPath(v) # TargetPath(w)
                 /\ StagingPath(v) # TargetPath(w)
    /\ \A v, w : StagingPath(v) = StagingPath(w) => v = w
    /\ \A v, w : TargetPath(v) = TargetPath(w) => v = w
BY DEF ExportPath, StagingPath, TargetPath

MountSteps == {"bind", "remount", "reply"}

\* What a call in flight is about.
StageCall(c) ==
    /\ c.step \in MountSteps /\ c.operation = "stage"
    /\ c.request \in StageRequests /\ c.request.volume \in Volumes
    /\ c.source = ExportPath(c.request.volume)
    /\ c.target = StagingPath(c.request.volume)
PublishCall(c) ==
    /\ c.step \in MountSteps /\ c.operation = "publish"
    /\ c.request \in PublishRequests
    /\ c.request.volume \in Volumes /\ c.request.target \in Targets
    /\ c.source = StagingPath(c.request.volume)
    /\ c.target = TargetPath(c.request.target)
UnstageCall(c) == c.step = "umount" /\ c.operation = "unstage" /\ c.of \in Volumes
UnpublishCall(c) == c.step = "umount" /\ c.operation = "unpublish" /\ c.of \in Targets

LEMMA CallKinds ==
    ASSUME NEW c, CallOK(c)
    PROVE  \/ c = Idle /\ c.step = "idle"
           \/ StageCall(c) \/ PublishCall(c) \/ UnstageCall(c) \/ UnpublishCall(c)
<1>1. CASE c = Idle
  BY <1>1 DEF Idle
<1>2. CASE c \in MountPlans
  BY <1>2, StageRequestsAssumption, PublishRequestsAssumption
  DEF CallOK, MountPlans, FitsRequest, StageCall, PublishCall, MountSteps
<1>3. CASE c \in UnmountPlans
  BY <1>3, TeardownAssumption DEF UnmountPlans, UnstageCall, UnpublishCall
<1> QED
  BY <1>1, <1>2, <1>3 DEF CallOK, Calls

LEMMA ChangedPaths ==
    ASSUME NEW c
    PROVE  /\ StageCall(c) => /\ ChangedPath(c) = c.target
                              /\ c.source \in Paths /\ c.target \in Paths
           /\ PublishCall(c) => /\ ChangedPath(c) = c.target
                                /\ c.source \in Paths /\ c.target \in Paths
           /\ UnstageCall(c) => ChangedPath(c) = StagingPath(c.of) /\ StagingPath(c.of) \in Paths
           /\ UnpublishCall(c) => ChangedPath(c) = TargetPath(c.of) /\ TargetPath(c.of) \in Paths
BY PathsOfRequests
DEF ChangedPath, StageCall, PublishCall, UnstageCall, UnpublishCall, MountSteps

-----------------------------------------------------------------------------
(***************************************************************************)
(* The inductive invariant                                                 *)
(***************************************************************************)
\* Nothing is mounted on top of another mount.
NoStacks == \A p \in Paths : mounts[p] = <<>> \/ \E m \in Mounts : mounts[p] = <<m>>

\* What a call in flight has found or made is still there: nothing is mounted
\* on what it is about to bind, a publish binds a virtiofs mount, and what is
\* being undone is no longer acknowledged.
CallSound(c) ==
    /\ c.step = "bind" => ~Mounted(c.target)
    /\ c.step \in {"remount", "reply"} => Mounted(c.target)
    /\ c.step = "bind" /\ c.operation = "publish" => IsVirtiofs(Top(c.source))
    /\ c.step \in {"remount", "reply"} /\ c.operation = "publish" => IsVirtiofs(Top(c.target))
    /\ c.step = "umount" /\ c.operation = "unstage" => c.of \notin staged
    /\ c.step = "umount" /\ c.operation = "unpublish" => published[c.of] = NoPublish
CallsSound == \A h \in Handlers : CallSound(call[h])

\* No two calls in flight change the same path, and no unstage is under way
\* when a publish binds the staging directory.
Apart(c, d) ==
    c.step # "idle" =>
        /\ d.step # "idle" => ChangedPath(c) # ChangedPath(d)
        /\ c.step = "umount" /\ d.step = "bind" => ChangedPath(c) # d.source
CallsApart == \A g, h \in Handlers : g # h => Apart(call[g], call[h])

ReadOnlyExport(v) == \E c \in RuntimeConfigs : c[v] # NoExport /\ c[v].readOnly

\* An acknowledged publish has nothing in flight, shows a share, and stands for
\* a request.
Grounded(t, promise) ==
    \E r \in PublishRequests :
       /\ r.target = t
       /\ promise.tag \in TagsOf(r.volume)
       /\ promise.readOnly => r.readOnly \/ ReadOnlyExport(r.volume)
PublishedMounted ==
    \A t \in Targets : published[t] # NoPublish =>
       /\ ~PublishInFlight(t)
       /\ IsVirtiofs(Top(TargetPath(t)))
       /\ Grounded(t, published[t])

GoneQuiet == \A t \in gone : ~Mounted(TargetPath(t)) /\ ~PublishInFlight(t)

SerialInv == NoStacks /\ CallsSound /\ CallsApart /\ PublishedMounted /\ GoneQuiet

-----------------------------------------------------------------------------
(***************************************************************************)
(* The mount commands on paths with at most one mount                      *)
(***************************************************************************)
\* What can be seen on a path follows from its mounts.
LEMMA SameMounts ==
    ASSUME NEW p, mounts'[p] = mounts[p]
    PROVE  (Mounted(p)' <=> Mounted(p)) /\ Top(p)' = Top(p)
BY DEF Mounted, Top

LEMMA OneMounted ==
    ASSUME NEW p, NEW m, mounts'[p] = <<m>>
    PROVE  Mounted(p)' /\ Top(p)' = m
BY DEF Mounted, Top

LEMMA NoneMounted ==
    ASSUME NEW p, mounts'[p] = <<>>
    PROVE  ~Mounted(p)' /\ Top(p)' = [source |-> Disk, readOnly |-> FALSE]
BY DEF Mounted, Top

\* A step that changes the mounts of t at most.
OnlyAt(t) == \A p \in Paths \ {t} : mounts'[p] = mounts[p]

LEMMA AppendToNone ==
    ASSUME NEW m
    PROVE  Append(<<>>, m) = <<m>>
<1>1. <<>> \in Seq({m}) /\ <<m>> \in Seq({m}) /\ m \in {m}
  BY EmptySeq
<1>2. /\ Append(<<>>, m) \in Seq({m})
      /\ Len(Append(<<>>, m)) = Len(<<>>) + 1
      /\ Append(<<>>, m)[Len(<<>>) + 1] = m
  BY <1>1, AppendProperties
<1>3. Len(Append(<<>>, m)) = 1 /\ Append(<<>>, m)[1] = m
  BY <1>2, EmptySeq
<1>4. Len(<<m>>) = 1 /\ <<m>>[1] = m
  OBVIOUS
<1> QED
  BY <1>1, <1>2, <1>3, <1>4, SeqEqual

LEMMA SerialBind ==
    ASSUME MountsTypeOK, NEW s \in Paths, NEW t \in Paths, ~Mounted(t),
           NEW ok \in BOOLEAN, BindMount(s, t, ok)
    PROVE  /\ OnlyAt(t)
           /\ ok => NoFault /\ mounts'[t] = <<Top(s)>> /\ Top(s) \in Mounts
           /\ ~ok => Fault("mount") /\ UNCHANGED mounts
<1>1. Append(mounts[t], Top(s)) = <<Top(s)>>
  BY AppendToNone DEF Mounted
<1>2. Top(s) \in Mounts
  BY TopType
<1> QED
  BY <1>1, <1>2 DEF BindMount, MountsTypeOK, OnlyAt

LEMMA SerialRemount ==
    ASSUME MountsTypeOK, NoStacks, NEW t \in Paths, Mounted(t),
           NEW ok \in BOOLEAN, RemountReadOnly(t, ok)
    PROVE  /\ OnlyAt(t)
           /\ ok => /\ NoFault
                    /\ mounts'[t] = <<[source |-> Top(t).source, readOnly |-> TRUE]>>
                    /\ [source |-> Top(t).source, readOnly |-> TRUE] \in Mounts
           /\ ~ok => Fault("mount") /\ UNCHANGED mounts
<1>1. PICK m \in Mounts : mounts[t] = <<m>>
  BY DEF NoStacks, Mounted
<1> DEFINE new == [source |-> Top(t).source, readOnly |-> TRUE]
<1>2. new \in Mounts
  BY TopType DEF Mounts
<1> HIDE DEF new
<1>3. Append(SubSeq(mounts[t], 1, Len(mounts[t]) - 1), new) = <<new>>
  <2>1. SubSeq(mounts[t], 1, Len(mounts[t]) - 1) = <<>>
    BY <1>1, SubSeqEmpty
  <2> QED
    BY <2>1, AppendToNone
<1>4. CASE ok
  <2>1. mounts' = [mounts EXCEPT ![t] = Append(SubSeq(@, 1, Len(@) - 1), new)] /\ NoFault
    BY <1>4 DEF RemountReadOnly, new
  <2> QED
    BY <1>2, <1>3, <1>4, <2>1 DEF MountsTypeOK, OnlyAt, new
<1>5. CASE ~ok
  BY <1>5 DEF RemountReadOnly, OnlyAt
<1> QED
  BY <1>4, <1>5

LEMMA SerialUnmount ==
    ASSUME MountsTypeOK, NoStacks, NEW t \in Paths,
           NEW ok \in BOOLEAN, Unmount(t, ok)
    PROVE  /\ OnlyAt(t)
           /\ ok => mounts'[t] = <<>>
           /\ ~ok => UNCHANGED mounts
<1>1. CASE ok
  <2>1. PICK m \in Mounts : mounts[t] = <<m>>
    BY <1>1 DEF NoStacks, Mounted, Unmount
  <2>2. SubSeq(mounts[t], 1, Len(mounts[t]) - 1) = <<>>
    BY <2>1
  <2>3. mounts' = [mounts EXCEPT ![t] = SubSeq(@, 1, Len(@) - 1)]
    BY <1>1 DEF Unmount
  <2> QED
    BY <1>1, <2>2, <2>3 DEF MountsTypeOK, OnlyAt
<1>2. CASE ~ok
  BY <1>2 DEF Unmount, OnlyAt
<1> QED
  BY <1>1, <1>2

-----------------------------------------------------------------------------
(***************************************************************************)
(* Requests                                                                *)
(***************************************************************************)
\* What the call of a handler is about.
LEMMA HandlerCalls ==
    ASSUME NodeTypeOK, NEW g \in Handlers
    PROVE  \/ call[g] = Idle /\ call[g].step = "idle"
           \/ StageCall(call[g]) \/ PublishCall(call[g])
           \/ UnstageCall(call[g]) \/ UnpublishCall(call[g])
BY CallKinds DEF NodeTypeOK, CallOK, MountSteps

\* A share is not the root disk.
LEMMA VirtiofsMounted ==
    ASSUME NEW p, IsVirtiofs(Top(p))
    PROVE  Mounted(p)
BY DiskAssumption DEF IsVirtiofs, Top

\* With at most one mount the first one is the one that is seen.
LEMMA FoundIsTop ==
    ASSUME NoStacks, NEW p \in Paths, Mounted(p)
    PROVE  FoundMount(p) = Top(p)
BY DEF NoStacks, Mounted, FoundMount, Top

\* A publish in flight changes the target it is for.
LEMMA InFlightChanges ==
    ASSUME NodeTypeOK, NEW t, PublishInFlight(t)
    PROVE  ~Quiet(TargetPath(t))
<1>1. PICK g \in Handlers : /\ call[g].step \in MountSteps
                            /\ call[g].operation = "publish"
                            /\ call[g].request.target = t
  BY DEF PublishInFlight, MountSteps
<1>2. PublishCall(call[g])
  BY <1>1, HandlerCalls DEF MountSteps, StageCall, UnstageCall, UnpublishCall
<1> QED
  BY <1>1, <1>2, ChangedPaths DEF Quiet, AtStep, PublishCall, MountSteps

\* A handler takes a new call and nothing is mounted or unmounted.
Takes(h, c) == call' = [call EXCEPT ![h] = c] /\ UNCHANGED mounts

\* Taking a call that changes a quiet path keeps the calls apart.
LEMMA TakesApart ==
    ASSUME NodeTypeOK, CallsApart, NEW h \in Handlers, NEW c, Takes(h, c),
           Quiet(ChangedPath(c)),
           c.step = "umount" => Unread(ChangedPath(c)),
           c.step = "bind" =>
               \A g \in Handlers : AtStep(g, "umount") => ChangedPath(call[g]) # c.source
    PROVE  CallsApart'
<1>1. /\ call'[h] = c
      /\ \A g \in Handlers \ {h} : call'[g] = call[g]
  BY DEF Takes, NodeTypeOK
<1> SUFFICES ASSUME NEW f \in Handlers, NEW g \in Handlers, f # g
             PROVE  Apart(call'[f], call'[g])
  BY DEF CallsApart, Apart, ChangedPath, StagingPath, TargetPath
<1>2. CASE f # h /\ g # h
  BY <1>1, <1>2 DEF CallsApart
<1>3. CASE f = h
  BY <1>1, <1>3 DEF Apart, Quiet, Unread, AtStep
<1>4. CASE g = h
  BY <1>1, <1>4 DEF Apart, Quiet, Unread, AtStep
<1> QED
  BY <1>2, <1>3, <1>4

\* The calls that stay as they are stay sound when nothing they rely on changes.
LEMMA CallKeptSound ==
    ASSUME NEW c, CallSound(c), UNCHANGED mounts,
           c.step = "umount" /\ c.operation = "unstage" => c.of \notin staged',
           c.step = "umount" /\ c.operation = "unpublish" => published'[c.of] = NoPublish
    PROVE  CallSound(c)'
BY DEF CallSound, Mounted, Top, IsVirtiofs

\* What is being undone is not acknowledged by the step either.
UndoneStays ==
    \A g \in Handlers : AtStep(g, "umount") =>
       /\ call[g].operation = "unstage" => call[g].of \notin staged'
       /\ call[g].operation = "unpublish" => published'[call[g].of] = NoPublish

LEMMA SoundKept ==
    ASSUME NodeTypeOK, CallsSound, UNCHANGED mounts, UndoneStays,
           \/ UNCHANGED call
           \/ \E h \in Handlers : \E c : Takes(h, c) /\ CallSound(c)'
    PROVE  CallsSound'
<1> SUFFICES ASSUME NEW g \in Handlers PROVE CallSound(call[g])'
  BY DEF CallsSound
<1>1. CASE call'[g] = call[g]
  <2>1. PICK c : c = call[g] /\ c = call'[g]
    BY <1>1
  <2>2. CallSound(c)'
    BY <2>1, CallKeptSound DEF CallsSound, UndoneStays, AtStep
  <2> QED
    BY <2>1, <2>2 DEF CallSound, IsVirtiofs, Top, Mounted
<1>2. CASE call'[g] # call[g]
  <2>1. PICK c : call'[g] = c /\ CallSound(c)'
    BY <1>2 DEF Takes, NodeTypeOK
  <2> QED
    BY <2>1 DEF CallSound, IsVirtiofs, Top, Mounted
<1> QED
  BY <1>1, <1>2

\* A new call puts no other publish in flight than its own.
LEMMA TakesPublish ==
    ASSUME NodeTypeOK, NEW h \in Handlers, NEW c,
           call' = [call EXCEPT ![h] = c],
           NEW t, PublishInFlight(t)'
    PROVE  \/ PublishInFlight(t)
           \/ c.step \in MountSteps /\ c.operation = "publish" /\ c.request.target = t
BY DEF NodeTypeOK, PublishInFlight, MountSteps

\* What stays acknowledged and what stays gone when nothing is mounted.
LEMMA PublishedKept ==
    ASSUME PublishedMounted, UNCHANGED mounts,
           \A t \in Targets : published'[t] \in {published[t], NoPublish},
           \A t \in Targets : PublishInFlight(t)' /\ published[t] # NoPublish => PublishInFlight(t)
    PROVE  PublishedMounted'
BY DEF PublishedMounted, Top, Mounted, IsVirtiofs, Grounded

LEMMA GoneKept ==
    ASSUME GoneQuiet, UNCHANGED mounts, gone' \subseteq gone,
           \A t \in gone' : PublishInFlight(t)' => PublishInFlight(t)
    PROVE  GoneQuiet'
BY DEF GoneQuiet, Mounted

LEMMA StageSerial ==
    ASSUME NodeTypeOK, SerialInv, NEW h \in Handlers, NEW r \in StageRequests,
           Quiet(StagingPath(r.volume)), NodeStageVolume(h, r)
    PROVE  SerialInv'
<1> DEFINE staging == StagingPath(r.volume)
           plan(w) == MountPlan("stage", r, ExportPath(w), staging, StageReadOnly(r, w))
<1>1. /\ UNCHANGED <<faults, mounts, exports, gone, published>>
      /\ \/ /\ ~Mounted(staging)
            /\ \E w \in MatchingExports(r.volume) : Continue(h, plan(w))
            /\ UNCHANGED staged
         \/ staged' = staged \cup {r.volume} /\ UNCHANGED call
  BY DEF NodeStageVolume, Acknowledge
<1>2. NoStacks'
  BY <1>1 DEF SerialInv, NoStacks
<1>3. CASE UNCHANGED call /\ staged' = staged \cup {r.volume}
  <2>1. UndoneStays
    <3> SUFFICES ASSUME NEW g \in Handlers, AtStep(g, "umount"), call[g].operation = "unstage"
                 PROVE  call[g].of \notin staged'
      BY <1>1 DEF UndoneStays, SerialInv, CallsSound, CallSound, AtStep
    <3>1. ChangedPath(call[g]) = StagingPath(call[g].of)
      BY HandlerCalls, ChangedPaths DEF AtStep, ChangedPath
    <3>2. call[g].of # r.volume
      BY <3>1 DEF Quiet, AtStep
    <3>3. call[g].of \notin staged
      BY DEF SerialInv, CallsSound, CallSound, AtStep
    <3> QED
      BY <1>3, <3>2, <3>3
  <2>2. CallsSound'
    BY <1>1, <1>3, <2>1, SoundKept DEF SerialInv
  <2>3. CallsApart' /\ PublishedMounted' /\ GoneQuiet'
    BY <1>1, <1>3 DEF SerialInv, CallsApart, PublishedMounted, GoneQuiet, Mounted, Top,
                      IsVirtiofs, PublishInFlight
  <2> QED
    BY <1>2, <2>2, <2>3 DEF SerialInv
<1>4. ASSUME NEW w \in MatchingExports(r.volume), Continue(h, plan(w)), ~Mounted(staging),
             UNCHANGED staged
      PROVE  SerialInv'
  <2>1. PICK c : c = plan(w)
    OBVIOUS
  <2>2. /\ c.step = "bind" /\ c.operation = "stage"
        /\ c.target = staging /\ c.source = ExportPath(w)
    BY <2>1 DEF MountPlan
  <2>3. Takes(h, c)
    BY <1>1, <1>4, <2>1 DEF Takes, Continue
  <2> HIDE DEF plan
  <2>4. CallSound(c)'
    BY <1>1, <1>4, <2>2 DEF CallSound, Mounted
  <2>5. UndoneStays
    BY <1>1, <1>4 DEF UndoneStays, SerialInv, CallsSound, CallSound, AtStep
  <2>6. CallsSound'
    BY <1>1, <2>3, <2>4, <2>5, SoundKept DEF SerialInv
  <2>7. \A g \in Handlers : AtStep(g, "umount") => ChangedPath(call[g]) # c.source
    BY <2>2, PathsDiffer, HandlerCalls, ChangedPaths
    DEF AtStep, StageCall, PublishCall, UnstageCall, UnpublishCall, MountSteps
  <2>8. CallsApart'
    BY <2>2, <2>3, <2>7, TakesApart DEF SerialInv, ChangedPath
  <2>9. \A t : PublishInFlight(t)' => PublishInFlight(t)
    BY <2>2, <2>3, TakesPublish DEF Takes
  <2>10. PublishedMounted' /\ GoneQuiet'
    BY <1>1, <2>9, PublishedKept, GoneKept DEF SerialInv
  <2> QED
    BY <1>2, <2>6, <2>8, <2>10 DEF SerialInv
<1> QED
  BY <1>1, <1>3, <1>4

LEMMA PublishSerial ==
    ASSUME NodeTypeOK, SerialInv, NEW h \in Handlers, NEW r \in PublishRequests,
           Quiet(TargetPath(r.target)), NodePublishVolume(h, r)
    PROVE  SerialInv'
<1> DEFINE staging == StagingPath(r.volume)
           target == TargetPath(r.target)
           plan == MountPlan("publish", r, staging, target, r.readOnly)
<1>1. /\ UNCHANGED <<faults, mounts, exports>> /\ gone' = gone \ {r.target}
      /\ r.volume \in staged /\ StagingReady(r.volume)
      /\ \/ ~Mounted(target) /\ Continue(h, plan) /\ UNCHANGED <<staged, published>>
         \/ /\ Mounted(target) /\ SameShare(FoundMount(target), FoundMount(staging))
            /\ published' = [published EXCEPT ![r.target] = Promise(r)]
            /\ UNCHANGED <<staged, call>>
  BY DEF NodePublishVolume, Acknowledge
<1>2. NoStacks'
  BY <1>1 DEF SerialInv, NoStacks
<1>3. r.volume \in Volumes /\ r.target \in Targets /\ staging \in Paths /\ target \in Paths
  BY PublishRequestsAssumption, PathsOfRequests
<1>4. FoundMount(staging) = Top(staging) /\ IsVirtiofs(Top(staging))
  BY <1>1, <1>3, FoundIsTop DEF SerialInv, StagingReady
<1>5. CASE /\ Mounted(target) /\ SameShare(FoundMount(target), FoundMount(staging))
           /\ published' = [published EXCEPT ![r.target] = Promise(r)]
           /\ UNCHANGED <<staged, call>>
  <2>1. UndoneStays
    <3> SUFFICES ASSUME NEW g \in Handlers, AtStep(g, "umount"), call[g].operation = "unpublish"
                 PROVE  published'[call[g].of] = NoPublish
      BY <1>5 DEF UndoneStays, SerialInv, CallsSound, CallSound, AtStep
    <3>1. ChangedPath(call[g]) = TargetPath(call[g].of) /\ call[g].of \in Targets
      BY HandlerCalls, ChangedPaths DEF AtStep, ChangedPath, StageCall, PublishCall,
                                        UnstageCall, UnpublishCall, MountSteps
    <3>2. call[g].of # r.target
      BY <3>1 DEF Quiet, AtStep
    <3>3. published[call[g].of] = NoPublish
      BY DEF SerialInv, CallsSound, CallSound, AtStep
    <3> QED
      BY <1>5, <3>1, <3>2, <3>3 DEF NodeTypeOK
  <2>2. CallsSound'
    BY <1>1, <1>5, <2>1, SoundKept DEF SerialInv
  <2>3. CallsApart'
    BY <1>5 DEF SerialInv, CallsApart
  <2>4. ~PublishInFlight(r.target) /\ \A t : PublishInFlight(t)' <=> PublishInFlight(t)
    BY <1>5, InFlightChanges DEF PublishInFlight
  <2>5. IsVirtiofs(Top(target))
    BY <1>3, <1>4, <1>5, FoundIsTop DEF SerialInv, SameShare, Root, IsVirtiofs
  <2>6. Promise(r) # NoPublish => Grounded(r.target, Promise(r))
    BY <1>3 DEF Promise, Grounded, TagsOf, ReadOnlyExport, NodeTypeOK
  <2>7. PublishedMounted'
    BY <1>1, <1>5, <2>4, <2>5, <2>6 DEF SerialInv, PublishedMounted, NodeTypeOK, Top, Mounted,
                                        IsVirtiofs, Grounded
  <2>8. GoneQuiet'
    BY <1>1, <2>4, GoneKept DEF SerialInv
  <2> QED
    BY <1>2, <2>2, <2>3, <2>7, <2>8 DEF SerialInv
<1>6. CASE ~Mounted(target) /\ Continue(h, plan) /\ UNCHANGED <<staged, published>>
  <2>1. PICK c : c = plan
    OBVIOUS
  <2>2. /\ c.step = "bind" /\ c.operation = "publish" /\ c.request = r
        /\ c.target = target /\ c.source = staging
    BY <2>1 DEF MountPlan
  <2>3. Takes(h, c)
    BY <1>1, <1>6, <2>1 DEF Takes, Continue
  <2> HIDE DEF plan
  <2>4. CallSound(c)'
    BY <1>1, <1>4, <1>6, <2>2 DEF CallSound, Mounted, IsVirtiofs, Top
  <2>5. UndoneStays
    BY <1>6 DEF UndoneStays, SerialInv, CallsSound, CallSound, AtStep
  <2>6. CallsSound'
    BY <1>1, <2>3, <2>4, <2>5, SoundKept DEF SerialInv
  <2>7. ASSUME NEW g \in Handlers, AtStep(g, "umount")
        PROVE  ChangedPath(call[g]) # c.source
    <3>1. CASE UnstageCall(call[g])
      <4>1. call[g].of \notin staged
        BY <2>7, <3>1 DEF UnstageCall, SerialInv, CallsSound, CallSound, AtStep
      <4> QED
        BY <1>1, <2>2, <3>1, <4>1, PathsDiffer, ChangedPaths
    <3>2. CASE UnpublishCall(call[g])
      BY <2>2, <3>2, PathsDiffer, ChangedPaths
    <3> QED
      BY <2>7, <3>1, <3>2, HandlerCalls DEF AtStep, StageCall, PublishCall, MountSteps
  <2>8. CallsApart'
    BY <2>2, <2>3, <2>7, TakesApart DEF SerialInv, ChangedPath
  <2>9. \A t : PublishInFlight(t)' => PublishInFlight(t) \/ t = r.target
    BY <2>2, <2>3, TakesPublish DEF Takes
  <2>10. published[r.target] = NoPublish
    BY <1>3, <1>6, VirtiofsMounted DEF SerialInv, PublishedMounted
  <2>11. PublishedMounted' /\ GoneQuiet'
    BY <1>1, <1>6, <2>9, <2>10, PublishedKept, GoneKept DEF SerialInv
  <2> QED
    BY <1>2, <2>6, <2>8, <2>11 DEF SerialInv
<1> QED
  BY <1>1, <1>5, <1>6

LEMMA UnstageSerial ==
    ASSUME NodeTypeOK, SerialInv, NEW h \in Handlers, NEW v \in Unstageable,
           Quiet(StagingPath(v)), Unread(StagingPath(v)), NodeUnstageVolume(h, v)
    PROVE  SerialInv'
<1> DEFINE plan == [step |-> "umount", operation |-> "unstage", of |-> v]
<1>1. /\ UNCHANGED <<mounts, published, gone>> /\ staged' = staged \ {v}
      /\ Continue(h, plan) \/ UNCHANGED call
  BY DEF NodeUnstageVolume
<1>2. NoStacks'
  BY <1>1 DEF SerialInv, NoStacks
<1>3. UndoneStays
  BY <1>1 DEF UndoneStays, SerialInv, CallsSound, CallSound, AtStep
<1>4. CASE UNCHANGED call
  BY <1>1, <1>2, <1>3, <1>4, SoundKept
  DEF SerialInv, CallsApart, PublishedMounted, GoneQuiet, Mounted, Top, IsVirtiofs,
      PublishInFlight
<1>5. CASE Continue(h, plan)
  <2>1. PICK c : c = plan
    OBVIOUS
  <2>2. c.step = "umount" /\ c.operation = "unstage" /\ c.of = v
    BY <2>1
  <2>3. Takes(h, c)
    BY <1>1, <1>5, <2>1 DEF Takes, Continue
  <2> HIDE DEF plan
  <2>4. CallSound(c)'
    BY <1>1, <2>2 DEF CallSound
  <2>5. CallsSound'
    BY <1>1, <1>3, <2>3, <2>4, SoundKept DEF SerialInv
  <2>6. CallsApart'
    BY <2>2, <2>3, TakesApart DEF SerialInv, ChangedPath
  <2>7. \A t : PublishInFlight(t)' => PublishInFlight(t)
    BY <2>2, <2>3, TakesPublish DEF Takes, MountSteps
  <2>8. PublishedMounted' /\ GoneQuiet'
    BY <1>1, <2>7, PublishedKept, GoneKept DEF SerialInv
  <2> QED
    BY <1>2, <2>5, <2>6, <2>8 DEF SerialInv
<1> QED
  BY <1>1, <1>4, <1>5

LEMMA UnpublishSerial ==
    ASSUME NodeTypeOK, SerialInv, NEW h \in Handlers, NEW t \in Unpublishable,
           Quiet(TargetPath(t)), NodeUnpublishVolume(h, t)
    PROVE  SerialInv'
<1> DEFINE plan == [step |-> "umount", operation |-> "unpublish", of |-> t]
<1>1. /\ UNCHANGED <<mounts, staged>> /\ published' = [published EXCEPT ![t] = NoPublish]
      /\ \/ Continue(h, plan) /\ UNCHANGED gone
         \/ ~Mounted(TargetPath(t)) /\ Release(t, TRUE) /\ UNCHANGED call
  BY DEF NodeUnpublishVolume
<1>2. /\ t \in Targets
      /\ published'[t] = NoPublish
      /\ \A u \in Targets : published'[u] \in {published[u], NoPublish}
      /\ \A u \in Targets : published[u] = NoPublish => published'[u] = NoPublish
  BY <1>1, TeardownAssumption DEF NodeTypeOK
<1>3. NoStacks'
  BY <1>1 DEF SerialInv, NoStacks
<1>4. UndoneStays
  <2> SUFFICES ASSUME NEW g \in Handlers, AtStep(g, "umount"), call[g].operation = "unpublish"
               PROVE  published'[call[g].of] = NoPublish
    BY <1>1 DEF UndoneStays, SerialInv, CallsSound, CallSound, AtStep
  <2>1. call[g].of \in Targets
    BY UnmountedPath
  <2>2. published[call[g].of] = NoPublish
    BY DEF SerialInv, CallsSound, CallSound, AtStep
  <2> QED
    BY <1>2, <2>1, <2>2
<1>5. CASE ~Mounted(TargetPath(t)) /\ Release(t, TRUE) /\ UNCHANGED call
  <2>1. CallsSound'
    BY <1>1, <1>4, <1>5, SoundKept DEF SerialInv
  <2>2. CallsApart'
    BY <1>5 DEF SerialInv, CallsApart
  <2>3. \A u : PublishInFlight(u)' <=> PublishInFlight(u)
    BY <1>5 DEF PublishInFlight
  <2>4. PublishedMounted'
    BY <1>1, <1>2, <2>3, PublishedKept DEF SerialInv
  <2>5. gone' \subseteq gone \cup {t} /\ (t \in gone' => t \in gone \/ ~PublishInFlight(t))
    BY <1>5 DEF Release
  <2>6. GoneQuiet'
    BY <1>1, <1>5, <2>3, <2>5 DEF SerialInv, GoneQuiet, Mounted
  <2> QED
    BY <1>3, <2>1, <2>2, <2>4, <2>6 DEF SerialInv
<1>6. CASE Continue(h, plan) /\ UNCHANGED gone
  <2>1. PICK c : c = plan
    OBVIOUS
  <2>2. c.step = "umount" /\ c.operation = "unpublish" /\ c.of = t
    BY <2>1
  <2>3. Takes(h, c)
    BY <1>1, <1>6, <2>1 DEF Takes, Continue
  <2> HIDE DEF plan
  <2>4. CallSound(c)'
    BY <1>2, <2>2 DEF CallSound
  <2>5. CallsSound'
    BY <1>1, <1>4, <2>3, <2>4, SoundKept DEF SerialInv
  <2>6. Unread(TargetPath(t))
    BY PathsDiffer, HandlerCalls
    DEF Unread, AtStep, StageCall, PublishCall, UnstageCall, UnpublishCall, MountSteps
  <2>7. CallsApart'
    BY <2>2, <2>3, <2>6, TakesApart DEF SerialInv, ChangedPath
  <2>8. \A u : PublishInFlight(u)' => PublishInFlight(u)
    BY <2>2, <2>3, TakesPublish DEF Takes, MountSteps
  <2>9. PublishedMounted' /\ GoneQuiet'
    BY <1>1, <1>2, <1>6, <2>8, PublishedKept, GoneKept DEF SerialInv
  <2> QED
    BY <1>3, <2>5, <2>7, <2>9 DEF SerialInv
<1> QED
  BY <1>1, <1>5, <1>6

-----------------------------------------------------------------------------
(***************************************************************************)
(* Mount commands and answers                                              *)
(***************************************************************************)
\* The handler that runs a command is at a call and changes its path.
LEMMA RunsOn ==
    ASSUME NodeTypeOK, NEW h \in Handlers, ~AtStep(h, "idle")
    PROVE  /\ ChangedPath(call[h]) \in Paths
           /\ \A v : ChangedPath(call[h]) # ExportPath(v)
           /\ call[h].step # "umount" =>
                 /\ call[h].source \in Paths /\ call[h].target \in Paths
                 /\ ChangedPath(call[h]) = call[h].target
<1>1. CASE StageCall(call[h])
  BY <1>1, ChangedPaths, PathsDiffer DEF StageCall
<1>2. CASE PublishCall(call[h])
  BY <1>2, ChangedPaths, PathsDiffer DEF PublishCall
<1>3. CASE UnstageCall(call[h])
  BY <1>3, ChangedPaths, PathsDiffer DEF UnstageCall
<1>4. CASE UnpublishCall(call[h])
  BY <1>4, ChangedPaths, PathsDiffer DEF UnpublishCall
<1> QED
  BY <1>1, <1>2, <1>3, <1>4, HandlerCalls DEF AtStep

\* A command of one handler leaves the calls of the others sound, when what
\* another publish is about to bind stays a share.
LEMMA OthersSound ==
    ASSUME NodeTypeOK, CallsSound, CallsApart, UndoneStays,
           NEW h \in Handlers, ~AtStep(h, "idle"), OnlyAt(ChangedPath(call[h])),
           NEW g \in Handlers \ {h}, call'[g] = call[g],
           ASSUME AtStep(g, "bind"), call[g].operation = "publish",
                  call[g].source = ChangedPath(call[h])
           PROVE  IsVirtiofs(Top(call[g].source)')
    PROVE  CallSound(call[g])'
<1>1. PICK c : c = call[g] /\ c = call'[g]
  OBVIOUS
<1>2. CallSound(c) /\ Apart(call[h], c)
  BY <1>1 DEF CallsSound, CallsApart
<1>3. ASSUME c.step \in MountSteps
      PROVE  mounts'[c.target] = mounts[c.target]
  <2>1. ChangedPath(c) = c.target /\ c.target \in Paths
    BY <1>1, <1>3, RunsOn DEF AtStep, MountSteps
  <2>2. ChangedPath(call[h]) # ChangedPath(c)
    BY <1>2, <1>3 DEF Apart, AtStep, MountSteps
  <2> QED
    BY <2>1, <2>2 DEF OnlyAt
<1>4. ASSUME c.step = "bind", c.operation = "publish"
      PROVE  IsVirtiofs(Top(c.source)')
  <2>1. c.source \in Paths
    BY <1>1, <1>4, RunsOn DEF AtStep
  <2>2. CASE c.source = ChangedPath(call[h])
    BY <1>1, <1>4, <2>2 DEF AtStep, Top, Mounted
  <2>3. CASE c.source # ChangedPath(call[h])
    BY <1>2, <1>4, <2>1, <2>3, SameMounts DEF OnlyAt, CallSound
  <2> QED
    BY <2>2, <2>3
<1>5. CallSound(c)'
  <2>1. c.step = "bind" => ~Mounted(c.target)'
    BY <1>2, <1>3, SameMounts DEF CallSound, MountSteps
  <2>2. c.step \in {"remount", "reply"} => Mounted(c.target)'
    BY <1>2, <1>3, SameMounts DEF CallSound, MountSteps
  <2>3. c.step \in {"remount", "reply"} /\ c.operation = "publish" => IsVirtiofs(Top(c.target)')
    BY <1>2, <1>3, SameMounts DEF CallSound, MountSteps
  <2>4. /\ c.step = "umount" /\ c.operation = "unstage" => c.of \notin staged'
        /\ c.step = "umount" /\ c.operation = "unpublish" => published'[c.of] = NoPublish
    BY <1>1 DEF UndoneStays, AtStep
  <2> QED
    BY <1>4, <2>1, <2>2, <2>3, <2>4 DEF CallSound, IsVirtiofs
<1> QED
  BY <1>1, <1>5 DEF CallSound, IsVirtiofs, Top, Mounted

\* The call that goes on, or returns, stays apart from the others.
LEMMA AdvanceApart ==
    ASSUME NodeTypeOK, CallsApart, NEW h \in Handlers, ~AtStep(h, "idle"), NEW c,
           call' = [call EXCEPT ![h] = c],
           \/ c.step = "idle"
           \/ c.step \in {"remount", "reply"} /\ ChangedPath(c) = ChangedPath(call[h])
    PROVE  CallsApart'
<1>1. /\ call'[h] = c
      /\ \A g \in Handlers \ {h} : call'[g] = call[g]
  BY DEF NodeTypeOK
<1> SUFFICES ASSUME NEW f \in Handlers, NEW g \in Handlers, f # g
             PROVE  Apart(call'[f], call'[g])
  BY DEF CallsApart, Apart, ChangedPath, StagingPath, TargetPath
<1>2. CASE f # h /\ g # h
  BY <1>1, <1>2 DEF CallsApart
<1>3. CASE f = h
  BY <1>1, <1>3 DEF CallsApart, Apart, AtStep
<1>4. CASE g = h
  BY <1>1, <1>4 DEF CallsApart, Apart, AtStep
<1> QED
  BY <1>2, <1>3, <1>4

\* The publishes in flight when a call goes on or returns.
LEMMA AdvancePublish ==
    ASSUME NodeTypeOK, NEW h \in Handlers, NEW c,
           call' = [call EXCEPT ![h] = c],
           \/ c.step = "idle"
           \/ /\ call[h].step \in MountSteps
              /\ c.operation = call[h].operation /\ c.request = call[h].request,
           NEW t, PublishInFlight(t)'
    PROVE  PublishInFlight(t)
BY DEF NodeTypeOK, PublishInFlight, MountSteps

\* A command on a path leaves what is published and gone elsewhere as it is.
LEMMA PublishedOnly ==
    ASSUME PublishedMounted, NEW p, OnlyAt(p), UNCHANGED published,
           \A t : PublishInFlight(t)' => PublishInFlight(t),
           \A t \in Targets : TargetPath(t) = p /\ published[t] # NoPublish => IsVirtiofs(Top(p)')
    PROVE  PublishedMounted'
<1> SUFFICES ASSUME NEW t \in Targets, published[t] # NoPublish
             PROVE  IsVirtiofs(Top(TargetPath(t))')
  BY DEF PublishedMounted, Grounded, IsVirtiofs, Top, Mounted, TargetPath
<1>1. CASE TargetPath(t) = p
  BY <1>1 DEF Top, Mounted
<1>2. CASE TargetPath(t) # p
  <2>1. mounts'[TargetPath(t)] = mounts[TargetPath(t)]
    BY <1>2, PathsOfRequests DEF OnlyAt
  <2> QED
    BY <2>1 DEF PublishedMounted, Top, Mounted
<1> QED
  BY <1>1, <1>2

LEMMA GoneOnly ==
    ASSUME NodeTypeOK, GoneQuiet, NEW p, OnlyAt(p), gone' \subseteq gone,
           \A t : PublishInFlight(t)' => PublishInFlight(t),
           \A t \in gone : TargetPath(t) = p => ~Mounted(p)'
    PROVE  GoneQuiet'
<1> SUFFICES ASSUME NEW t \in gone PROVE ~Mounted(TargetPath(t))'
  BY DEF GoneQuiet, Mounted
<1>1. CASE TargetPath(t) = p
  BY <1>1 DEF Mounted
<1>2. CASE TargetPath(t) # p
  <2>1. mounts'[TargetPath(t)] = mounts[TargetPath(t)]
    BY <1>2, PathsOfRequests DEF OnlyAt, NodeTypeOK
  <2> QED
    BY <2>1 DEF GoneQuiet, Mounted
<1> QED
  BY <1>1, <1>2

LEMMA StacksOnly ==
    ASSUME NoStacks, NEW p, OnlyAt(p),
           mounts'[p] = <<>> \/ \E m \in Mounts : mounts'[p] = <<m>>
    PROVE  NoStacks'
BY DEF NoStacks, OnlyAt

\* A command that failed: the handler returns and nothing is mounted.
LEMMA FailedSerial ==
    ASSUME NodeTypeOK, SerialInv, NEW h \in Handlers, ~AtStep(h, "idle"),
           Return(h), UNCHANGED <<mounts, staged, published, gone>>
    PROVE  SerialInv'
<1>1. Takes(h, Idle) /\ Idle.step = "idle"
  BY DEF Takes, Return, Idle
<1>2. CallsSound'
  <2>1. CallSound(Idle)'
    BY <1>1 DEF CallSound
  <2>2. UndoneStays
    BY DEF UndoneStays, SerialInv, CallsSound, CallSound, AtStep
  <2> QED
    BY <1>1, <2>1, <2>2, SoundKept DEF SerialInv
<1>3. CallsApart'
  BY <1>1, AdvanceApart DEF SerialInv, Takes
<1>4. \A t : PublishInFlight(t)' => PublishInFlight(t)
  BY <1>1, AdvancePublish DEF Takes
<1> QED
  BY <1>2, <1>3, <1>4, PublishedKept, GoneKept DEF SerialInv, NoStacks

LEMMA BindSerial ==
    ASSUME NodeTypeOK, SerialInv, NEW h \in Handlers, Bind(h)
    PROVE  SerialInv'
<1>1. /\ call[h].step = "bind" /\ ~AtStep(h, "idle") /\ call[h].step \in MountSteps
      /\ call[h] \in MountPlans
      /\ FitsRequest(call[h])
  BY PlannedPaths DEF Bind, AtStep, MountSteps
<1>2. PICK s \in Paths, t \in Paths :
        s = call[h].source /\ t = call[h].target /\ t = ChangedPath(call[h])
  BY <1>1, RunsOn
<1>3. PICK ok \in BOOLEAN :
        BindMount(s, t, ok) /\ Continue(h, IF ok THEN AfterBind(call[h]) ELSE Idle)
  BY <1>2 DEF Bind
<1>4. UNCHANGED <<staged, published, gone>>
  BY DEF Bind
<1>5. ~Mounted(t)
  BY <1>1, <1>2 DEF SerialInv, CallsSound, CallSound
<1>6. CASE ~ok
  <2>1. UNCHANGED mounts
    BY <1>3, <1>5, <1>6, SerialBind DEF NodeTypeOK
  <2> QED
    BY <1>1, <1>3, <1>4, <1>6, <2>1, FailedSerial DEF Continue, Return
<1>7. CASE ok
  <2>1. OnlyAt(t) /\ mounts'[t] = <<Top(s)>> /\ Top(s) \in Mounts
    BY <1>3, <1>5, <1>7, SerialBind DEF NodeTypeOK
  <2>2. Mounted(t)' /\ Top(t)' = Top(s)
    BY <2>1, OneMounted
  <2>3. PICK c : c = AfterBind(call[h])
    OBVIOUS
  <2>4. /\ c.step \in {"remount", "reply"} /\ c.target = t
        /\ c.operation = call[h].operation /\ c.request = call[h].request
    <3>1. CASE call[h].readOnly
      BY <1>1, <1>2, <2>3, <3>1 DEF AfterBind, Then, MountPlans
    <3>2. CASE ~call[h].readOnly
      BY <1>1, <1>2, <2>3, <3>2 DEF AfterBind, Then, MountPlans
    <3> QED
      BY <3>1, <3>2
  <2>5. call' = [call EXCEPT ![h] = c]
    BY <1>3, <1>7, <2>3 DEF Continue
  <2>6. UndoneStays
    BY <1>4 DEF UndoneStays, SerialInv, CallsSound, CallSound, AtStep
  <2>7. CallsSound'
    <3> SUFFICES ASSUME NEW g \in Handlers PROVE CallSound(call[g])'
      BY DEF CallsSound
    <3>1. CASE g = h
      <4>1. c.operation = "publish" => IsVirtiofs(Top(s))
        BY <1>1, <1>2, <2>4 DEF SerialInv, CallsSound, CallSound
      <4>2. CallSound(c)'
        BY <2>2, <2>4, <4>1 DEF CallSound, IsVirtiofs
      <4> QED
        BY <2>5, <3>1, <4>2 DEF NodeTypeOK, CallSound, IsVirtiofs, Top, Mounted
    <3>2. CASE g # h
      <4>1. ASSUME AtStep(g, "bind"), call[g].operation = "publish", call[g].source = t
            PROVE  FALSE
        <5>1. IsVirtiofs(Top(t))
          BY <4>1 DEF SerialInv, CallsSound, CallSound, AtStep
        <5> QED
          BY <1>5, <5>1, VirtiofsMounted
      <4>2. call'[g] = call[g]
        BY <2>5, <3>2 DEF NodeTypeOK
      <4> QED
        BY <1>1, <1>2, <2>1, <2>6, <3>2, <4>1, <4>2, OthersSound DEF SerialInv
    <3> QED
      BY <3>1, <3>2
  <2>8. CallsApart'
    BY <1>1, <1>2, <2>4, <2>5, AdvanceApart DEF SerialInv, ChangedPath
  <2>9. \A u : PublishInFlight(u)' => PublishInFlight(u)
    BY <1>1, <2>4, <2>5, AdvancePublish
  <2>10. PublishedMounted'
    <3>1. \A u \in Targets : TargetPath(u) = t => published[u] = NoPublish
      BY <1>5, VirtiofsMounted DEF SerialInv, PublishedMounted
    <3> QED
      BY <1>4, <2>1, <2>9, <3>1, PublishedOnly DEF SerialInv
  <2>11. GoneQuiet'
    <3>1. ASSUME NEW u \in gone, TargetPath(u) = t
          PROVE  FALSE
      <4>1. call[h].operation = "publish" /\ call[h].request.target = u
        BY <1>1, <1>2, <3>1, PathsDiffer DEF FitsRequest
      <4> QED
        BY <1>1, <4>1 DEF SerialInv, GoneQuiet, PublishInFlight
    <3> QED
      BY <1>4, <2>1, <2>9, <3>1, GoneOnly DEF SerialInv
  <2> QED
    BY <2>1, <2>7, <2>8, <2>10, <2>11, StacksOnly DEF SerialInv
<1> QED
  BY <1>6, <1>7

LEMMA RemountSerial ==
    ASSUME NodeTypeOK, SerialInv, NEW h \in Handlers, Remount(h)
    PROVE  SerialInv'
<1>1. /\ call[h].step = "remount" /\ ~AtStep(h, "idle") /\ call[h].step \in MountSteps
      /\ call[h] \in MountPlans
  BY PlannedPaths DEF Remount, AtStep, MountSteps
<1>2. PICK t \in Paths : t = call[h].target /\ t = ChangedPath(call[h])
  BY <1>1, RunsOn
<1>3. PICK ok \in BOOLEAN :
        RemountReadOnly(t, ok) /\ Continue(h, IF ok THEN Then(call[h], "reply") ELSE Idle)
  BY <1>2 DEF Remount
<1>4. UNCHANGED <<staged, published, gone>>
  BY DEF Remount
<1>5. Mounted(t)
  BY <1>1, <1>2 DEF SerialInv, CallsSound, CallSound
<1>6. CASE ~ok
  <2>1. UNCHANGED mounts
    BY <1>3, <1>5, <1>6, SerialRemount DEF NodeTypeOK, SerialInv
  <2> QED
    BY <1>1, <1>3, <1>4, <1>6, <2>1, FailedSerial DEF Continue, Return
<1>7. CASE ok
  <2> DEFINE m == [source |-> Top(t).source, readOnly |-> TRUE]
  <2>1. OnlyAt(t) /\ mounts'[t] = <<m>> /\ m \in Mounts
    BY <1>3, <1>5, <1>7, SerialRemount DEF NodeTypeOK, SerialInv
  <2>2. Mounted(t)' /\ Top(t)' = m
    BY <2>1, OneMounted
  <2>3. IsVirtiofs(Top(t)) => IsVirtiofs(Top(t)')
    BY <2>2 DEF IsVirtiofs
  <2>4. PICK c : c = Then(call[h], "reply")
    OBVIOUS
  <2>5. /\ c.step = "reply" /\ c.target = t
        /\ c.operation = call[h].operation /\ c.request = call[h].request
    BY <1>1, <1>2, <2>4 DEF Then, MountPlans
  <2>6. call' = [call EXCEPT ![h] = c]
    BY <1>3, <1>7, <2>4 DEF Continue
  <2>7. UndoneStays
    BY <1>4 DEF UndoneStays, SerialInv, CallsSound, CallSound, AtStep
  <2>8. CallsSound'
    <3> SUFFICES ASSUME NEW g \in Handlers PROVE CallSound(call[g])'
      BY DEF CallsSound
    <3>1. CASE g = h
      <4>1. c.operation = "publish" => IsVirtiofs(Top(t))
        BY <1>1, <1>2, <2>5 DEF SerialInv, CallsSound, CallSound
      <4>2. CallSound(c)'
        BY <2>2, <2>3, <2>5, <4>1 DEF CallSound, IsVirtiofs
      <4> QED
        BY <2>6, <3>1, <4>2 DEF NodeTypeOK, CallSound, IsVirtiofs, Top, Mounted
    <3>2. CASE g # h
      <4>1. call'[g] = call[g]
        BY <2>6, <3>2 DEF NodeTypeOK
      <4>2. ASSUME AtStep(g, "bind"), call[g].operation = "publish", call[g].source = t
            PROVE  IsVirtiofs(Top(call[g].source)')
        <5>1. IsVirtiofs(Top(t))
          BY <4>2 DEF SerialInv, CallsSound, CallSound, AtStep
        <5> QED
          BY <2>3, <4>1, <4>2, <5>1 DEF Top, Mounted
      <4> QED
        BY <1>1, <1>2, <2>1, <2>7, <3>2, <4>1, <4>2, OthersSound DEF SerialInv
    <3> QED
      BY <3>1, <3>2
  <2>9. CallsApart'
    BY <1>1, <1>2, <2>5, <2>6, AdvanceApart DEF SerialInv, ChangedPath
  <2>10. \A u : PublishInFlight(u)' => PublishInFlight(u)
    BY <1>1, <2>5, <2>6, AdvancePublish
  <2>11. PublishedMounted'
    <3>1. \A u \in Targets : TargetPath(u) = t /\ published[u] # NoPublish => IsVirtiofs(Top(t)')
      BY <2>3 DEF SerialInv, PublishedMounted
    <3> QED
      BY <1>4, <2>1, <2>10, <3>1, PublishedOnly DEF SerialInv
  <2>12. GoneQuiet'
    <3>1. \A u \in gone : TargetPath(u) # t
      BY <1>5 DEF SerialInv, GoneQuiet
    <3> QED
      BY <1>4, <2>1, <2>10, <3>1, GoneOnly DEF SerialInv
  <2> QED
    BY <2>1, <2>8, <2>9, <2>11, <2>12, StacksOnly DEF SerialInv
<1> QED
  BY <1>6, <1>7

LEMMA AnswerSerial ==
    ASSUME NodeTypeOK, SerialInv, NEW h \in Handlers, Answer(h)
    PROVE  SerialInv'
<1>0. PICK r : r = call[h].request
  OBVIOUS
<1>1. call[h].step = "reply" /\ ~AtStep(h, "idle")
  BY DEF Answer, AtStep
<1>2. /\ UNCHANGED <<mounts, exports, gone>>
      /\ Takes(h, Idle) /\ Idle.step = "idle"
  BY DEF Answer, Return, Takes, Idle
<1>3. CallSound(Idle)'
  BY <1>2 DEF CallSound
<1>4. CallsApart'
  BY <1>1, <1>2, AdvanceApart DEF SerialInv, Takes
<1>5. \A t : PublishInFlight(t)' => PublishInFlight(t)
  BY <1>2, AdvancePublish DEF Takes
<1>6. NoStacks' /\ GoneQuiet'
  BY <1>2, <1>5, GoneKept DEF SerialInv, NoStacks
<1>7. \A g \in Handlers : AtStep(g, "umount") => ChangedPath(call[g]) # ChangedPath(call[h])
  BY <1>1 DEF SerialInv, CallsApart, Apart, AtStep
<1>8. CASE StageCall(call[h])
  <2>1. staged' = staged \cup {r.volume} /\ UNCHANGED published
    BY <1>0, <1>8 DEF Answer, Acknowledge, StageCall
  <2>2. ChangedPath(call[h]) = StagingPath(r.volume)
    BY <1>0, <1>8, ChangedPaths DEF StageCall
  <2>3. UndoneStays
    <3> SUFFICES ASSUME NEW g \in Handlers, AtStep(g, "umount"), call[g].operation = "unstage"
                 PROVE  call[g].of \notin staged'
      BY <2>1 DEF UndoneStays, SerialInv, CallsSound, CallSound, AtStep
    <3>1. ChangedPath(call[g]) = StagingPath(call[g].of)
      BY HandlerCalls, ChangedPaths DEF AtStep, ChangedPath
    <3>2. call[g].of # r.volume
      BY <1>7, <2>2, <3>1
    <3>3. call[g].of \notin staged
      BY DEF SerialInv, CallsSound, CallSound, AtStep
    <3> QED
      BY <2>1, <3>2, <3>3
  <2>4. CallsSound'
    BY <1>2, <1>3, <2>3, SoundKept DEF SerialInv
  <2>5. PublishedMounted'
    BY <1>2, <1>5, <2>1, PublishedKept DEF SerialInv
  <2> QED
    BY <1>4, <1>6, <2>4, <2>5 DEF SerialInv
<1>9. CASE PublishCall(call[h])
  <2>1. published' = [published EXCEPT ![r.target] = Promise(r)] /\ UNCHANGED staged
    BY <1>0, <1>9 DEF Answer, Acknowledge, PublishCall
  <2>2. /\ ChangedPath(call[h]) = TargetPath(r.target) /\ call[h].target = TargetPath(r.target)
        /\ r \in PublishRequests /\ r.volume \in Volumes /\ r.target \in Targets
    BY <1>0, <1>9, ChangedPaths DEF PublishCall
  <2>3. UndoneStays
    <3> SUFFICES ASSUME NEW g \in Handlers, AtStep(g, "umount"), call[g].operation = "unpublish"
                 PROVE  published'[call[g].of] = NoPublish
      BY <2>1 DEF UndoneStays, SerialInv, CallsSound, CallSound, AtStep
    <3>1. ChangedPath(call[g]) = TargetPath(call[g].of) /\ call[g].of \in Targets
      BY HandlerCalls, ChangedPaths DEF AtStep, ChangedPath, StageCall, PublishCall,
                                        UnstageCall, UnpublishCall, MountSteps
    <3>2. call[g].of # r.target
      BY <1>7, <2>2, <3>1
    <3>3. published[call[g].of] = NoPublish
      BY DEF SerialInv, CallsSound, CallSound, AtStep
    <3> QED
      BY <2>1, <3>1, <3>2, <3>3 DEF NodeTypeOK
  <2>4. CallsSound'
    BY <1>2, <1>3, <2>3, SoundKept DEF SerialInv
  <2>5. ~PublishInFlight(r.target)'
    <3> SUFFICES ASSUME PublishInFlight(r.target)'
                 PROVE  FALSE
      OBVIOUS
    <3>1. PICK g \in Handlers \ {h} : /\ call[g].step \in MountSteps
                                      /\ call[g].operation = "publish"
                                      /\ call[g].request.target = r.target
      BY <1>2 DEF PublishInFlight, Takes, NodeTypeOK, MountSteps
    <3>2. PublishCall(call[g])
      BY <3>1, HandlerCalls DEF MountSteps, StageCall, UnstageCall, UnpublishCall
    <3>3. ChangedPath(call[g]) = TargetPath(r.target)
      BY <3>1, <3>2, ChangedPaths DEF PublishCall
    <3> QED
      BY <1>1, <2>2, <3>1, <3>3 DEF SerialInv, CallsApart, Apart, AtStep, MountSteps
  <2>6. IsVirtiofs(Top(TargetPath(r.target)))
    BY <1>1, <1>9, <2>2 DEF SerialInv, CallsSound, CallSound, PublishCall
  <2>7. Promise(r) # NoPublish => Grounded(r.target, Promise(r))
    BY <2>2 DEF Promise, Grounded, TagsOf, ReadOnlyExport, NodeTypeOK
  <2>8. PublishedMounted'
    <3> SUFFICES ASSUME NEW t \in Targets, published'[t] # NoPublish
                 PROVE  /\ ~PublishInFlight(t)'
                        /\ IsVirtiofs(Top(TargetPath(t)))
                        /\ Grounded(t, published'[t])
      BY <1>2 DEF PublishedMounted, IsVirtiofs, Top, Mounted, TargetPath, Grounded
    <3>1. CASE t = r.target
      BY <2>1, <2>2, <2>5, <2>6, <2>7, <3>1 DEF NodeTypeOK
    <3>2. CASE t # r.target
      BY <1>5, <2>1, <3>2 DEF NodeTypeOK, SerialInv, PublishedMounted
    <3> QED
      BY <3>1, <3>2
  <2> QED
    BY <1>4, <1>6, <2>4, <2>8 DEF SerialInv
<1> QED
  BY <1>1, <1>8, <1>9, HandlerCalls DEF AtStep, UnstageCall, UnpublishCall

LEMMA UnmountSerial ==
    ASSUME NodeTypeOK, SerialInv, NEW h \in Handlers, UnmountStaging(h) \/ UnmountTarget(h)
    PROVE  SerialInv'
<1>1. call[h].step = "umount" /\ ~AtStep(h, "idle")
  BY DEF UnmountStaging, UnmountTarget, AtStep
<1>2. PICK p \in Paths : p = ChangedPath(call[h])
  BY <1>1, RunsOn
<1>3. /\ UnmountStaging(h) => call[h].operation = "unstage" /\ p = StagingPath(call[h].of)
      /\ UnmountTarget(h) => /\ call[h].operation = "unpublish"
                             /\ p = TargetPath(call[h].of) /\ call[h].of \in Targets
  BY <1>1, <1>2, HandlerCalls, ChangedPaths
  DEF UnmountStaging, UnmountTarget, StageCall, PublishCall, UnstageCall, UnpublishCall, MountSteps
<1>4. PICK ok \in BOOLEAN :
        /\ Unmount(p, ok)
        /\ UnmountTarget(h) => Release(call[h].of, ok)
        /\ UnmountStaging(h) => UNCHANGED gone
  BY <1>3 DEF UnmountStaging, UnmountTarget
<1>5. /\ OnlyAt(p)
      /\ ok => mounts'[p] = <<>>
      /\ ~ok => UNCHANGED mounts
  BY <1>4, SerialUnmount DEF SerialInv, NodeTypeOK
<1>6. /\ call' = [call EXCEPT ![h] = Idle] /\ Return(h) /\ Idle.step = "idle"
      /\ UNCHANGED <<staged, published>>
  BY DEF UnmountStaging, UnmountTarget, Return, Idle
<1>7. CASE ~ok
  <2>1. UNCHANGED gone
    BY <1>4, <1>7 DEF Release
  <2> QED
    BY <1>1, <1>5, <1>6, <1>7, <2>1, FailedSerial
<1>8. CASE ok
  <2>1. ~Mounted(p)'
    BY <1>5, <1>8, NoneMounted
  <2>2. UndoneStays
    BY <1>6 DEF UndoneStays, SerialInv, CallsSound, CallSound, AtStep
  <2>3. CallsSound'
    <3> SUFFICES ASSUME NEW g \in Handlers PROVE CallSound(call[g])'
      BY DEF CallsSound
    <3>1. CASE g = h
      <4>1. call'[g] = Idle
        BY <1>6, <3>1 DEF NodeTypeOK
      <4> QED
        BY <1>6, <4>1 DEF CallSound
    <3>2. CASE g # h
      <4>1. call'[g] = call[g]
        BY <1>6, <3>2 DEF NodeTypeOK
      <4>2. AtStep(g, "bind") => call[g].source # p
        BY <1>1, <1>2, <3>2 DEF SerialInv, CallsApart, Apart, AtStep
      <4> QED
        BY <1>1, <1>2, <1>5, <2>2, <3>2, <4>1, <4>2, OthersSound DEF SerialInv
    <3> QED
      BY <3>1, <3>2
  <2>4. CallsApart'
    BY <1>1, <1>6, AdvanceApart DEF SerialInv
  <2>5. \A u : PublishInFlight(u)' => PublishInFlight(u)
    BY <1>6, AdvancePublish
  <2>6. PublishedMounted'
    <3>1. ASSUME NEW u \in Targets, TargetPath(u) = p
          PROVE  published[u] = NoPublish
      <4>1. CASE UnmountTarget(h)
        <5>1. u = call[h].of
          BY <1>3, <3>1, <4>1, PathsDiffer
        <5> QED
          BY <1>1, <1>3, <4>1, <5>1 DEF SerialInv, CallsSound, CallSound
      <4>2. CASE UnmountStaging(h)
        BY <1>3, <3>1, <4>2, PathsDiffer
      <4> QED
        BY <4>1, <4>2
    <3> QED
      BY <1>5, <1>6, <2>5, <3>1, PublishedOnly DEF SerialInv
  <2>7. GoneQuiet'
    <3> SUFFICES ASSUME NEW u \in gone'
                 PROVE  ~Mounted(TargetPath(u))' /\ ~PublishInFlight(u)'
      BY DEF GoneQuiet, Mounted, TargetPath, PublishInFlight
    <3>1. u \in gone \/ (UnmountTarget(h) /\ u = call[h].of /\ ~PublishInFlight(u))
      BY <1>4 DEF Release
    <3>2. ~PublishInFlight(u)'
      BY <2>5, <3>1 DEF SerialInv, GoneQuiet
    <3>3. CASE TargetPath(u) = p
      BY <2>1, <3>2, <3>3 DEF Mounted
    <3>4. CASE TargetPath(u) # p
      <4>1. u \in gone /\ u \in Targets
        BY <1>3, <3>1, <3>4 DEF NodeTypeOK
      <4>2. mounts'[TargetPath(u)] = mounts[TargetPath(u)]
        BY <1>5, <3>4, <4>1, PathsOfRequests DEF OnlyAt
      <4> QED
        BY <3>2, <4>1, <4>2 DEF SerialInv, GoneQuiet, Mounted
    <3> QED
      BY <3>3, <3>4
  <2> QED
    BY <1>5, <1>8, <2>3, <2>4, <2>6, <2>7, StacksOnly DEF SerialInv
<1> QED
  BY <1>7, <1>8

-----------------------------------------------------------------------------
(***************************************************************************)
(* The plugin process and the guest                                        *)
(***************************************************************************)
LEMMA CrashSerial ==
    ASSUME NodeTypeOK, SerialInv, Crash
    PROVE  SerialInv'
<1>1. /\ \A h \in Handlers : call'[h].step = "idle"
      /\ UNCHANGED <<mounts, staged, published, gone>>
  BY DEF Crash, Idle
<1>2. CallsSound' /\ CallsApart' /\ \A t : ~PublishInFlight(t)'
  BY <1>1 DEF CallsSound, CallSound, CallsApart, Apart, PublishInFlight
<1> QED
  BY <1>1, <1>2, PublishedKept, GoneKept DEF SerialInv, NoStacks

\* The guest's mounts of exports are on paths that no call changes and no
\* publish binds.
LEMMA ExportSerial ==
    ASSUME NodeTypeOK, NodeTypeOK', SerialInv, NEW v \in Volumes,
           ExportMounted(v) \/ ExportUnmounted(v)
    PROVE  SerialInv'
<1> DEFINE p == ExportPath(v)
<1>1. p \in Paths
  BY PathsOfRequests
<1>2. OnlyAt(p) /\ UNCHANGED <<call, staged, published, gone>>
  BY DEF OnlyAt, ExportMounted, ExportUnmounted, NodeTypeOK, MountsTypeOK
<1>3. mounts'[p] = <<>> \/ \E m : mounts'[p] = <<m>>
  BY <1>1 DEF ExportMounted, ExportUnmounted, NodeTypeOK, MountsTypeOK
<1>4. mounts'[p] = <<>> \/ \E m \in Mounts : mounts'[p] = <<m>>
  <2> SUFFICES ASSUME NEW m, mounts'[p] = <<m>>
               PROVE  m \in Mounts
    BY <1>3
  <2>1. mounts'[p] \in Seq(Mounts)
    BY <1>1 DEF NodeTypeOK, MountsTypeOK
  <2> HIDE DEF p
  <2> QED
    BY <2>1, ElementOfSeq
<1> HIDE DEF p
<1>5. \A t \in Targets : TargetPath(t) # p
  BY PathsDiffer DEF p
<1>6. CallsSound'
  <2> SUFFICES ASSUME NEW h \in Handlers PROVE CallSound(call[h])'
    BY DEF CallsSound
  <2>1. PICK c : c = call[h] /\ c = call'[h]
    BY <1>2
  <2>2. CallSound(c)
    BY <2>1 DEF SerialInv, CallsSound
  <2>3. c.step \in MountSteps => mounts'[c.target] = mounts[c.target]
    <3>1. c.step \in MountSteps => c.target \in Paths /\ c.target # p
      BY <2>1, RunsOn DEF AtStep, MountSteps, p
    <3> QED
      BY <1>2, <3>1 DEF OnlyAt
  <2>4. c.step \in MountSteps /\ c.operation = "publish" => mounts'[c.source] = mounts[c.source]
    <3> SUFFICES ASSUME c.step \in MountSteps, c.operation = "publish"
                 PROVE  mounts'[c.source] = mounts[c.source]
      OBVIOUS
    <3>1. PublishCall(c)
      BY <2>1, HandlerCalls DEF StageCall, UnstageCall, UnpublishCall, MountSteps
    <3>2. c.source \in Paths /\ c.source # p
      BY <3>1, ChangedPaths, PathsDiffer DEF PublishCall, p
    <3> QED
      BY <1>2, <3>2 DEF OnlyAt
  <2>5. CallSound(c)'
    BY <1>2, <2>2, <2>3, <2>4, SameMounts DEF CallSound, MountSteps, IsVirtiofs, Top, Mounted
  <2> QED
    BY <2>1, <2>5 DEF CallSound, IsVirtiofs, Top, Mounted
<1>7. CallsApart' /\ \A t : PublishInFlight(t)' => PublishInFlight(t)
  BY <1>2 DEF SerialInv, CallsApart, PublishInFlight
<1>8. PublishedMounted'
  BY <1>2, <1>5, <1>7, PublishedOnly DEF SerialInv
<1>9. GoneQuiet'
  BY <1>2, <1>5, <1>7, GoneOnly DEF SerialInv, NodeTypeOK
<1> QED
  BY <1>2, <1>4, <1>6, <1>7, <1>8, <1>9, StacksOnly DEF SerialInv

\* The invariant of calls that wait for each other.
LEMMA SerialInvariant == SerialSpec => [](NodeTypeOK /\ MountsConfined /\ SerialInv)
<1>1. Init => SerialInv
  BY DEF Init, SerialInv, NoStacks, CallsSound, CallSound, CallsApart, Apart, Idle,
         PublishedMounted, GoneQuiet
<1>2. NodeTypeOK /\ NodeTypeOK' /\ SerialInv /\ [SerialNext]_vars => SerialInv'
  <2> SUFFICES ASSUME NodeTypeOK, NodeTypeOK', SerialInv, [SerialNext]_vars
               PROVE  SerialInv'
    OBVIOUS
  <2>1. ASSUME NEW h \in Handlers, SerialRequest(h)
        PROVE  SerialInv'
    BY <2>1, StageSerial, PublishSerial, UnstageSerial, UnpublishSerial DEF SerialRequest
  <2>2. ASSUME NEW h \in Handlers, Advance(h)
        PROVE  SerialInv'
    BY <2>2, BindSerial, RemountSerial, AnswerSerial, UnmountSerial DEF Advance
  <2>3. CASE Start \/ UNCHANGED vars
    BY <2>3 DEF Start, vars, SerialInv, NoStacks, CallsSound, CallSound, CallsApart,
                PublishedMounted, GoneQuiet, PublishInFlight, Mounted, Top, IsVirtiofs
  <2>4. CASE Crash
    BY <2>4, CrashSerial
  <2>5. ASSUME NEW v \in Volumes, ExportMounted(v) \/ ExportUnmounted(v)
        PROVE  SerialInv'
    BY <2>5, ExportSerial
  <2> QED
    BY <2>1, <2>2, <2>3, <2>4, <2>5 DEF SerialNext
<1> QED
  BY <1>1, <1>2, SerialInvariants, PTL DEF SerialSpec

\* When calls that change the same path wait for each other, nothing is mounted
\* on a target whose unpublish was acknowledged, whatever crashes, failing
\* commands and retries came before.
THEOREM UnpublishedTargetsAreGone == SerialSpec => []UnpublishedAreGone
<1>1. SerialInv => UnpublishedAreGone
  BY DEF SerialInv, GoneQuiet, UnpublishedAreGone
<1> QED
  BY <1>1, SerialInvariant, PTL

\* When, besides, no configuration gives an export another tag, a pod whose
\* publish was acknowledged sees the share the configuration named.
THEOREM PublishedTargetsShowExport ==
    ASSUME TagsFixed
    PROVE  SerialSpec => []PublishedShowExport
<1>1. NodeTypeOK /\ MountsConfined /\ SerialInv => PublishedShowExport
  <2> SUFFICES ASSUME NodeTypeOK, MountsConfined, SerialInv,
                      NEW t \in Targets, published[t] # NoPublish
               PROVE  Top(TargetPath(t)).source = published[t].tag
    BY DEF PublishedShowExport
  <2>1. PICK r \in PublishRequests : r.target = t /\ published[t].tag \in TagsOf(r.volume)
    BY DEF SerialInv, PublishedMounted, Grounded
  <2>2. r.volume \in Volumes /\ TargetPath(t) \in Paths
    BY PublishRequestsAssumption, PathsOfRequests
  <2>3. IsVirtiofs(Top(TargetPath(t)))
    BY DEF SerialInv, PublishedMounted
  <2>4. Top(TargetPath(t)).source \in TagsOf(r.volume) \cup {Disk}
    BY <2>1, <2>2, TopShown DEF MountsConfined, NodeTypeOK
  <2>5. Top(TargetPath(t)).source \in TagsOf(r.volume)
    BY <2>3, <2>4, DiskAssumption DEF IsVirtiofs
  <2> QED
    BY <2>1, <2>2, <2>5 DEF TagsOf, TagsFixed
<1> QED
  BY <1>1, SerialInvariant, PTL

-----------------------------------------------------------------------------
(***************************************************************************)
(* Read-only access                                                        *)
(***************************************************************************)
\* What is seen of a read-only export is read-only.
AccessKept ==
    \A p \in Paths, v \in Volumes :
       Owns(v, p) /\ IsVirtiofs(Top(p)) /\ ReadOnlyExport(v) => Top(p).readOnly

\* A publish in flight makes the mount its request asks for.
RequestKept ==
    \A h \in Handlers :
       call[h].step \in MountSteps /\ call[h].operation = "publish" =>
          call[h].readOnly = call[h].request.readOnly

\* What a pod may only read is read-only, or will be after one more command,
\* unless a command failed or was lost in a crash.
Remounting(t) == \E h \in Handlers : AtStep(h, "remount") /\ call[h].target = TargetPath(t)
RemountsDone ==
    faults["mount"] = 0 /\ faults["crash"] = 0 =>
       \A r \in PublishRequests :
          r.readOnly /\ Mounted(TargetPath(r.target)) /\ ~Remounting(r.target)
             => Top(TargetPath(r.target)).readOnly

AccessInv == AccessKept /\ RequestKept /\ RemountsDone

\* Faults are not taken back.
LEMMA FaultsGrow ==
    ASSUME FaultsTypeOK, NEW k \in FaultKinds, Fault(k)
    PROVE  /\ faults'[k] # 0
           /\ \A j \in FaultKinds : faults'[j] = 0 => faults[j] = 0
BY DEF FaultsTypeOK, Fault

LEMMA NoFaultBefore ==
    ASSUME FaultsTypeOK, NoFault \/ \E k \in FaultKinds : Fault(k)
    PROVE  /\ faults'["mount"] = 0 => faults["mount"] = 0
           /\ faults'["crash"] = 0 => faults["crash"] = 0
BY FaultsGrow, MountFaultAssumption, FaultKindsAssumption DEF NoFault

\* A step that changes the mounts of one path keeps the access of the others.
LEMMA AccessOnly ==
    ASSUME AccessKept, NEW p \in Paths, OnlyAt(p),
           \A v \in Volumes :
              Owns(v, p) /\ IsVirtiofs(Top(p)') /\ ReadOnlyExport(v) => (Top(p)').readOnly
    PROVE  AccessKept'
<1> SUFFICES ASSUME NEW q \in Paths, NEW v \in Volumes,
                    Owns(v, q), IsVirtiofs(Top(q)'), ReadOnlyExport(v)
             PROVE  (Top(q)').readOnly
  BY DEF AccessKept, Owns, IsVirtiofs, ReadOnlyExport, ExportPath, StagingPath, TargetPath
<1>1. CASE q = p
  BY <1>1
<1>2. CASE q # p
  BY <1>2, SameMounts DEF OnlyAt, AccessKept
<1> QED
  BY <1>1, <1>2

LEMMA AccessUnchanged ==
    ASSUME AccessKept, UNCHANGED mounts
    PROVE  AccessKept'
BY DEF AccessKept, Owns, IsVirtiofs, ReadOnlyExport, Top, Mounted

\* A step that mounts nothing on a target and gives up no remount keeps the
\* targets read-only.
LEMMA RemountsKept ==
    ASSUME NodeTypeOK, RemountsDone, NoFault \/ \E k \in FaultKinds : Fault(k),
           \A t \in Targets : mounts'[TargetPath(t)] \in {mounts[TargetPath(t)], <<>>},
           \A t : Remounting(t) => Remounting(t)'
    PROVE  RemountsDone'
<1> SUFFICES ASSUME faults'["mount"] = 0, faults'["crash"] = 0,
                    NEW r \in PublishRequests, r.readOnly,
                    mounts'[TargetPath(r.target)] # <<>>, ~Remounting(r.target)'
             PROVE  (Top(TargetPath(r.target))').readOnly
  BY DEF RemountsDone, Mounted
<1>1. r.target \in Targets
  BY PublishRequestsAssumption
<1>2. mounts'[TargetPath(r.target)] = mounts[TargetPath(r.target)]
  BY <1>1
<1>3. Mounted(TargetPath(r.target)) /\ ~Remounting(r.target)
  BY <1>2 DEF Mounted
<1>4. faults["mount"] = 0 /\ faults["crash"] = 0
  BY NoFaultBefore DEF NodeTypeOK
<1> QED
  BY <1>2, <1>3, <1>4, SameMounts DEF RemountsDone

\* Steps of a handler that is not about to remount.
LEMMA NoRemountLost ==
    ASSUME NodeTypeOK, NEW h \in Handlers, ~AtStep(h, "remount"),
           NEW c, UNCHANGED call \/ call' = [call EXCEPT ![h] = c],
           NEW t, Remounting(t)
    PROVE  Remounting(t)'
BY DEF NodeTypeOK, Remounting, AtStep, TargetPath

LEMMA RequestKeptBy ==
    ASSUME NodeTypeOK, RequestKept, NEW h \in Handlers, NEW c,
           UNCHANGED call \/ call' = [call EXCEPT ![h] = c],
           c.step \in MountSteps /\ c.operation = "publish" => c.readOnly = c.request.readOnly
    PROVE  RequestKept'
BY DEF NodeTypeOK, RequestKept

LEMMA RequestAccess ==
    ASSUME NodeTypeOK, AccessInv, NEW h \in Handlers, Request(h)
    PROVE  AccessInv'
<1> DEFINE fits(c) ==
             c.step \in MountSteps /\ c.operation = "publish" => c.readOnly = c.request.readOnly
<1>1. /\ NoFault /\ UNCHANGED mounts /\ HandlerIdle(h)
      /\ \/ UNCHANGED call
         \/ \E c : fits(c) /\ call' = [call EXCEPT ![h] = c]
  <2>1. ASSUME NEW r \in StageRequests, NodeStageVolume(h, r)
        PROVE  <1>1
    <3>1. ASSUME NEW w \in MatchingExports(r.volume),
                 Continue(h, MountPlan("stage", r, ExportPath(w), StagingPath(r.volume),
                                       StageReadOnly(r, w)))
          PROVE  \E c : fits(c) /\ call' = [call EXCEPT ![h] = c]
      <4> DEFINE c == MountPlan("stage", r, ExportPath(w), StagingPath(r.volume),
                                StageReadOnly(r, w))
      <4>1. fits(c)
        BY DEF MountPlan
      <4> QED
        BY <3>1, <4>1 DEF Continue
    <3> QED
      BY <2>1, <3>1 DEF NodeStageVolume, NoFault
  <2>2. ASSUME NEW r \in PublishRequests, NodePublishVolume(h, r)
        PROVE  <1>1
    <3> DEFINE c == MountPlan("publish", r, StagingPath(r.volume), TargetPath(r.target),
                              r.readOnly)
    <3>1. fits(c)
      BY DEF MountPlan
    <3> HIDE DEF c, fits
    <3>2. NodePublishVolume(h, r) => \/ UNCHANGED call
                                     \/ call' = [call EXCEPT ![h] = c]
      BY DEF NodePublishVolume, Continue, c
    <3> QED
      BY <2>2, <3>1, <3>2 DEF NodePublishVolume, NoFault
  <2>3. ASSUME NEW v \in Unstageable, NodeUnstageVolume(h, v)
        PROVE  <1>1
    <3> DEFINE c == [step |-> "umount", operation |-> "unstage", of |-> v]
    <3>1. fits(c)
      BY DEF MountSteps
    <3> HIDE DEF c, fits
    <3>2. NodeUnstageVolume(h, v) => \/ UNCHANGED call
                                     \/ call' = [call EXCEPT ![h] = c]
      BY DEF NodeUnstageVolume, Continue, c
    <3> QED
      BY <2>3, <3>1, <3>2 DEF NodeUnstageVolume, NoFault
  <2>4. ASSUME NEW t \in Unpublishable, NodeUnpublishVolume(h, t)
        PROVE  <1>1
    <3> DEFINE c == [step |-> "umount", operation |-> "unpublish", of |-> t]
    <3>1. fits(c)
      BY DEF MountSteps
    <3> HIDE DEF c, fits
    <3>2. NodeUnpublishVolume(h, t) => \/ UNCHANGED call
                                       \/ call' = [call EXCEPT ![h] = c]
      BY DEF NodeUnpublishVolume, Continue, c
    <3> QED
      BY <2>4, <3>1, <3>2 DEF NodeUnpublishVolume, NoFault
  <2> QED
    BY <2>1, <2>2, <2>3, <2>4 DEF Request
<1>2. PICK c : /\ UNCHANGED call \/ call' = [call EXCEPT ![h] = c]
               /\ fits(c)
  <2>1. fits(Idle)
    BY DEF Idle, MountSteps
  <2> QED
    BY <1>1, <2>1
<1>3. RequestKept'
  BY <1>2, RequestKeptBy DEF AccessInv
<1>4. \A t : Remounting(t) => Remounting(t)'
  BY <1>1, <1>2, NoRemountLost DEF HandlerIdle, AtStep, Idle
<1> QED
  BY <1>1, <1>3, <1>4, AccessUnchanged, RemountsKept DEF AccessInv

\* A mount command that fails uses up a fault, and then nothing is claimed of
\* the targets.
LEMMA FailedAccess ==
    ASSUME NodeTypeOK, AccessInv, NEW h \in Handlers, Return(h), UNCHANGED mounts, Fault("mount")
    PROVE  AccessInv'
<1>1. faults'["mount"] # 0
  BY FaultsGrow, MountFaultAssumption DEF NodeTypeOK
<1>2. RequestKept'
  BY RequestKeptBy DEF AccessInv, Return, Idle, MountSteps
<1> QED
  BY <1>1, <1>2, AccessUnchanged DEF AccessInv, RemountsDone

LEMMA BindAccess ==
    ASSUME AccessFixed, NodeTypeOK, SerialInv, AccessInv, NEW h \in Handlers, Bind(h)
    PROVE  AccessInv'
<1>1. call[h].step = "bind" /\ call[h].step \in MountSteps /\ call[h] \in MountPlans
  BY PlannedPaths DEF Bind, AtStep, MountSteps
<1>2. PICK s \in Paths, t \in Paths : s = call[h].source /\ t = call[h].target
  BY <1>1, PlannedPaths DEF MountSteps
<1>3. PICK ok \in BOOLEAN :
        BindMount(s, t, ok) /\ Continue(h, IF ok THEN AfterBind(call[h]) ELSE Idle)
  BY <1>2 DEF Bind
<1>4. ~Mounted(t)
  BY <1>1, <1>2 DEF SerialInv, CallsSound, CallSound
<1>5. CASE ~ok
  <2>1. UNCHANGED mounts /\ Fault("mount")
    BY <1>3, <1>4, <1>5, SerialBind DEF NodeTypeOK
  <2> QED
    BY <1>3, <1>5, <2>1, FailedAccess DEF Continue, Return
<1>6. CASE ok
  <2>1. NoFault /\ OnlyAt(t) /\ mounts'[t] = <<Top(s)>>
    BY <1>3, <1>4, <1>6, SerialBind DEF NodeTypeOK
  <2>2. Top(t)' = Top(s)
    BY <2>1, OneMounted
  <2>3. AccessKept'
    <3>1. ASSUME NEW v \in Volumes, Owns(v, t), IsVirtiofs(Top(t)'), ReadOnlyExport(v)
          PROVE  (Top(t)').readOnly
      <4>1. Owns(v, s)
        BY <1>1, <1>2, <3>1, SourceOwned DEF MountSteps
      <4> QED
        BY <2>2, <3>1, <4>1 DEF AccessInv, AccessKept
    <3> QED
      BY <2>1, <3>1, AccessOnly DEF AccessInv
  <2>4. PICK c : c = AfterBind(call[h])
    OBVIOUS
  <2>5. /\ c.step = (IF call[h].readOnly THEN "remount" ELSE "reply")
        /\ c.operation = call[h].operation /\ c.request = call[h].request
        /\ c.readOnly = call[h].readOnly /\ c.target = t
    <3>1. CASE call[h].readOnly
      BY <1>1, <1>2, <2>4, <3>1 DEF AfterBind, Then, MountPlans
    <3>2. CASE ~call[h].readOnly
      BY <1>1, <1>2, <2>4, <3>2 DEF AfterBind, Then, MountPlans
    <3> QED
      BY <3>1, <3>2
  <2>6. call' = [call EXCEPT ![h] = c]
    BY <1>3, <1>6, <2>4 DEF Continue
  <2>7. RequestKept'
    BY <1>1, <2>5, <2>6, RequestKeptBy DEF AccessInv, RequestKept
  <2>8. RemountsDone'
    <3> SUFFICES ASSUME faults'["mount"] = 0, faults'["crash"] = 0,
                        NEW r \in PublishRequests, r.readOnly,
                        Mounted(TargetPath(r.target))', ~Remounting(r.target)'
                 PROVE  (Top(TargetPath(r.target))').readOnly
      BY DEF RemountsDone, Top, Mounted, Remounting, AtStep, TargetPath
    <3>1. CASE TargetPath(r.target) = t
      <4>1. PublishCall(call[h]) /\ call[h].request = r
        <5>1. PublishCall(call[h])
          BY <1>1, <1>2, <3>1, HandlerCalls, PathsDiffer
          DEF StageCall, UnstageCall, UnpublishCall, MountSteps
        <5> QED
          BY <1>2, <3>1, <5>1, PathsDiffer DEF PublishCall, AccessFixed
      <4>2. call[h].readOnly
        BY <1>1, <4>1 DEF AccessInv, RequestKept, PublishCall
      <4>3. Remounting(r.target)'
        BY <2>5, <2>6, <3>1, <4>2 DEF Remounting, AtStep, NodeTypeOK, TargetPath
      <4> QED
        BY <4>3
    <3>2. CASE TargetPath(r.target) # t
      <4>1. mounts'[TargetPath(r.target)] = mounts[TargetPath(r.target)]
        BY <2>1, <3>2, PublishRequestsAssumption, PathsOfRequests DEF OnlyAt
      <4>2. Mounted(TargetPath(r.target))
        BY <4>1 DEF Mounted
      <4>3. ~Remounting(r.target)
        BY <1>1, <2>6, NoRemountLost DEF AtStep
      <4>4. faults["mount"] = 0 /\ faults["crash"] = 0
        BY <2>1, NoFaultBefore DEF NodeTypeOK
      <4> QED
        BY <4>1, <4>2, <4>3, <4>4, SameMounts DEF AccessInv, RemountsDone
    <3> QED
      BY <3>1, <3>2
  <2> QED
    BY <2>3, <2>7, <2>8 DEF AccessInv
<1> QED
  BY <1>5, <1>6

LEMMA RemountAccess ==
    ASSUME NodeTypeOK, SerialInv, AccessInv, NEW h \in Handlers, Remount(h)
    PROVE  AccessInv'
<1>1. call[h].step = "remount" /\ call[h].step \in MountSteps /\ call[h] \in MountPlans
  BY PlannedPaths DEF Remount, AtStep, MountSteps
<1>2. PICK t \in Paths : t = call[h].target
  BY <1>1, PlannedPaths DEF MountSteps
<1>3. PICK ok \in BOOLEAN :
        RemountReadOnly(t, ok) /\ Continue(h, IF ok THEN Then(call[h], "reply") ELSE Idle)
  BY <1>2 DEF Remount
<1>4. Mounted(t)
  BY <1>1, <1>2 DEF SerialInv, CallsSound, CallSound
<1>5. CASE ~ok
  <2>1. UNCHANGED mounts /\ Fault("mount")
    BY <1>3, <1>4, <1>5, SerialRemount DEF NodeTypeOK, SerialInv
  <2> QED
    BY <1>3, <1>5, <2>1, FailedAccess DEF Continue, Return
<1>6. CASE ok
  <2> DEFINE m == [source |-> Top(t).source, readOnly |-> TRUE]
  <2>1. NoFault /\ OnlyAt(t) /\ mounts'[t] = <<m>>
    BY <1>3, <1>4, <1>6, SerialRemount DEF NodeTypeOK, SerialInv
  <2>2. (Top(t)').readOnly
    BY <2>1, OneMounted
  <2>3. AccessKept'
    BY <2>1, <2>2, AccessOnly DEF AccessInv
  <2>4. PICK c : c = Then(call[h], "reply")
    OBVIOUS
  <2>5. /\ c.step = "reply" /\ c.operation = call[h].operation /\ c.request = call[h].request
        /\ c.readOnly = call[h].readOnly
    BY <1>1, <2>4 DEF Then, MountPlans
  <2>6. call' = [call EXCEPT ![h] = c]
    BY <1>3, <1>6, <2>4 DEF Continue
  <2>7. RequestKept'
    BY <1>1, <2>5, <2>6, RequestKeptBy DEF AccessInv, RequestKept
  <2>8. RemountsDone'
    <3> SUFFICES ASSUME faults'["mount"] = 0, faults'["crash"] = 0,
                        NEW r \in PublishRequests, r.readOnly,
                        Mounted(TargetPath(r.target))', ~Remounting(r.target)'
                 PROVE  (Top(TargetPath(r.target))').readOnly
      BY DEF RemountsDone, Top, Mounted, Remounting, AtStep, TargetPath
    <3>1. CASE TargetPath(r.target) = t
      BY <2>2, <3>1
    <3>2. CASE TargetPath(r.target) # t
      <4>1. mounts'[TargetPath(r.target)] = mounts[TargetPath(r.target)]
        BY <2>1, <3>2, PublishRequestsAssumption, PathsOfRequests DEF OnlyAt
      <4>2. Mounted(TargetPath(r.target))
        BY <4>1 DEF Mounted
      <4>3. ~Remounting(r.target)
        BY <1>2, <2>6, <3>2 DEF Remounting, AtStep, NodeTypeOK, TargetPath
      <4>4. faults["mount"] = 0 /\ faults["crash"] = 0
        BY <2>1, NoFaultBefore DEF NodeTypeOK
      <4> QED
        BY <4>1, <4>2, <4>3, <4>4, SameMounts DEF AccessInv, RemountsDone
    <3> QED
      BY <3>1, <3>2
  <2> QED
    BY <2>3, <2>7, <2>8 DEF AccessInv
<1> QED
  BY <1>5, <1>6

LEMMA ReturnAccess ==
    ASSUME NodeTypeOK, SerialInv, AccessInv, NEW h \in Handlers,
           Answer(h) \/ UnmountStaging(h) \/ UnmountTarget(h)
    PROVE  AccessInv'
<1>1. ~AtStep(h, "remount") /\ ~AtStep(h, "idle")
  BY DEF Answer, UnmountStaging, UnmountTarget, AtStep
<1>2. call' = [call EXCEPT ![h] = Idle] /\ Idle.step = "idle"
  BY DEF Answer, UnmountStaging, UnmountTarget, Return, Idle
<1>3. RequestKept'
  BY <1>2, RequestKeptBy DEF AccessInv, MountSteps
<1>4. \A t : Remounting(t) => Remounting(t)'
  BY <1>1, <1>2, NoRemountLost
<1>5. CASE Answer(h)
  BY <1>3, <1>4, <1>5, AccessUnchanged, RemountsKept DEF AccessInv, Answer, NoFault
<1>6. CASE UnmountStaging(h) \/ UnmountTarget(h)
  <2>1. PICK p \in Paths, ok \in BOOLEAN : Unmount(p, ok)
    BY <1>6, UnmountedPath, PathsOfRequests DEF UnmountStaging, UnmountTarget
  <2>2. OnlyAt(p) /\ mounts'[p] \in {mounts[p], <<>>}
    BY <2>1, SerialUnmount DEF SerialInv, NodeTypeOK
  <2>3. NoFault \/ \E k \in FaultKinds : Fault(k)
    BY <2>1, MountFaultAssumption DEF Unmount
  <2>4. \A t \in Targets : mounts'[TargetPath(t)] \in {mounts[TargetPath(t)], <<>>}
    BY <2>2, PathsOfRequests DEF OnlyAt
  <2>5. AccessKept'
    <3>1. CASE mounts'[p] = <<>>
      <4>1. ~IsVirtiofs(Top(p)')
        BY <3>1, NoneMounted, DiskAssumption DEF IsVirtiofs
      <4> QED
        BY <2>2, <4>1, AccessOnly DEF AccessInv
    <3>2. CASE mounts'[p] = mounts[p]
      BY <2>2, <3>2, SameMounts, AccessOnly DEF AccessInv, AccessKept
    <3> QED
      BY <2>2, <3>1, <3>2
  <2> QED
    BY <1>3, <1>4, <2>3, <2>4, <2>5, RemountsKept DEF AccessInv
<1> QED
  BY <1>5, <1>6

\* The guest mounts an export with the one access it has.
LEMMA ExportAccess ==
    ASSUME AccessFixed, NodeTypeOK, AccessInv, NEW v \in Volumes,
           ExportMounted(v) \/ ExportUnmounted(v)
    PROVE  AccessInv'
<1> DEFINE p == ExportPath(v)
<1>1. p \in Paths
  BY PathsOfRequests
<1>2. /\ OnlyAt(p) /\ UNCHANGED call
      /\ NoFault \/ \E k \in FaultKinds : Fault(k)
  BY FaultKindsAssumption
  DEF OnlyAt, ExportMounted, ExportUnmounted, NodeTypeOK, MountsTypeOK, NoFault
<1>3. \/ mounts'[p] = <<>>
      \/ \E c \in RuntimeConfigs :
            c[v] # NoExport /\ mounts'[p] = <<[source |-> c[v].tag, readOnly |-> c[v].readOnly]>>
  BY <1>1 DEF ExportMounted, ExportUnmounted, NodeTypeOK, MountsTypeOK
<1>4. \A w \in Volumes : Owns(w, p) => w = v
  BY DEF Owns, ExportPath, StagingPath, TargetPath
<1>5. \A t \in Targets : TargetPath(t) # p /\ TargetPath(t) \in Paths
  BY PathsDiffer, PathsOfRequests
<1> HIDE DEF p
<1>6. IsVirtiofs(Top(p)') /\ ReadOnlyExport(v) => (Top(p)').readOnly
  <2>1. CASE mounts'[p] = <<>>
    BY <2>1, NoneMounted, DiskAssumption DEF IsVirtiofs
  <2>2. ASSUME NEW c \in RuntimeConfigs, c[v] # NoExport,
               mounts'[p] = <<[source |-> c[v].tag, readOnly |-> c[v].readOnly]>>
        PROVE  ReadOnlyExport(v) => (Top(p)').readOnly
    BY <2>2, OneMounted DEF ReadOnlyExport, AccessFixed
  <2> QED
    BY <1>3, <2>1, <2>2
<1>7. AccessKept'
  BY <1>1, <1>2, <1>4, <1>6, AccessOnly DEF AccessInv
<1>8. RequestKept' /\ \A t : Remounting(t) => Remounting(t)'
  BY <1>2 DEF AccessInv, RequestKept, Remounting, AtStep, TargetPath
<1>9. RemountsDone'
  BY <1>2, <1>5, <1>8, RemountsKept DEF AccessInv, OnlyAt
<1> QED
  BY <1>7, <1>8, <1>9 DEF AccessInv

\* While every mount command succeeds and the plugin stays up, a pod that may
\* only read has a read-only mount, when calls that change the same path wait
\* for each other and neither an export nor a request changes its access.
THEOREM ReadOnlyIsEnforced ==
    ASSUME AccessFixed
    PROVE  SerialSpec => []ReadOnlyEnforced
<1>1. Init => AccessInv
  <2> SUFFICES ASSUME Init PROVE AccessInv
    OBVIOUS
  <2>1. \A p \in Paths : ~Mounted(p)
    BY DEF Init, Mounted
  <2>2. \A p \in Paths : ~IsVirtiofs(Top(p))
    BY <2>1, VirtiofsMounted
  <2>3. RequestKept
    BY DEF Init, RequestKept, Idle, MountSteps
  <2>4. RemountsDone
    BY <2>1, PublishRequestsAssumption, PathsOfRequests DEF RemountsDone
  <2> QED
    BY <2>2, <2>3, <2>4 DEF AccessInv, AccessKept
<1>2. NodeTypeOK /\ SerialInv /\ AccessInv /\ [SerialNext]_vars => AccessInv'
  <2> SUFFICES ASSUME NodeTypeOK, SerialInv, AccessInv, [SerialNext]_vars
               PROVE  AccessInv'
    OBVIOUS
  <2>1. ASSUME NEW h \in Handlers, SerialRequest(h)
        PROVE  AccessInv'
    BY <2>1, RequestAccess DEF SerialRequest, Request
  <2>2. ASSUME NEW h \in Handlers, Advance(h)
        PROVE  AccessInv'
    BY <2>2, BindAccess, RemountAccess, ReturnAccess DEF Advance
  <2>3. CASE Start \/ UNCHANGED vars
    BY <2>3, AccessUnchanged
    DEF Start, vars, AccessInv, RequestKept, RemountsDone, Remounting, AtStep, Mounted, Top
  <2>4. CASE Crash
    <3>1. faults'["crash"] # 0
      BY <2>4, FaultsGrow, FaultKindsAssumption DEF Crash, NodeTypeOK
    <3> QED
      BY <2>4, <3>1, AccessUnchanged
      DEF Crash, AccessInv, RemountsDone, RequestKept, Idle, MountSteps
  <2>5. ASSUME NEW v \in Volumes, ExportMounted(v) \/ ExportUnmounted(v)
        PROVE  AccessInv'
    BY <2>5, ExportAccess
  <2> QED
    BY <2>1, <2>2, <2>3, <2>4, <2>5 DEF SerialNext
<1>3. NodeTypeOK /\ SerialInv /\ AccessInv => ReadOnlyEnforced
  <2> SUFFICES ASSUME NodeTypeOK, SerialInv, AccessInv,
                      faults["mount"] = 0, faults["crash"] = 0,
                      NEW t \in Targets, published[t] # NoPublish, published[t].readOnly
               PROVE  Top(TargetPath(t)).readOnly
    BY DEF ReadOnlyEnforced, ReadOnlyPublishes
  <2>1. ~PublishInFlight(t) /\ IsVirtiofs(Top(TargetPath(t)))
    BY DEF SerialInv, PublishedMounted
  <2>2. PICK r \in PublishRequests : r.target = t /\ (r.readOnly \/ ReadOnlyExport(r.volume))
    BY DEF SerialInv, PublishedMounted, Grounded
  <2>3. CASE ReadOnlyExport(r.volume)
    <3>1. r.volume \in Volumes /\ TargetPath(t) \in Paths /\ Owns(r.volume, TargetPath(t))
      BY <2>2, PublishRequestsAssumption, PathsOfRequests DEF Owns
    <3> QED
      BY <2>1, <2>3, <3>1 DEF AccessInv, AccessKept
  <2>4. CASE r.readOnly
    <3>1. ~Remounting(t)
      <4> SUFFICES ASSUME NEW h \in Handlers, AtStep(h, "remount"),
                          call[h].target = TargetPath(t)
                   PROVE  FALSE
        BY DEF Remounting
      <4>1. PublishCall(call[h])
        BY HandlerCalls, PathsDiffer DEF AtStep, StageCall, UnstageCall, UnpublishCall
      <4>2. call[h].request.target = t
        BY <4>1, PathsDiffer DEF PublishCall
      <4> QED
        BY <2>1, <4>1, <4>2 DEF PublishInFlight, PublishCall, MountSteps
    <3>2. Mounted(TargetPath(t))
      BY <2>1, VirtiofsMounted
    <3> QED
      BY <2>2, <2>4, <3>1, <3>2 DEF AccessInv, RemountsDone
  <2> QED
    BY <2>2, <2>3, <2>4
<1> QED
  BY <1>1, <1>2, <1>3, SerialInvariant, PTL DEF SerialSpec
=============================================================================
