---------------------- MODULE WorkspaceReconcileProofs ----------------------
(***************************************************************************)
(* What holds of WorkspaceReconcile for every bound on generations, lag    *)
(* and trouble, and for every set of keys.                                 *)
(***************************************************************************)
EXTENDS WorkspaceReconcile, TLAPS

(* What the operations on a WatchLog leave at its two ends and in between. *)

\* A log with a version appended: its cache is the same and its server holds
\* the new version.
LEMMA AppendFacts ==
  ASSUME NEW S, NEW log \in Seq(S), Len(log) > 0, NEW v \in S
  PROVE  /\ Append(log, v) \in Seq(S)
         /\ Len(Append(log, v)) = Len(log) + 1
         /\ Len(Append(log, v)) > 0
         /\ Current(Append(log, v)) = v
         /\ Cached(Append(log, v)) = Cached(log)
         /\ \A i \in 1 .. Len(log) : Append(log, v)[i] = log[i]
  BY DEF Current, Cached

\* A write: as appending, or nothing when the version is the server's own.
LEMMA WriteFacts ==
  ASSUME NEW S, NEW log \in Seq(S), Len(log) > 0, NEW v \in S
  PROVE  /\ Write(log, v) \in Seq(S)
         /\ Len(Write(log, v)) > 0
         /\ Current(Write(log, v)) = v
         /\ Cached(Write(log, v)) = Cached(log)
         /\ \A i \in 1 .. Len(Write(log, v)) :
              \/ i \in 1 .. Len(log) /\ Write(log, v)[i] = log[i]
              \/ i = Len(Write(log, v)) /\ Write(log, v)[i] = v
  <1>1. CASE v = Current(log)
    BY <1>1 DEF Write, Current, Cached
  <1>2. CASE v # Current(log)
    BY <1>2, AppendFacts DEF Write
  <1> QED BY <1>1, <1>2

\* A delivery: the server's version stays and the cache moves on.
LEMMA TailFacts ==
  ASSUME NEW S, NEW log \in Seq(S), Len(log) > 1
  PROVE  /\ Tail(log) \in Seq(S)
         /\ Len(Tail(log)) = Len(log) - 1
         /\ Len(Tail(log)) > 0
         /\ Current(Tail(log)) = Current(log)
         /\ Cached(Tail(log)) = log[2]
         /\ \A i \in 1 .. Len(Tail(log)) : Tail(log)[i] = log[i + 1]
  BY DEF Current, Cached

\* A restart: the cache holds what the server does.
LEMMA RelistFacts ==
  ASSUME NEW S, NEW log \in Seq(S), Len(log) > 0
  PROVE  /\ Relist(log) \in Seq(S)
         /\ Len(Relist(log)) = 1
         /\ Current(Relist(log)) = Current(log)
         /\ Cached(Relist(log)) = Current(log)
         /\ Relist(log)[1] = Current(log)
  BY DEF Current, Cached, Relist

\* Both ends of a log are versions of the object.
LEMMA EndsFacts ==
  ASSUME NEW S, NEW log \in Seq(S), Len(log) > 0
  PROVE  /\ Current(log) \in S
         /\ Cached(log) \in S
         /\ Cached(log) = log[1]
         /\ Current(log) = log[Len(log)]
         /\ Len(log) \in Nat
  BY DEF Current, Cached

\* A write that leaves one version was no change.
LEMMA WriteStays ==
  ASSUME NEW S, NEW log \in Seq(S), Len(log) > 0, NEW v, Len(Write(log, v)) = 1
  PROVE  /\ Write(log, v) = log /\ v = Current(log)
         /\ Len(log) = 1 /\ Cached(log) = Current(log)
  <1>1. Len(log) \in Nat
    OBVIOUS
  <1>2. CASE v = Current(log)
    <2>1. Write(log, v) = log /\ Len(log) = 1
      BY <1>2 DEF Write
    <2>2. Cached(log) = Current(log)
      BY <2>1, EndsFacts
    <2> QED BY <1>2, <2>1, <2>2
  <1>3. CASE v # Current(log)
    <2>1. Write(log, v) = Append(log, v)
      BY <1>3 DEF Write
    <2>2. Len(Append(log, v)) = Len(log) + 1
      OBVIOUS
    <2> QED BY <1>1, <2>1, <2>2
  <1> QED BY <1>2, <1>3

-----------------------------------------------------------------------------
(* Types *)

\* Every outcome a reconcile can decide on is a mark.
LEMMA MarkTypes ==
  /\ NoMark \in Marks
  /\ MarkImageNotFound \in Marks
  /\ MarkStorageUnset \in Marks
  /\ MarkDegraded \in Marks
  /\ \A ws, sts : MarkObserved(ws, sts) \in Marks
  BY DEF NoMark, MarkImageNotFound, MarkStorageUnset, MarkDegraded,
         MarkObserved, Observed, Mark, Marks, States, ReadyReasons,
         ResolvedReasons, DegradedReasons

\* An empty slot of the worker is a Workspace.
LEMMA NoWorkspaceType == NoWorkspace \in Workspaces
  BY MaxGenAssumption
     DEF NoWorkspace, Workspaces, NoStatus, Statuses, NoCondition, Conditions,
         Condition, Generations, States, ReadyReasons, ResolvedReasons,
         DegradedReasons

\* SetStatusCondition keeps a condition within its reasons.
LEMMA SetStatusConditionType ==
  ASSUME NEW R, NEW c \in Condition(R), NEW r \in R, NEW g \in Generations
  PROVE  SetStatusCondition(c, r, g) \in Condition(R)
  BY DEF SetStatusCondition, Condition

\* The status a reconcile wants is a status.
LEMMA DesiredType ==
  ASSUME NEW ws \in Workspaces, NEW m \in Marks
  PROVE  Desired(ws, m) \in Statuses
  <1> DEFINE old == ws.status.conds
  <1>1. /\ ws.gen \in Generations
        /\ old.Ready \in Condition(ReadyReasons)
        /\ old.ImageResolved \in Condition(ResolvedReasons)
        /\ old.Degraded \in Condition(DegradedReasons)
    BY DEF Workspaces, Statuses, Conditions
  <1>2. /\ m.state \in States /\ m.pod \in BOOLEAN
        /\ m.ready \in ReadyReasons
        /\ m.resolved \in ResolvedReasons
        /\ m.degraded \in DegradedReasons
    BY DEF Marks
  <1>3. /\ SetStatusCondition(old.Ready, m.ready, ws.gen)
             \in Condition(ReadyReasons)
        /\ SetStatusCondition(old.ImageResolved, m.resolved, ws.gen)
             \in Condition(ResolvedReasons)
        /\ SetStatusCondition(old.Degraded, m.degraded, ws.gen)
             \in Condition(DegradedReasons)
    BY <1>1, <1>2, SetStatusConditionType
  <1> QED BY <1>1, <1>2, <1>3
          DEF Desired, DesiredWith, Statuses, Conditions

\* What a merge patch leaves on the server is a status.
LEMMA MergePatchType ==
  ASSUME NEW a \in Statuses, NEW b \in Statuses, NEW c \in Statuses
  PROVE  MergePatch(a, b, c) \in Statuses
  BY DEF MergePatch, Patched, Statuses

\* A status patch changes the status of the server's Workspace alone.
LEMMA PatchedWorkspaceFacts ==
  ASSUME TypeOK
  PROVE  /\ PatchedWorkspace \in Workspaces
         /\ PatchedWorkspace.phase = Server.phase
         /\ PatchedWorkspace.gen = Server.gen
         /\ PatchedWorkspace.running = Server.running
         /\ PatchedWorkspace.status =
              MergePatch(Server.status, snap.status, Desired(snap, mark))
         /\ Write(wsLog, PatchedWorkspace) \in Seq(Workspaces)
         /\ Len(Write(wsLog, PatchedWorkspace)) > 0
  <1>1. Server \in Workspaces
    BY EndsFacts DEF TypeOK, LogTypeOK, Server
  <1>2. Server.status \in Statuses /\ snap.status \in Statuses
    BY <1>1 DEF TypeOK, WorkerTypeOK, Workspaces
  <1>3. Desired(snap, mark) \in Statuses
    BY DesiredType DEF TypeOK, WorkerTypeOK
  <1>4. MergePatch(Server.status, snap.status, Desired(snap, mark))
          \in Statuses
    BY <1>2, <1>3, MergePatchType
  <1>5. /\ PatchedWorkspace \in Workspaces
        /\ PatchedWorkspace.phase = Server.phase
        /\ PatchedWorkspace.gen = Server.gen
        /\ PatchedWorkspace.running = Server.running
        /\ PatchedWorkspace.status =
             MergePatch(Server.status, snap.status, Desired(snap, mark))
    BY <1>1, <1>4 DEF PatchedWorkspace, Workspaces
  <1> QED BY <1>5, WriteFacts DEF TypeOK, LogTypeOK

\* Using up a budget leaves a count.
LEMMA SpendType ==
  ASSUME TypeOK, NEW kind \in Troubles, Spend(kind)
  PROVE  spent' \in [Troubles -> Nat]
  BY DEF TypeOK, Spend

\* The types hold at first.
LEMMA TypeInit == Init => TypeOK
  <1> SUFFICES ASSUME Init PROVE TypeOK
    OBVIOUS
  <1>1. wsLog \in Seq(Workspaces) /\ Len(wsLog) > 0
    <2>1. NoStatus \in Statuses
      BY NoWorkspaceType DEF NoWorkspace, Workspaces
    <2>2. PICK r, t \in BOOLEAN :
            wsLog = <<[phase |-> "live", gen |-> 1, running |-> r,
                       storage |-> t, status |-> NoStatus]>>
      BY DEF Init
    <2>3. 1 \in Generations
      BY MaxGenAssumption DEF Generations
    <2> QED BY <2>1, <2>2, <2>3 DEF Workspaces
  <1>2. stsLog \in Seq(StatefulSets) /\ Len(stsLog) > 0
    BY DEF Init, StatefulSets, NoStatefulSet
  <1>3. /\ svcLog \in Seq(Presence) /\ Len(svcLog) > 0
        /\ imgLog \in Seq(Presence) /\ Len(imgLog) > 0
    BY DEF Init, Presence
  <1>4. secLog \in Seq(Secrets) /\ Len(secLog) > 0
    <2>1. PICK k \in Keys \union {NoKey} :
            secLog = <<[source |-> k, runtime |-> NoKey]>>
      BY DEF Init
    <2> QED BY <2>1 DEF Secrets
  <1> QED BY <1>1, <1>2, <1>3, <1>4, NoWorkspaceType, MarkTypes
          DEF Init, TypeOK, LogTypeOK, WorkerTypeOK

\* Each way the worker goes on keeps its variables' types.
LEMMA ToIdleType == ToIdle => WorkerTypeOK'
  BY MarkTypes, NoWorkspaceType DEF ToIdle, WorkerTypeOK

\* As above, on the way to patchStatus.
LEMMA ToPatchType ==
  ASSUME NEW ws \in Workspaces, NEW m \in Marks, NEW err \in BOOLEAN,
         ToPatch(ws, m, err)
  PROVE  WorkerTypeOK'
  BY DEF ToPatch, WorkerTypeOK

\* As above, on the way to the next call.
LEMMA ToStepType ==
  ASSUME WorkerTypeOK,
         NEW step \in {"gitssh", "service", "sts", "observe"},
         NEW ws \in Workspaces, NEW ref \in BOOLEAN, ToStep(step, ws, ref)
  PROVE  WorkerTypeOK'
  BY DEF ToStep, WorkerTypeOK

\* Every version a log begins or ends with has its type.
LEMMA VersionTypes ==
  ASSUME LogTypeOK
  PROVE  /\ Server \in Workspaces /\ Cached(wsLog) \in Workspaces
         /\ Current(stsLog) \in StatefulSets /\ Cached(stsLog) \in StatefulSets
         /\ Current(svcLog) \in Presence /\ Current(imgLog) \in Presence
         /\ Current(secLog) \in Secrets /\ Cached(secLog) \in Secrets
  BY EndsFacts DEF LogTypeOK, Server

\* An edit or a deletion puts a version on the log that keeps the status, and
\* that keeps the spec unless it takes the next generation.
LEMMA UserVersion ==
  ASSUME TypeOK,
         StartOrStop \/ SetStorage \/ DeleteWorkspace \/ FinishDeletion
  PROVE  \E v \in Workspaces :
           /\ wsLog' = Append(wsLog, v)
           /\ v.status = Server.status
           /\ v.phase = "live" => Server.phase = "live"
           /\ \/ v.gen = Server.gen + 1
              \/ v.gen = Server.gen /\ v.running = Server.running
  <1>9. Server \in Workspaces
    BY VersionTypes DEF TypeOK
  <1>0. Server.gen < MaxGen => Server.gen + 1 \in Generations
    BY <1>9, MaxGenAssumption DEF Workspaces, Generations
  <1>1. CASE StartOrStop
    <2> DEFINE v == [[Server EXCEPT !.running = ~Server.running]
                       EXCEPT !.gen = @ + 1]
    <2>1. Server.gen < MaxGen /\ wsLog' = Append(wsLog, v)
      BY <1>1 DEF StartOrStop, Edit
    <2>2. /\ v \in Workspaces /\ v.status = Server.status
          /\ v.phase = Server.phase /\ v.gen = Server.gen + 1
      BY <1>9, <1>0, <2>1 DEF Workspaces
    <2> QED BY <2>1, <2>2
  <1>2. CASE SetStorage
    <2> DEFINE v == [[Server EXCEPT !.storage = TRUE] EXCEPT !.gen = @ + 1]
    <2>1. Server.gen < MaxGen /\ wsLog' = Append(wsLog, v)
      BY <1>2 DEF SetStorage, Edit
    <2>2. /\ v \in Workspaces /\ v.status = Server.status
          /\ v.phase = Server.phase /\ v.gen = Server.gen + 1
      BY <1>9, <1>0, <2>1 DEF Workspaces
    <2> QED BY <2>1, <2>2
  <1>3. CASE DeleteWorkspace \/ FinishDeletion
    <2> DEFINE u == [Server EXCEPT !.phase = "gone"]
               w == [Server EXCEPT !.phase = "deleting",
                                   !.gen = Server.gen + 1]
    <2>1. \/ wsLog' = Append(wsLog, u)
          \/ Server.gen < MaxGen /\ wsLog' = Append(wsLog, w)
      BY <1>3 DEF DeleteWorkspace, FinishDeletion
    <2>2. /\ u \in Workspaces /\ u.status = Server.status
          /\ u.phase = "gone" /\ u.gen = Server.gen
          /\ u.running = Server.running
      BY <1>9 DEF Workspaces
    <2>3. Server.gen < MaxGen =>
            /\ w \in Workspaces /\ w.status = Server.status
            /\ w.phase = "deleting" /\ w.gen = Server.gen + 1
      BY <1>9, <1>0 DEF Workspaces
    <2> QED BY <2>1, <2>2, <2>3
  <1> QED BY <1>1, <1>2, <1>3

\* Every step of the worker keeps the types.
LEMMA WorkerStepType == TypeOK /\ WorkerStep => TypeOK'
  <1> SUFFICES ASSUME TypeOK, WorkerStep PROVE TypeOK'
    OBVIOUS
  <1> USE VersionTypes, MarkTypes DEF TypeOK
  <1>0. snap \in Workspaces /\ keysRef \in BOOLEAN
    BY DEF WorkerTypeOK
  <1>1. CASE Reconcile
    <2>1. LogTypeOK'
      BY <1>1 DEF Reconcile, logs, LogTypeOK
    <2>2. WorkerTypeOK'
      BY <1>1, ToIdleType, ToPatchType, ToStepType DEF Reconcile
    <2> QED BY <1>1, <2>1, <2>2 DEF Reconcile
  <1>2. CASE ensureGitSSHRuntimeSecret
    <2> DEFINE v == [Current(secLog) EXCEPT !.runtime =
                       RuntimeAfterWrite(Cached(secLog), Current(secLog))]
    <2>1. v \in Secrets
      BY DEF Secrets, RuntimeAfterWrite, Patched
    <2>2. Write(secLog, v) \in Seq(Secrets) /\ Len(Write(secLog, v)) > 0
      BY <2>1, WriteFacts DEF LogTypeOK
    <2>3. LogTypeOK'
      BY <1>2, <2>2 DEF ensureGitSSHRuntimeSecret, LogTypeOK
    <2>4. (Cached(secLog).source # NoKey) \in BOOLEAN
      OBVIOUS
    <2>5. WorkerTypeOK'
      BY <1>0, <1>2, <2>4, ToPatchType, ToStepType
         DEF ensureGitSSHRuntimeSecret
    <2> QED BY <1>2, <2>3, <2>5 DEF ensureGitSSHRuntimeSecret
  <1>3. CASE ApplyService
    <2>1. "present" \in Presence
      BY DEF Presence
    <2>2. /\ Write(svcLog, "present") \in Seq(Presence)
          /\ Len(Write(svcLog, "present")) > 0
      BY <2>1, WriteFacts DEF LogTypeOK
    <2>3. LogTypeOK'
      BY <1>3, <2>2 DEF ApplyService, LogTypeOK
    <2>4. WorkerTypeOK'
      BY <1>0, <1>3, ToStepType DEF ApplyService
    <2> QED BY <1>3, <2>3, <2>4 DEF ApplyService
  <1>4. CASE ApplyStatefulSet
    <2> DEFINE v == BuildStatefulSet(snap, keysRef, Current(stsLog))
    <2>1. v \in StatefulSets
      BY <1>0 DEF BuildStatefulSet, Replicas, StatefulSets
    <2>2. Write(stsLog, v) \in Seq(StatefulSets) /\ Len(Write(stsLog, v)) > 0
      BY <2>1, WriteFacts DEF LogTypeOK
    <2>3. LogTypeOK'
      BY <1>4, <2>2 DEF ApplyStatefulSet, LogTypeOK
    <2>4. WorkerTypeOK'
      BY <1>0, <1>4, ToStepType DEF ApplyStatefulSet
    <2> QED BY <1>4, <2>3, <2>4 DEF ApplyStatefulSet
  <1>5. CASE Observe
    <2>1. LogTypeOK'
      BY <1>5 DEF Observe, logs, LogTypeOK
    <2>2. WorkerTypeOK'
      BY <1>0, <1>5, ToPatchType DEF Observe
    <2> QED BY <1>5, <2>1, <2>2 DEF Observe
  <1>6. CASE patchStatus
    <2>2. LogTypeOK'
      BY <1>6, PatchedWorkspaceFacts DEF patchStatus, LogTypeOK
    <2>3. WorkerTypeOK'
      BY <1>6, ToIdleType DEF patchStatus
    <2>4. queued' \in BOOLEAN
      BY <1>6 DEF patchStatus
    <2> QED BY <1>6, <2>2, <2>3, <2>4 DEF patchStatus
  <1> QED BY <1>1, <1>2, <1>3, <1>4, <1>5, <1>6 DEF WorkerStep

\* A delivery keeps the types.
LEMMA DeliverType == TypeOK /\ Deliver => TypeOK'
  <1> SUFFICES ASSUME TypeOK, Deliver PROVE TypeOK'
    OBVIOUS
  <1>1. LogTypeOK'
    BY TailFacts
       DEF TypeOK, LogTypeOK, Deliver, DeliverWorkspace, DeliverStatefulSet,
           DeliverService, DeliverImage, DeliverSecret
  <1>2. WorkerTypeOK' /\ queued' \in BOOLEAN /\ spent' \in [Troubles -> Nat]
    BY DEF TypeOK, WorkerTypeOK, Deliver, DeliverWorkspace,
           DeliverStatefulSet, DeliverService, DeliverImage, DeliverSecret,
           worker
  <1> QED BY <1>1, <1>2 DEF TypeOK

\* Faults and restarts keep the types.
LEMMA TroubleType == TypeOK /\ Trouble => TypeOK'
  <1> SUFFICES ASSUME TypeOK, Trouble PROVE TypeOK'
    OBVIOUS
  <1> USE DEF TypeOK
  <1>1. spent' \in [Troubles -> Nat]
    BY SpendType DEF Trouble, ReconcileFails, ObserveFails, PatchStatusFails,
                     ManagerRestarts, Troubles
  <1>2. queued' \in BOOLEAN
    BY DEF Trouble, ReconcileFails, ObserveFails, PatchStatusFails,
           ManagerRestarts
  <1>3. WorkerTypeOK'
    BY ToIdleType, ToPatchType, MarkTypes
       DEF WorkerTypeOK, Trouble, ReconcileFails, ObserveFails,
           PatchStatusFails, ManagerRestarts
  <1>4. CASE ReconcileFails \/ ObserveFails
    BY <1>1, <1>2, <1>3, <1>4
       DEF ReconcileFails, ObserveFails, logs, LogTypeOK
  <1>5. CASE PatchStatusFails
    BY <1>1, <1>2, <1>3, <1>5, PatchedWorkspaceFacts
       DEF PatchStatusFails, LogTypeOK
  <1>6. CASE ManagerRestarts
    BY <1>1, <1>2, <1>3, <1>6, RelistFacts DEF ManagerRestarts, LogTypeOK
  <1> QED BY <1>4, <1>5, <1>6 DEF Trouble

\* The actions of users, administrators and Kubernetes keep the types.
LEMMA OutsideType == TypeOK /\ Outside => TypeOK'
  <1> SUFFICES ASSUME TypeOK, Outside PROVE TypeOK'
    OBVIOUS
  <1> USE DEF TypeOK
  <1>1. WorkerTypeOK'
    BY DEF WorkerTypeOK, worker, Outside, StartOrStop, SetStorage, Edit,
           DeleteWorkspace, CreateOrDeleteImage, PutOrDeleteGitSSHKey,
           PodBecomesReady, PodStops, PodFails, CollectStatefulSet,
           CollectService, FinishDeletion
  <1>2. queued' \in BOOLEAN
    BY DEF Outside, StartOrStop, SetStorage, Edit,
           DeleteWorkspace, CreateOrDeleteImage, PutOrDeleteGitSSHKey,
           PodBecomesReady, PodStops, PodFails, CollectStatefulSet,
           CollectService, FinishDeletion
  <1>3. spent' \in [Troubles -> Nat]
    BY SpendType
       DEF Outside, StartOrStop, SetStorage, Edit,
           DeleteWorkspace, CreateOrDeleteImage, PutOrDeleteGitSSHKey,
           PodBecomesReady, PodStops, PodFails, CollectStatefulSet,
           CollectService, FinishDeletion, Troubles
  <1>4. CASE StartOrStop \/ SetStorage \/ DeleteWorkspace \/ FinishDeletion
    <2>1. PICK v \in Workspaces : wsLog' = Append(wsLog, v)
      BY <1>4, UserVersion
    <2>2. UNCHANGED <<stsLog, svcLog, imgLog, secLog>>
      BY <1>4 DEF StartOrStop, SetStorage, Edit, DeleteWorkspace,
                  FinishDeletion
    <2>3. LogTypeOK'
      BY <2>1, <2>2, AppendFacts DEF LogTypeOK
    <2> QED BY <1>1, <1>2, <1>3, <2>3
  <1>5. CASE \/ PodBecomesReady \/ PodStops \/ PodFails
             \/ CollectStatefulSet
    <2>1. PICK v \in StatefulSets : stsLog' = Append(stsLog, v)
      <3>1. Current(stsLog) \in StatefulSets
        BY VersionTypes
      <3>2. /\ NoStatefulSet \in StatefulSets
            /\ [Current(stsLog) EXCEPT !.ready = TRUE] \in StatefulSets
            /\ [Current(stsLog) EXCEPT !.ready = FALSE] \in StatefulSets
        BY <3>1 DEF StatefulSets, NoStatefulSet
      <3> QED BY <1>5, <3>2 DEF PodBecomesReady, PodStops, PodFails,
                                CollectStatefulSet
    <2>2. UNCHANGED <<wsLog, svcLog, imgLog, secLog>>
      BY <1>5 DEF PodBecomesReady, PodStops, PodFails, CollectStatefulSet
    <2>3. LogTypeOK'
      BY <2>1, <2>2, AppendFacts DEF LogTypeOK
    <2> QED BY <1>1, <1>2, <1>3, <2>3
  <1>6. CASE CollectService
    <2>1. "absent" \in Presence
      BY DEF Presence
    <2>2. LogTypeOK'
      BY <1>6, <2>1, AppendFacts DEF CollectService, LogTypeOK
    <2> QED BY <1>1, <1>2, <1>3, <2>2
  <1>7. CASE CreateOrDeleteImage
    <2>1. PICK v \in Presence : imgLog' = Append(imgLog, v)
      BY <1>7 DEF CreateOrDeleteImage, Presence
    <2>2. LogTypeOK'
      BY <1>7, <2>1, AppendFacts DEF CreateOrDeleteImage, LogTypeOK
    <2> QED BY <1>1, <1>2, <1>3, <2>2
  <1>8. CASE PutOrDeleteGitSSHKey
    <2>1. PICK v \in Secrets : secLog' = Append(secLog, v)
      BY <1>8, VersionTypes DEF PutOrDeleteGitSSHKey, Secrets
    <2>2. LogTypeOK'
      BY <1>8, <2>1, AppendFacts DEF PutOrDeleteGitSSHKey, LogTypeOK
    <2> QED BY <1>1, <1>2, <1>3, <2>2
  <1> QED BY <1>4, <1>5, <1>6, <1>7, <1>8 DEF Outside

\* Every step keeps the types.
LEMMA TypeStep == TypeOK /\ [Next]_vars => TypeOK'
  <1>1. TypeOK /\ UNCHANGED vars => TypeOK'
    BY DEF TypeOK, LogTypeOK, WorkerTypeOK, vars
  <1> QED BY <1>1, WorkerStepType, DeliverType, TroubleType, OutsideType
          DEF Next

\* Whatever the bounds and the keys, every variable holds a value the program
\* can give it.
THEOREM TypeCorrect == Spec => []TypeOK
  BY TypeInit, TypeStep, PTL DEF Spec

-----------------------------------------------------------------------------
(***************************************************************************)
(* The inductive invariant.  The properties say something of the server's  *)
(* status and of the server's children; what makes them stable is what the *)
(* lagging copies may hold, so the invariant speaks of every version in    *)
(* the log and of the Workspace the worker has read:                       *)
(*   History   the versions under way are in order of generation, and      *)
(*             those of the current generation have the current spec;      *)
(*   Read      the worker's Workspace is no newer than the cache and, if   *)
(*             of the current generation, has the current spec;            *)
(*   Published nothing newer than what the worker has read is published;   *)
(*   Decided   the status being published is that of the spec read;        *)
(*   Applied   and once it speaks of the workload, the workload is that of *)
(*             the spec read.                                              *)
(***************************************************************************)

History ==
  \A i \in 1 .. Len(wsLog) :
    /\ \A j \in 1 .. Len(wsLog) : i <= j => wsLog[i].gen <= wsLog[j].gen
    /\ wsLog[i].gen = Server.gen => wsLog[i].running = Server.running

Read ==
  pc # "idle" =>
    /\ snap.gen <= Cached(wsLog).gen
    /\ snap.gen = Server.gen => snap.running = Server.running

Published ==
  /\ Server.status.og <= Cached(wsLog).gen
  /\ ReadyCondition.og <= Cached(wsLog).gen
  /\ pc # "idle" => /\ Server.status.og <= snap.gen
                    /\ ReadyCondition.og <= snap.gen

Decided ==
  pc = "patch" =>
    /\ mark.ready # "None"
    /\ mark.ready \in {"PodNotReady", "PodRunning"} => snap.running
    /\ mark.ready = "Suspended" => ~snap.running

Applied ==
  Server.phase = "live" =>
    /\ pc \in {"sts", "observe"} => Current(svcLog) = "present"
    /\ pc = "observe" => AppliedFor(snap.running)
    /\ pc = "patch" /\ mark.ready \in ObservedReasons
         => AppliedFor(snap.running)

IndInv ==
  /\ History
  /\ Read
  /\ Published
  /\ Decided
  /\ Applied
  /\ GoverningServiceFirst
  /\ ReadySpeaksOfCurrentSpec
  /\ StatusBackedByWorkload

\* What a step can do to the Workspace, whoever takes it: the generation and
\* the cache only move forward, the spec changes only with the generation, and
\* a Workspace that is being deleted never comes back.
Forward ==
  /\ Server.gen <= Server'.gen
  /\ Server'.gen = Server.gen => Server'.running = Server.running
  /\ Cached(wsLog).gen <= Cached(wsLog)'.gen
  /\ Cached(wsLog)'.gen <= Server'.gen
  /\ Server'.phase = "live" => Server.phase = "live"

\* Numbers the arithmetic below is about.
LEMMA GenTypes ==
  ASSUME NEW ws \in Workspaces
  PROVE  /\ ws.gen \in Int
         /\ ws.status \in Statuses
         /\ ws.status.og \in Int
         /\ ws.status.conds.Ready.og \in Int
         /\ ws.running \in BOOLEAN
  BY MaxGenAssumption DEF Workspaces, Statuses, Conditions, Condition,
                          Generations

\* No version is newer than the server's.
LEMMA HistoryBounds ==
  ASSUME LogTypeOK, History
  PROVE  /\ Len(wsLog) \in Nat /\ 1 \in 1 .. Len(wsLog)
         /\ Server = wsLog[Len(wsLog)] /\ Cached(wsLog) = wsLog[1]
         /\ Server.gen \in Int /\ Cached(wsLog).gen \in Int
         /\ \A i \in 1 .. Len(wsLog) :
              wsLog[i].gen \in Int /\ wsLog[i].gen <= Server.gen
         /\ Cached(wsLog).gen <= Server.gen
  <1>1. /\ Len(wsLog) \in Nat /\ 1 \in 1 .. Len(wsLog)
        /\ Len(wsLog) \in 1 .. Len(wsLog)
        /\ Server = wsLog[Len(wsLog)] /\ Cached(wsLog) = wsLog[1]
    BY EndsFacts DEF LogTypeOK, Server
  <1>2. \A i \in 1 .. Len(wsLog) : wsLog[i] \in Workspaces
    BY DEF LogTypeOK
  <1>3. \A i \in 1 .. Len(wsLog) : wsLog[i].gen \in Int
    BY <1>2, GenTypes
  <1>4. \A i \in 1 .. Len(wsLog) : wsLog[i].gen <= Server.gen
    BY <1>1 DEF History
  <1> QED BY <1>1, <1>3, <1>4

\* History is kept by a write that leaves generation and spec alone.
LEMMA HistoryRewrite ==
  ASSUME LogTypeOK, History, NEW v \in Workspaces,
         v.gen = Server.gen, v.running = Server.running,
         v.phase = "live" => Server.phase = "live",
         \/ wsLog' = Append(wsLog, v)
         \/ wsLog' = Write(wsLog, v)
  PROVE  History' /\ Forward
  <1>1. /\ wsLog' \in Seq(Workspaces) /\ Len(wsLog') > 0
        /\ Server' = v
        /\ Cached(wsLog)' = Cached(wsLog)
        /\ \A i \in 1 .. Len(wsLog') :
             \/ i \in 1 .. Len(wsLog) /\ wsLog'[i] = wsLog[i]
             \/ i = Len(wsLog') /\ wsLog'[i] = v
    <2>1. CASE wsLog' = Append(wsLog, v)
      BY <2>1, AppendFacts DEF LogTypeOK, Server
    <2>2. CASE wsLog' = Write(wsLog, v)
      <3>1. /\ Write(wsLog, v) \in Seq(Workspaces)
            /\ Len(Write(wsLog, v)) > 0
            /\ Current(Write(wsLog, v)) = v
            /\ Cached(Write(wsLog, v)) = Cached(wsLog)
            /\ \A i \in 1 .. Len(Write(wsLog, v)) :
                 \/ i \in 1 .. Len(wsLog) /\ Write(wsLog, v)[i] = wsLog[i]
                 \/ i = Len(Write(wsLog, v)) /\ Write(wsLog, v)[i] = v
        BY WriteFacts DEF LogTypeOK
      <3> QED BY <2>2, <3>1 DEF Server
    <2> QED BY <2>1, <2>2
  <1>2. Server.gen \in Int
        /\ \A i \in 1 .. Len(wsLog) :
             wsLog[i].gen \in Int /\ wsLog[i].gen <= Server.gen
    BY HistoryBounds
  <1>3. Len(wsLog') \in Nat /\ Len(wsLog) \in Nat
    BY <1>1 DEF LogTypeOK
  <1>4. History'
    <2> SUFFICES ASSUME NEW i \in 1 .. Len(wsLog'), NEW j \in 1 .. Len(wsLog')
                 PROVE  /\ i <= j => wsLog'[i].gen <= wsLog'[j].gen
                        /\ wsLog'[i].gen = v.gen =>
                             wsLog'[i].running = v.running
      BY <1>1 DEF History
    <2>1. CASE i \in 1 .. Len(wsLog) /\ wsLog'[i] = wsLog[i]
      BY <1>1, <1>2, <1>3, <2>1 DEF History
    <2>2. CASE i = Len(wsLog') /\ wsLog'[i] = v
      BY <1>1, <1>2, <1>3, <2>2
    <2> QED BY <1>1, <2>1, <2>2
  <1>5. Forward
    BY <1>1, HistoryBounds DEF Forward
  <1> QED BY <1>4, <1>5

\* History is kept by an edit, which takes the next generation.
LEMMA HistoryEdit ==
  ASSUME LogTypeOK, History, NEW v \in Workspaces,
         v.gen = Server.gen + 1,
         v.phase = "live" => Server.phase = "live",
         wsLog' = Append(wsLog, v)
  PROVE  History' /\ Forward
  <1>1. /\ Len(wsLog') = Len(wsLog) + 1
        /\ Server' = v
        /\ Cached(wsLog)' = Cached(wsLog)
        /\ \A i \in 1 .. Len(wsLog) : wsLog'[i] = wsLog[i]
        /\ wsLog'[Len(wsLog')] = v
    BY AppendFacts DEF LogTypeOK, Server, Current
  <1>2. History'
    BY <1>1, HistoryBounds DEF History
  <1>3. Forward
    BY <1>1, HistoryBounds DEF Forward
  <1> QED BY <1>2, <1>3

\* History is kept by a delivery.
LEMMA HistoryDeliver ==
  ASSUME LogTypeOK, History, Len(wsLog) > 1, wsLog' = Tail(wsLog)
  PROVE  History' /\ Forward /\ Server' = Server
  <1>1. /\ Len(wsLog') = Len(wsLog) - 1
        /\ Server' = Server
        /\ Cached(wsLog)' = wsLog[2]
        /\ \A i \in 1 .. Len(wsLog') : wsLog'[i] = wsLog[i + 1]
        /\ Len(wsLog) \in Nat
    BY TailFacts DEF LogTypeOK, Server
  <1>2. \A i \in 1 .. Len(wsLog') : i + 1 \in 1 .. Len(wsLog)
    BY <1>1
  <1>3. History'
    BY <1>1, <1>2 DEF History
  <1>4. /\ Cached(wsLog) = wsLog[1] /\ Server = wsLog[Len(wsLog)]
        /\ wsLog[1].gen <= wsLog[2].gen
        /\ wsLog[2].gen <= wsLog[Len(wsLog)].gen
    BY <1>1, EndsFacts DEF LogTypeOK, History, Server
  <1>5. Forward
    BY <1>1, <1>4, GenTypes, VersionTypes DEF Forward
  <1> QED BY <1>1, <1>3, <1>5

\* History is kept by a restart.
LEMMA HistoryRelist ==
  ASSUME LogTypeOK, History, wsLog' = Relist(wsLog)
  PROVE  History' /\ Forward /\ Server' = Server
  <1>1. /\ Len(wsLog') = 1
        /\ Server' = Server
        /\ Cached(wsLog)' = Server
        /\ wsLog'[1] = Server
    BY RelistFacts DEF LogTypeOK, Server
  <1>2. Server.gen \in Int
    BY VersionTypes, GenTypes
  <1>3. History'
    BY <1>1, <1>2 DEF History
  <1>4. Cached(wsLog) = wsLog[1] /\ wsLog[1].gen <= Server.gen
    BY EndsFacts DEF LogTypeOK, History, Server
  <1>5. Forward
    BY <1>1, <1>2, <1>4 DEF Forward
  <1> QED BY <1>1, <1>3, <1>5

\* History is kept, of course, by a step that leaves the Workspace alone.
LEMMA HistorySame ==
  ASSUME LogTypeOK, History, wsLog' = wsLog
  PROVE  History' /\ Forward /\ Server' = Server
  <1>1. Server' = Server /\ Cached(wsLog)' = Cached(wsLog)
    BY DEF Server
  <1>2. History'
    BY <1>1 DEF History
  <1>3. Forward
    BY <1>1, HistoryBounds DEF Forward
  <1> QED BY <1>1, <1>2, <1>3

\* The integers of the two ends of the log and of the Workspace read.
LEMMA NumberTypes ==
  ASSUME TypeOK
  PROVE  /\ Server.gen \in Int /\ Cached(wsLog).gen \in Int
         /\ snap.gen \in Int /\ Server.status.og \in Int
         /\ ReadyCondition.og \in Int
  BY VersionTypes, GenTypes DEF TypeOK, WorkerTypeOK, ReadyCondition

\* The worker's position and the children of a live Workspace stay as they
\* are, or the worker lets go of what it was doing.
ChildrenKept ==
  Server'.phase = "live" =>
    /\ Current(svcLog)' = Current(svcLog)
    /\ Current(stsLog)'.exists = Current(stsLog).exists
    /\ Current(stsLog)'.replicas = Current(stsLog).replicas

\* A step that publishes nothing and moves neither the worker nor the children
\* of a live Workspace keeps the invariant, however the Workspace moves forward.
LEMMA IndCarried ==
  ASSUME TypeOK, IndInv, TypeOK', History', Forward,
         Server'.status = Server.status,
         UNCHANGED worker \/ pc' = "idle",
         ChildrenKept
  PROVE  IndInv'
  <1>1. /\ Server.gen \in Int /\ Cached(wsLog).gen \in Int
        /\ snap.gen \in Int /\ Server.status.og \in Int
        /\ ReadyCondition.og \in Int
        /\ Server'.gen \in Int /\ Cached(wsLog)'.gen \in Int
        /\ Cached(wsLog).gen <= Server.gen
    <2>1. Server' \in Workspaces /\ Cached(wsLog)' \in Workspaces
      BY EndsFacts DEF TypeOK, LogTypeOK, Server
    <2> QED BY <2>1, GenTypes, NumberTypes, HistoryBounds DEF TypeOK, IndInv
  <1>2. ReadyCondition' = ReadyCondition
    BY DEF ReadyCondition
  <1>3. Read'
    BY <1>1 DEF IndInv, Read, Forward, worker
  <1>4. Published'
    BY <1>1, <1>2 DEF IndInv, Published, Forward, worker
  <1>5. Decided'
    BY DEF IndInv, Decided, worker
  <1>6. Server'.phase = "live" =>
          /\ Server.phase = "live"
          /\ \A r \in BOOLEAN : AppliedFor(r) => AppliedFor(r)'
    BY DEF Forward, ChildrenKept, AppliedFor
  <1>7. Applied'
    BY <1>6 DEF IndInv, Applied, AppliedFor, ChildrenKept, worker
  <1>8. GoverningServiceFirst'
    BY <1>6 DEF IndInv, GoverningServiceFirst, ChildrenKept
  <1>9. ReadyCondition'.og = Server'.gen =>
          ReadyCondition.og = Server.gen /\ Server'.running = Server.running
    BY <1>1, <1>2 DEF IndInv, Published, Forward
  <1>10. ReadySpeaksOfCurrentSpec'
    BY <1>2, <1>9 DEF IndInv, ReadySpeaksOfCurrentSpec
  <1>11. StatusBackedByWorkload'
    BY <1>2, <1>6, <1>9
       DEF IndInv, StatusBackedByWorkload, ChildrenKept, AppliedFor
  <1> QED BY <1>3, <1>4, <1>5, <1>7, <1>8, <1>10, <1>11 DEF IndInv

\* The invariant holds at first.
LEMMA IndInit == Init => IndInv
  <1> SUFFICES ASSUME Init PROVE IndInv
    OBVIOUS
  <1>1. PICK r, t \in BOOLEAN :
          wsLog = <<[phase |-> "live", gen |-> 1, running |-> r,
                     storage |-> t, status |-> NoStatus]>>
    BY DEF Init
  <1>2. /\ Len(wsLog) = 1
        /\ wsLog[1].gen = 1 /\ wsLog[1].running = r
        /\ Server = wsLog[1] /\ Cached(wsLog) = wsLog[1]
        /\ Server.status = NoStatus
    BY <1>1 DEF Server, Current, Cached
  <1>3. /\ Server.status.og = 0
        /\ ReadyCondition.og = 0
        /\ Server.gen = 1
    BY <1>2 DEF NoStatus, NoCondition, ReadyCondition
  <1>4. History /\ Read /\ Published /\ Decided
    BY <1>2, <1>3 DEF Init, History, Read, Published, Decided
  <1>5. Applied /\ GoverningServiceFirst
    BY DEF Init, Applied, GoverningServiceFirst, Current, NoStatefulSet
  <1>6. ReadySpeaksOfCurrentSpec /\ StatusBackedByWorkload
    BY <1>3 DEF ReadySpeaksOfCurrentSpec, StatusBackedByWorkload
  <1> QED BY <1>4, <1>5, <1>6 DEF IndInv

\* A step that moves the worker on with a Workspace it has read keeps all but
\* what the invariant says of the worker's new position.
LEMMA IndWorkerMoves ==
  ASSUME TypeOK, IndInv, wsLog' = wsLog, svcLog' = svcLog, stsLog' = stsLog,
         \/ snap' = snap /\ pc # "idle"
         \/ snap' = Cached(wsLog),
         Decided', Applied'
  PROVE  IndInv'
  <1>1. /\ History' /\ Server' = Server /\ Cached(wsLog)' = Cached(wsLog)
        /\ ReadyCondition' = ReadyCondition
    BY HistorySame DEF TypeOK, IndInv, ReadyCondition
  <1>2. /\ Cached(wsLog) = wsLog[1] /\ 1 \in 1 .. Len(wsLog)
        /\ Cached(wsLog).gen \in Int
    BY HistoryBounds DEF TypeOK, IndInv
  <1>3. Read'
    BY <1>1, <1>2 DEF IndInv, Read, History
  <1>4. Published'
    BY <1>1, <1>2 DEF IndInv, Published
  <1>5. /\ GoverningServiceFirst' /\ ReadySpeaksOfCurrentSpec'
        /\ StatusBackedByWorkload'
    BY <1>1 DEF IndInv, GoverningServiceFirst, ReadySpeaksOfCurrentSpec,
                StatusBackedByWorkload, AppliedFor
  <1> QED BY <1>1, <1>3, <1>4, <1>5 DEF IndInv

\* The reconcile's own steps up to the patch, bar those that write a child.
LEMMA IndReadingSteps ==
  ASSUME TypeOK, IndInv, TypeOK',
         \/ Reconcile \/ ensureGitSSHRuntimeSecret \/ Observe
         \/ ReconcileFails \/ ObserveFails
  PROVE  IndInv'
  <1>0. /\ wsLog' = wsLog /\ svcLog' = svcLog /\ stsLog' = stsLog
        /\ Server' = Server
    BY DEF Reconcile, ensureGitSSHRuntimeSecret, Observe, ReconcileFails,
           ObserveFails, logs, Server
  <1>1. CASE pc' = "idle"
    <2>1. History' /\ Forward
      BY <1>0, HistorySame DEF TypeOK, IndInv
    <2> QED BY <1>0, <1>1, <2>1, IndCarried DEF ChildrenKept
  <1>2. CASE pc' # "idle"
    <2>1. \/ snap' = snap /\ pc # "idle"
          \/ snap' = Cached(wsLog)
      BY <1>2 DEF Reconcile, ensureGitSSHRuntimeSecret, Observe,
                  ReconcileFails, ObserveFails, ToIdle, ToPatch, ToStep
    <2>2. Decided'
      BY <1>2 DEF Reconcile, ensureGitSSHRuntimeSecret, Observe,
                  ReconcileFails, ObserveFails, ToIdle, ToPatch, ToStep, Decided,
                  MarkImageNotFound, MarkStorageUnset, MarkDegraded,
                  MarkObserved, Observed, Mark
    <2>3. Applied'
      <3>1. CASE Observe
        BY <1>0, <3>1
           DEF Observe, ToPatch, IndInv, Applied, AppliedFor, MarkObserved,
               Observed, Mark, ObservedReasons
      <3>2. CASE Reconcile \/ ensureGitSSHRuntimeSecret \/ ReconcileFails
        BY <1>0, <1>2, <3>2
           DEF Reconcile, ensureGitSSHRuntimeSecret, ReconcileFails, ToIdle,
               ToPatch, ToStep, Applied, MarkImageNotFound,
               MarkStorageUnset, MarkDegraded, Mark, ObservedReasons
      <3> QED BY <1>2, <3>1, <3>2 DEF ObserveFails, ToIdle
    <2> QED BY <1>0, <2>1, <2>2, <2>3, IndWorkerMoves
  <1> QED BY <1>1, <1>2

\* Applying the Service keeps the invariant.
LEMMA IndApplyService ==
  ASSUME TypeOK, IndInv, TypeOK', ApplyService
  PROVE  IndInv'
  <1>1. Current(svcLog)' = "present"
    <2>1. "present" \in Presence
      BY DEF Presence
    <2> QED BY <2>1, WriteFacts DEF ApplyService, TypeOK, LogTypeOK
  <1>2. /\ History' /\ Server' = Server /\ Cached(wsLog)' = Cached(wsLog)
        /\ ReadyCondition' = ReadyCondition
        /\ Current(stsLog)' = Current(stsLog)
    BY HistorySame DEF ApplyService, TypeOK, IndInv, ReadyCondition
  <1>3. pc = "service" /\ pc' = "sts" /\ snap' = snap
    BY DEF ApplyService, ToStep
  <1>4. Read' /\ Published' /\ Decided'
    BY <1>2, <1>3 DEF IndInv, Read, Published, Decided
  <1>5. Applied' /\ GoverningServiceFirst'
    BY <1>1, <1>3 DEF Applied, GoverningServiceFirst
  <1>6. ReadySpeaksOfCurrentSpec' /\ StatusBackedByWorkload'
    BY <1>1, <1>2 DEF IndInv, ReadySpeaksOfCurrentSpec,
                      StatusBackedByWorkload, AppliedFor
  <1> QED BY <1>2, <1>4, <1>5, <1>6 DEF IndInv

\* Applying the StatefulSet keeps the invariant: if a status of the current
\* generation is out, the worker has read that generation.
LEMMA IndApplyStatefulSet ==
  ASSUME TypeOK, IndInv, TypeOK', ApplyStatefulSet
  PROVE  IndInv'
  <1> DEFINE v == BuildStatefulSet(snap, keysRef, Current(stsLog))
  <1>1. /\ Current(stsLog)' = v
        /\ v.exists /\ v.replicas = Replicas(snap.running)
    <2>1. v \in StatefulSets
      BY VersionTypes
         DEF BuildStatefulSet, Replicas, StatefulSets, TypeOK, WorkerTypeOK
    <2>2. Current(stsLog)' = v
      BY <2>1, WriteFacts DEF ApplyStatefulSet, TypeOK, LogTypeOK
    <2> QED BY <2>2 DEF BuildStatefulSet
  <1> HIDE DEF v
  <1>2. /\ History' /\ Server' = Server /\ Cached(wsLog)' = Cached(wsLog)
        /\ ReadyCondition' = ReadyCondition
        /\ Current(svcLog)' = Current(svcLog)
    BY HistorySame DEF ApplyStatefulSet, TypeOK, IndInv, ReadyCondition
  <1>3. pc = "sts" /\ pc' = "observe" /\ snap' = snap
    BY DEF ApplyStatefulSet, ToStep
  <1>4. Read' /\ Published' /\ Decided'
    BY <1>2, <1>3 DEF IndInv, Read, Published, Decided
  <1>5. Server.phase = "live" =>
          Current(svcLog)' = "present" /\ AppliedFor(snap.running)'
    BY <1>1, <1>2, <1>3 DEF IndInv, Applied, AppliedFor
  <1>6. Applied' /\ GoverningServiceFirst'
    BY <1>2, <1>3, <1>5 DEF Applied, AppliedFor, GoverningServiceFirst
  <1>7. ReadyCondition.og = Server.gen => snap.running = Server.running
    BY <1>3, NumberTypes, HistoryBounds DEF TypeOK, IndInv, Read, Published
  <1>8. ReadySpeaksOfCurrentSpec'
    BY <1>2 DEF IndInv, ReadySpeaksOfCurrentSpec
  <1>9. StatusBackedByWorkload'
    BY <1>2, <1>3, <1>5, <1>7 DEF StatusBackedByWorkload, AppliedFor
  <1> QED BY <1>2, <1>4, <1>6, <1>8, <1>9 DEF IndInv

\* What a status patch makes of observedGeneration and of Ready: each is left
\* alone or becomes what the reconcile decided, never a mixture.
LEMMA PatchEffect ==
  ASSUME TypeOK, Decided, pc = "patch"
  PROVE  LET s == PatchedWorkspace.status IN
         /\ s.og \in {Server.status.og, snap.gen}
         /\ s.conds.Ready \in {ReadyCondition,
                               [reason |-> mark.ready, og |-> snap.gen]}
  <1>1. PatchedWorkspace.status =
          MergePatch(Server.status, snap.status, Desired(snap, mark))
    BY PatchedWorkspaceFacts
  <1>2. /\ Desired(snap, mark).og = snap.gen
        /\ Desired(snap, mark).conds.Ready =
             [reason |-> mark.ready, og |-> snap.gen]
    BY DEF Desired, DesiredWith, SetStatusCondition, Decided
  <1> QED BY <1>1, <1>2 DEF MergePatch, Patched, ReadyCondition

\* Publishing a status keeps the invariant.
LEMMA IndPatch ==
  ASSUME TypeOK, IndInv, TypeOK', pc = "patch", pc' = "idle",
         wsLog' = Write(wsLog, PatchedWorkspace),
         svcLog' = svcLog, stsLog' = stsLog
  PROVE  IndInv'
  <1>1. History' /\ Forward
    BY HistoryRewrite, PatchedWorkspaceFacts DEF TypeOK, IndInv
  <1>2. Server' = PatchedWorkspace /\ Cached(wsLog)' = Cached(wsLog)
    <2>1. PatchedWorkspace \in Workspaces
      BY PatchedWorkspaceFacts
    <2>2. /\ Current(Write(wsLog, PatchedWorkspace)) = PatchedWorkspace
          /\ Cached(Write(wsLog, PatchedWorkspace)) = Cached(wsLog)
      BY <2>1, WriteFacts DEF TypeOK, LogTypeOK
    <2> QED BY <2>2 DEF Server
  <1>3. /\ Server'.gen = Server.gen /\ Server'.running = Server.running
        /\ Server'.phase = Server.phase
    BY <1>2, PatchedWorkspaceFacts
  <1>4. /\ Server'.status.og \in {Server.status.og, snap.gen}
        /\ ReadyCondition' \in {ReadyCondition,
                               [reason |-> mark.ready, og |-> snap.gen]}
    BY <1>2, PatchEffect DEF IndInv, ReadyCondition
  <1>5. Read' /\ Decided' /\ Applied'
    BY DEF Read, Decided, Applied
  <1>6. Published'
    BY <1>2, <1>4 DEF IndInv, Published, Read
  <1>7. GoverningServiceFirst'
    BY <1>3 DEF IndInv, GoverningServiceFirst
  <1>8. ReadySpeaksOfCurrentSpec'
    BY <1>3, <1>4 DEF IndInv, ReadySpeaksOfCurrentSpec, Decided, Read
  <1>9. StatusBackedByWorkload'
    BY <1>3, <1>4 DEF IndInv, StatusBackedByWorkload, Applied, AppliedFor,
                      Read
  <1> QED BY <1>1, <1>5, <1>6, <1>7, <1>8, <1>9 DEF IndInv

\* Deliveries and restarts keep the invariant.
LEMMA IndDeliver ==
  ASSUME TypeOK, IndInv, TypeOK', Deliver \/ ManagerRestarts
  PROVE  IndInv'
  <1>1. History' /\ Forward /\ Server' = Server
    BY HistoryDeliver, HistoryRelist, HistorySame
       DEF TypeOK, IndInv, Deliver, DeliverWorkspace, DeliverStatefulSet,
           DeliverService, DeliverImage, DeliverSecret, ManagerRestarts
  <1>2. Current(svcLog)' = Current(svcLog)
    BY TailFacts, RelistFacts
       DEF TypeOK, LogTypeOK, Deliver, DeliverWorkspace, DeliverStatefulSet,
           DeliverService, DeliverImage, DeliverSecret, ManagerRestarts
  <1>3. Current(stsLog)' = Current(stsLog)
    BY TailFacts, RelistFacts
       DEF TypeOK, LogTypeOK, Deliver, DeliverWorkspace, DeliverStatefulSet,
           DeliverService, DeliverImage, DeliverSecret, ManagerRestarts
  <1>4. UNCHANGED worker \/ pc' = "idle"
    BY DEF Deliver, DeliverWorkspace, DeliverStatefulSet,
           DeliverService, DeliverImage, DeliverSecret, ManagerRestarts,
           ToIdle
  <1> QED BY <1>1, <1>2, <1>3, <1>4, IndCarried DEF ChildrenKept

\* Edits and deletions keep the invariant.
LEMMA IndUser ==
  ASSUME TypeOK, IndInv, TypeOK',
         StartOrStop \/ SetStorage \/ DeleteWorkspace \/ FinishDeletion
  PROVE  IndInv'
  <1>2. PICK v \in Workspaces :
          /\ wsLog' = Append(wsLog, v)
          /\ v.status = Server.status
          /\ v.phase = "live" => Server.phase = "live"
          /\ \/ v.gen = Server.gen + 1
             \/ v.gen = Server.gen /\ v.running = Server.running
    BY UserVersion
  <1>3. History' /\ Forward
    BY <1>2, HistoryRewrite, HistoryEdit DEF TypeOK, IndInv
  <1>4. Server' = v
    BY <1>2, AppendFacts DEF TypeOK, LogTypeOK, Server
  <1>5. UNCHANGED <<stsLog, svcLog>> /\ UNCHANGED worker
    BY DEF StartOrStop, SetStorage, Edit, DeleteWorkspace, FinishDeletion
  <1>6. ChildrenKept
    BY <1>5 DEF ChildrenKept
  <1> QED BY <1>2, <1>3, <1>4, <1>5, <1>6, IndCarried

\* What administrators and Kubernetes do keeps the invariant.
LEMMA IndCluster ==
  ASSUME TypeOK, IndInv, TypeOK',
         \/ CreateOrDeleteImage \/ PutOrDeleteGitSSHKey
         \/ PodBecomesReady \/ PodStops \/ PodFails
         \/ CollectStatefulSet \/ CollectService
  PROVE  IndInv'
  <1>0. wsLog' = wsLog /\ UNCHANGED worker
    BY DEF CreateOrDeleteImage, PutOrDeleteGitSSHKey, PodBecomesReady,
           PodStops, PodFails, CollectStatefulSet, CollectService
  <1>1. History' /\ Forward /\ Server' = Server
    BY <1>0, HistorySame DEF TypeOK, IndInv
  <1>2. CASE CollectStatefulSet \/ CollectService
    BY <1>0, <1>1, <1>2, IndCarried
       DEF ChildrenKept, CollectStatefulSet, CollectService
  <1>3. CASE CreateOrDeleteImage \/ PutOrDeleteGitSSHKey
    BY <1>0, <1>1, <1>3, IndCarried
       DEF ChildrenKept, CreateOrDeleteImage, PutOrDeleteGitSSHKey
  <1>4. CASE PodBecomesReady \/ PodStops \/ PodFails
    <2>1. Current(stsLog) \in StatefulSets
      BY VersionTypes DEF TypeOK
    <2>2. PICK r \in BOOLEAN :
            stsLog' = Append(stsLog, [Current(stsLog) EXCEPT !.ready = r])
      BY <1>4 DEF PodBecomesReady, PodStops, PodFails
    <2> DEFINE v == [Current(stsLog) EXCEPT !.ready = r]
    <2>3. /\ v \in StatefulSets
          /\ v.exists = Current(stsLog).exists
          /\ v.replicas = Current(stsLog).replicas
      BY <2>1 DEF StatefulSets
    <2>4. Current(stsLog)' = v
      BY <2>2, <2>3, AppendFacts DEF TypeOK, LogTypeOK
    <2>5. svcLog' = svcLog
      BY <1>4 DEF PodBecomesReady, PodStops, PodFails
    <2>6. ChildrenKept
      BY <2>3, <2>4, <2>5 DEF ChildrenKept
    <2> QED BY <1>0, <1>1, <2>6, IndCarried
  <1> QED BY <1>2, <1>3, <1>4

\* Every step keeps the invariant.
LEMMA IndStep == TypeOK /\ IndInv /\ [Next]_vars => IndInv'
  <1> SUFFICES ASSUME TypeOK, IndInv, [Next]_vars PROVE IndInv'
    OBVIOUS
  <1>0. TypeOK'
    BY TypeStep
  <1>1. CASE \/ Reconcile \/ ensureGitSSHRuntimeSecret \/ Observe
             \/ ReconcileFails \/ ObserveFails
    BY <1>0, <1>1, IndReadingSteps
  <1>2. CASE ApplyService \/ ApplyStatefulSet
    BY <1>0, <1>2, IndApplyService, IndApplyStatefulSet
  <1>3. CASE patchStatus \/ PatchStatusFails
    <2>0. pc = "patch" /\ pc' = "idle" /\ svcLog' = svcLog /\ stsLog' = stsLog
      BY <1>3 DEF patchStatus, PatchStatusFails, ToIdle
    <2>1. CASE wsLog' = Write(wsLog, PatchedWorkspace)
      BY <1>0, <2>0, <2>1, IndPatch
    <2>2. CASE wsLog' = wsLog
      <3>1. History' /\ Forward /\ Server' = Server
        BY <2>2, HistorySame DEF TypeOK, IndInv
      <3>2. ChildrenKept
        BY <2>0 DEF ChildrenKept
      <3> QED BY <1>0, <2>0, <3>1, <3>2, IndCarried
    <2> QED BY <1>3, <2>1, <2>2 DEF patchStatus, PatchStatusFails
  <1>4. CASE Deliver \/ ManagerRestarts
    BY <1>0, <1>4, IndDeliver
  <1>5. CASE Outside
    BY <1>0, <1>5, IndUser, IndCluster DEF Outside
  <1>6. CASE UNCHANGED vars
    <2>1. History' /\ Forward /\ Server' = Server
      BY <1>6, HistorySame DEF TypeOK, IndInv, vars
    <2>2. ChildrenKept /\ UNCHANGED worker
      BY <1>6 DEF ChildrenKept, vars, worker
    <2> QED BY <1>0, <2>1, <2>2, IndCarried
  <1> QED BY <1>1, <1>2, <1>3, <1>4, <1>5, <1>6
          DEF Next, WorkerStep, Trouble

\* The inductive invariant holds of every behaviour.
THEOREM InvariantHolds == Spec => [](TypeOK /\ IndInv)
  <1>1. Init => TypeOK /\ IndInv
    BY TypeInit, IndInit
  <1>2. TypeOK /\ IndInv /\ [Next]_vars => (TypeOK /\ IndInv)'
    BY TypeStep, IndStep
  <1> QED BY <1>1, <1>2, PTL DEF Spec

\* A Ready condition whose observedGeneration is the current generation speaks
\* of the current spec.running, for every bound: patchStatus stamps the
\* generation it acted on, never the one the server has by then.
THEOREM ReadyIsOfCurrentSpec == Spec => []ReadySpeaksOfCurrentSpec
  <1>1. IndInv => ReadySpeaksOfCurrentSpec
    BY DEF IndInv
  <1> QED BY <1>1, InvariantHolds, PTL

\* A status of the current generation that reports on the workload is backed
\* by children applied with the current spec, for every lag and every fault.
THEOREM StatusIsBacked == Spec => []StatusBackedByWorkload
  <1>1. IndInv => StatusBackedByWorkload
    BY DEF IndInv
  <1> QED BY <1>1, InvariantHolds, PTL

\* No StatefulSet of a live Workspace is ever without its governing Service.
THEOREM ServiceIsFirst == Spec => []GoverningServiceFirst
  <1>1. IndInv => GoverningServiceFirst
    BY DEF IndInv
  <1> QED BY <1>1, InvariantHolds, PTL

\* The published generation, and the Ready condition's, in one step: both stay,
\* or both are left alone or become the generation the worker has read.
LEMMA PublishedStep ==
  ASSUME TypeOK, IndInv, [Next]_vars
  PROVE  \/ Server'.status = Server.status
         \/ /\ pc = "patch"
            /\ Server'.status.og \in {Server.status.og, snap.gen}
            /\ ReadyCondition'.og \in {ReadyCondition.og, snap.gen}
  <1>1. CASE wsLog' = wsLog
    BY <1>1 DEF Server
  <1>2. CASE patchStatus \/ PatchStatusFails
    <2>1. CASE wsLog' = Write(wsLog, PatchedWorkspace)
      <3>1. PatchedWorkspace \in Workspaces
        BY PatchedWorkspaceFacts
      <3>2. Current(Write(wsLog, PatchedWorkspace)) = PatchedWorkspace
        BY <3>1, WriteFacts DEF TypeOK, LogTypeOK
      <3>3. Server' = PatchedWorkspace
        BY <2>1, <3>2 DEF Server
      <3>4. pc = "patch"
        BY <1>2 DEF patchStatus, PatchStatusFails
      <3>5. PatchedWorkspace.status.conds.Ready
              \in {ReadyCondition, [reason |-> mark.ready, og |-> snap.gen]}
        BY <3>4, PatchEffect DEF IndInv
      <3>6. ReadyCondition' = PatchedWorkspace.status.conds.Ready
        BY <3>3 DEF ReadyCondition
      <3>7. Server'.status.og \in {Server.status.og, snap.gen}
        BY <3>3, <3>4, PatchEffect DEF IndInv
      <3> QED BY <3>4, <3>5, <3>6, <3>7
    <2> QED BY <1>1, <1>2, <2>1 DEF patchStatus, PatchStatusFails
  <1>3. CASE DeliverWorkspace \/ ManagerRestarts
    BY <1>3, HistoryDeliver, HistoryRelist
       DEF DeliverWorkspace, ManagerRestarts, TypeOK, IndInv
  <1>4. CASE StartOrStop \/ SetStorage \/ DeleteWorkspace \/ FinishDeletion
    <2>1. PICK v \in Workspaces :
            wsLog' = Append(wsLog, v) /\ v.status = Server.status
      BY <1>4, UserVersion
    <2> QED BY <2>1, AppendFacts DEF Server, TypeOK, LogTypeOK
  <1>5. [Next]_vars => \/ wsLog' = wsLog
                      \/ patchStatus \/ PatchStatusFails
                      \/ DeliverWorkspace \/ ManagerRestarts
                      \/ StartOrStop \/ SetStorage \/ DeleteWorkspace
                      \/ FinishDeletion
    BY DEF Next, WorkerStep, Deliver, Outside, Trouble, Reconcile,
           ensureGitSSHRuntimeSecret, ApplyService, ApplyStatefulSet, Observe,
           ReconcileFails, ObserveFails, DeliverStatefulSet, DeliverService,
           DeliverImage, DeliverSecret, CreateOrDeleteImage, PutOrDeleteGitSSHKey,
           PodBecomesReady, PodStops, PodFails, CollectStatefulSet,
           CollectService, vars, logs
  <1> QED BY <1>1, <1>2, <1>3, <1>4, <1>5

\* No generation is published before it exists.
LEMMA PublishedExists == TypeOK /\ IndInv => Server.status.og <= Server.gen
  BY NumberTypes, HistoryBounds DEF TypeOK, IndInv, Published

\* No step takes observedGeneration, or that of the Ready condition, back, and
\* none claims a generation that does not exist yet: the worker's cache never
\* goes back, so neither does what it has read.
THEOREM ObservedGenerationNeverRegresses == Spec => ObservedGenerationAdvances
  <1> DEFINE A == /\ Server.status.og <= Server'.status.og
                  /\ ReadyCondition.og <= ReadyCondition'.og
                  /\ Server'.status.og <= Server'.gen
             B == Server.status.og <= Server.gen
  <1>1. Spec => []B
    BY InvariantHolds, PublishedExists, PTL
  <1>2. TypeOK /\ IndInv /\ B' /\ [Next]_vars => [A]_vars
    <2> SUFFICES ASSUME TypeOK, IndInv, B', [Next]_vars PROVE A
      OBVIOUS
    <2>1. /\ Server.status.og \in Int /\ ReadyCondition.og \in Int
          /\ snap.gen \in Int
      BY NumberTypes
    <2>2. CASE Server'.status = Server.status
      BY <2>1, <2>2 DEF ReadyCondition
    <2>3. CASE /\ pc = "patch"
               /\ Server'.status.og \in {Server.status.og, snap.gen}
               /\ ReadyCondition'.og \in {ReadyCondition.og, snap.gen}
      BY <2>1, <2>3 DEF IndInv, Published
    <2> QED BY <2>2, <2>3, PublishedStep
  <1> HIDE DEF A, B
  <1>3. Spec => [][A]_vars
    BY <1>1, <1>2, InvariantHolds, PTL DEF Spec
  <1> QED BY <1>3 DEF ObservedGenerationAdvances, A

-----------------------------------------------------------------------------
(* What there is at rest.  The rest a user sees, Quiet, is too late to      *)
(* reason about: what is needed holds as soon as no event that would        *)
(* enqueue is under way, while the last reconcile may still be running.     *)

\* No change of the user's key is under way; one of the mounted Secret, which
\* enqueues nothing, may be.
SameSource ==
  \A i \in 1 .. Len(secLog) : secLog[i].source = Current(secLog).source

\* Nothing is queued, and nothing on its way to a cache would enqueue.
Still ==
  /\ Server.phase = "live" /\ ~queued
  /\ Len(wsLog) = 1 /\ Len(stsLog) = 1 /\ Len(imgLog) = 1
  /\ SameSource

\* The StatefulSet is of the current spec and of the key there is.
WorkloadIsSettled ==
  Current(imgLog) = "present" /\ Server.storage =>
    /\ Current(stsLog).replicas = Replicas(Server.running)
    /\ Current(stsLog).mounted = (Current(secLog).source # NoKey)

\* What the worker has established by the time it has got this far.
WorkerIsUpToDate ==
  /\ pc # "idle" => snap = Server
  /\ pc \in {"gitssh", "service", "sts", "observe"} =>
       Current(imgLog) = "present" /\ Server.storage
  /\ pc \in {"service", "sts"} => keysRef = (Current(secLog).source # NoKey)
  /\ pc = "observe" => WorkloadIsSettled
  /\ pc = "patch" /\ ~failed =>
       /\ mark = SettledMark(Server, Current(imgLog), Current(stsLog))
       /\ WorkloadIsSettled
  /\ pc = "idle" => StatusIsSettled /\ WorkloadIsSettled

\* The last reconcile, if it is not to be repeated, acts on what is there.
RestInv == Still => WorkerIsUpToDate

\* The logs whose versions the worker's decisions depend on are as they were.
LEMMA RestKept ==
  ASSUME RestInv, UNCHANGED <<wsLog, stsLog, imgLog, secLog, queued, pc, snap,
                              keysRef, mark, failed>>
  PROVE  RestInv'
  BY DEF RestInv, Still, SameSource, WorkerIsUpToDate, StatusIsSettled,
         WorkloadIsSettled, Server, ReadyCondition

\* A stage of the worker that has changed nothing but where it is.
LEMMA StillKept ==
  ASSUME Still', UNCHANGED <<wsLog, stsLog, imgLog, secLog, queued>>
  PROVE  /\ Still /\ Server' = Server
         /\ WorkloadIsSettled' <=> WorkloadIsSettled
  BY DEF Still, SameSource, WorkloadIsSettled, Server

\* With nothing under way, the caches say what the server does.
LEMMA CachesAreCurrent ==
  ASSUME TypeOK, Len(wsLog) = 1, Len(stsLog) = 1, Len(imgLog) = 1
  PROVE  /\ Cached(wsLog) = Server
         /\ Cached(stsLog) = Current(stsLog)
         /\ Cached(imgLog) = Current(imgLog)
  BY EndsFacts DEF TypeOK, LogTypeOK, Server

\* Reconcile begins with what is there.
LEMMA RestReconcile ==
  ASSUME TypeOK, Still', Reconcile
  PROVE  WorkerIsUpToDate'
  <1>1. /\ UNCHANGED <<wsLog, stsLog, imgLog, secLog>>
        /\ Server' = Server /\ Server.phase = "live"
        /\ Len(wsLog) = 1 /\ Len(stsLog) = 1 /\ Len(imgLog) = 1
    BY DEF Reconcile, logs, Still, Server
  <1>2. Cached(wsLog) = Server /\ Cached(imgLog) = Current(imgLog)
    BY <1>1, CachesAreCurrent
  <1>3. CASE Current(imgLog) = "absent"
    <2>1. ToPatch(Server, MarkImageNotFound, FALSE)
      BY <1>1, <1>2, <1>3 DEF Reconcile
    <2> QED BY <1>1, <1>3, <2>1
            DEF ToPatch, WorkerIsUpToDate, SettledMark, WorkloadIsSettled
  <1>4. CASE Current(imgLog) = "present" /\ ~Server.storage
    <2>1. ToPatch(Server, MarkStorageUnset, FALSE)
      BY <1>1, <1>2, <1>4 DEF Reconcile
    <2> QED BY <1>1, <1>4, <2>1
            DEF ToPatch, WorkerIsUpToDate, SettledMark, WorkloadIsSettled
  <1>5. CASE Current(imgLog) = "present" /\ Server.storage
    <2>1. ToStep("gitssh", Server, FALSE)
      BY <1>1, <1>2, <1>5 DEF Reconcile
    <2> QED BY <1>1, <1>5, <2>1 DEF ToStep, WorkerIsUpToDate
  <1>6. Current(imgLog) \in {"absent", "present"}
    BY VersionTypes DEF TypeOK, Presence
  <1> QED BY <1>3, <1>4, <1>5, <1>6

\* ensureGitSSHRuntimeSecret sees the key there is, whatever it sees of the
\* Secret it writes.
LEMMA RestRuntimeSecret ==
  ASSUME TypeOK, RestInv, Still', ensureGitSSHRuntimeSecret
  PROVE  WorkerIsUpToDate'
  <1> DEFINE old == Current(secLog)
             v   == [old EXCEPT !.runtime =
                       RuntimeAfterWrite(Cached(secLog), old)]
  <1>0. old \in Secrets /\ v \in Secrets /\ v.source = old.source
    BY VersionTypes DEF TypeOK, Secrets, RuntimeAfterWrite, Patched
  <1>1. /\ UNCHANGED <<wsLog, stsLog, imgLog, queued>> /\ pc = "gitssh"
        /\ snap' = snap
    BY DEF ensureGitSSHRuntimeSecret, ToStep, ToPatch
  <1>2. \/ /\ secLog' = Write(secLog, v) /\ pc' = "service"
           /\ keysRef' = (Cached(secLog).source # NoKey)
        \/ secLog' = secLog /\ pc' = "patch" /\ failed'
    BY DEF ensureGitSSHRuntimeSecret, ToStep, ToPatch
  <1>3. SameSource /\ Current(secLog)'.source = old.source
    <2>1. CASE secLog' = secLog
      BY <2>1 DEF Still, SameSource
    <2>2. CASE secLog' = Append(secLog, v)
      <3>1. /\ Current(secLog)' = v
            /\ Len(secLog') = Len(secLog) + 1 /\ Len(secLog) \in Nat
            /\ \A i \in 1 .. Len(secLog) : secLog'[i] = secLog[i]
        BY <1>0, <2>2, AppendFacts, EndsFacts DEF TypeOK, LogTypeOK
      <3>2. \A i \in 1 .. Len(secLog') : secLog'[i].source = v.source
        BY <3>1 DEF Still, SameSource
      <3>3. \A i \in 1 .. Len(secLog) : secLog[i].source = v.source
        BY <3>1, <3>2
      <3> QED BY <1>0, <3>1, <3>3 DEF SameSource
    <2> QED BY <1>2, <2>1, <2>2 DEF Write
  <1>4. Cached(secLog).source = old.source
    <2>1. Cached(secLog) = secLog[1] /\ 1 \in 1 .. Len(secLog)
      BY EndsFacts DEF TypeOK, LogTypeOK
    <2> QED BY <1>3, <2>1 DEF SameSource
  <1>5. Still /\ Server' = Server
    BY <1>1, <1>3 DEF Still, Server
  <1> QED BY <1>1, <1>2, <1>3, <1>4, <1>5 DEF RestInv, WorkerIsUpToDate

\* A StatefulSet that has been applied without leaving an event was already
\* the one wanted.
LEMMA RestApply ==
  ASSUME TypeOK, RestInv, Still', ApplyService \/ ApplyStatefulSet
  PROVE  WorkerIsUpToDate'
  <1>1. CASE ApplyService
    <2>1. /\ UNCHANGED <<wsLog, stsLog, imgLog, secLog, queued>>
          /\ pc = "service" /\ pc' = "sts"
          /\ snap' = snap /\ keysRef' = keysRef
      BY <1>1 DEF ApplyService, ToStep
    <2>2. Still /\ Server' = Server
      BY <2>1, StillKept
    <2> QED BY <2>1, <2>2 DEF RestInv, WorkerIsUpToDate
  <1>2. CASE ApplyStatefulSet
    <2> DEFINE v == BuildStatefulSet(snap, keysRef, Current(stsLog))
    <2>1. /\ UNCHANGED <<wsLog, imgLog, secLog, queued>>
          /\ pc = "sts" /\ pc' = "observe" /\ snap' = snap
          /\ stsLog' = Write(stsLog, v)
      BY <1>2 DEF ApplyStatefulSet, ToStep
    <2>2. stsLog' = stsLog /\ Current(stsLog) = v
      BY <2>1, WriteStays DEF TypeOK, LogTypeOK, Still
    <2>3. Still /\ Server' = Server
      BY <2>1, <2>2, StillKept
    <2>4. /\ snap = Server /\ keysRef = (Current(secLog).source # NoKey)
          /\ Current(imgLog) = "present" /\ Server.storage
      BY <2>1, <2>3 DEF RestInv, WorkerIsUpToDate
    <2>5. WorkloadIsSettled
      BY <2>2, <2>4 DEF WorkloadIsSettled, BuildStatefulSet
    <2>6. WorkloadIsSettled'
      BY <2>1, <2>2, <2>3, <2>5, StillKept
    <2> QED BY <2>1, <2>2, <2>3, <2>4, <2>6 DEF WorkerIsUpToDate
  <1> QED BY <1>1, <1>2

\* The StatefulSet read back is the server's.
LEMMA RestObserve ==
  ASSUME TypeOK, RestInv, Still', Observe
  PROVE  WorkerIsUpToDate'
  <1>1. /\ UNCHANGED <<wsLog, stsLog, imgLog, secLog, queued>>
        /\ pc = "observe" /\ pc' = "patch" /\ snap' = snap
        /\ mark' = MarkObserved(snap, Cached(stsLog))
    BY DEF Observe, ToPatch, logs
  <1>2. Still /\ Server' = Server /\ (WorkloadIsSettled' <=> WorkloadIsSettled)
    BY <1>1, StillKept
  <1>3. Cached(stsLog) = Current(stsLog)
    BY <1>2, CachesAreCurrent DEF Still
  <1>4. /\ snap = Server /\ WorkloadIsSettled
        /\ Current(imgLog) = "present" /\ Server.storage
    BY <1>1, <1>2 DEF RestInv, WorkerIsUpToDate
  <1>5. mark' = SettledMark(Server, Current(imgLog), Current(stsLog))
    BY <1>1, <1>3, <1>4 DEF SettledMark
  <1> QED BY <1>1, <1>2, <1>4, <1>5 DEF WorkerIsUpToDate

\* A status that says what this outcome of a reconcile does.
SaysSo(s, m, gen) ==
  /\ s.state = m.state /\ s.pod = m.pod /\ s.og = gen
  /\ s.conds.Ready = [reason |-> m.ready, og |-> gen]
  /\ m.resolved # "None" => s.conds.ImageResolved.reason = m.resolved
  /\ m.ready \in ObservedReasons => s.conds.Degraded.reason = "WorkloadApplied"

\* patchStatus wants a status that says what the mark does, for each of the
\* marks a reconcile that did not fail can decide on.
LEMMA SettledMarkIsSaid ==
  ASSUME NEW ws, NEW img, NEW sts
  PROVE  LET m == SettledMark(ws, img, sts) IN
         SaysSo(Desired(ws, m), m, ws.gen)
  <1>1. CASE img = "absent"
    BY <1>1 DEF SettledMark, SaysSo, Desired, DesiredWith, SetStatusCondition,
                MarkImageNotFound, Mark, ObservedReasons
  <1>2. CASE img # "absent" /\ ~ws.storage
    BY <1>2 DEF SettledMark, SaysSo, Desired, DesiredWith, SetStatusCondition,
                MarkStorageUnset, Mark, ObservedReasons
  <1>3. CASE img # "absent" /\ ws.storage
    BY <1>3 DEF SettledMark, SaysSo, Desired, DesiredWith, SetStatusCondition,
                MarkObserved, Observed, Mark, ObservedReasons
  <1> QED BY <1>1, <1>2, <1>3

\* A merge patch against the server's own version writes what is wanted.
LEMMA PatchIsDesired ==
  ASSUME NEW a, NEW ws, NEW m
  PROVE  MergePatch(a, a, Desired(ws, m)) = Desired(ws, m)
  BY DEF MergePatch, Patched, Desired, DesiredWith

\* A status patch that has left no event: the status already said so.
LEMMA RestPatch ==
  ASSUME TypeOK, RestInv, Still', patchStatus
  PROVE  WorkerIsUpToDate'
  <1>1. /\ UNCHANGED <<stsLog, imgLog, secLog>>
        /\ pc = "patch" /\ pc' = "idle"
        /\ \/ wsLog' = Write(wsLog, PatchedWorkspace)
              /\ queued' = (queued \/ failed)
           \/ queued' = TRUE
    BY DEF patchStatus, ToIdle
  <1>2. ~queued'
    BY DEF Still
  <1>3. wsLog' = Write(wsLog, PatchedWorkspace) /\ ~queued /\ ~failed
    <2>1. queued' # TRUE
      BY <1>2
    <2>2. /\ wsLog' = Write(wsLog, PatchedWorkspace)
          /\ queued' = (queued \/ failed)
      BY <1>1, <2>1
    <2>3. ~(queued \/ failed)
      BY <1>2, <2>2
    <2> QED BY <2>2, <2>3
  <1>4. wsLog' = wsLog /\ PatchedWorkspace = Server
    BY <1>3, WriteStays DEF TypeOK, LogTypeOK, Still, Server
  <1>5. Still /\ Server' = Server /\ (WorkloadIsSettled' <=> WorkloadIsSettled)
    BY <1>1, <1>3, <1>4 DEF Still, SameSource, WorkloadIsSettled, Server
  <1> DEFINE m == SettledMark(Server, Current(imgLog), Current(stsLog))
  <1>6. snap = Server /\ mark = m /\ WorkloadIsSettled
    BY <1>1, <1>3, <1>5 DEF RestInv, WorkerIsUpToDate
  <1>7. Server.status = Desired(Server, m)
    BY <1>4, <1>6, PatchedWorkspaceFacts, PatchIsDesired
  <1>8. SaysSo(Server.status, m, Server.gen)
    BY <1>7, SettledMarkIsSaid
  <1>9. m.ready \in ObservedReasons =>
          Current(stsLog).replicas = Replicas(Server.running)
    <2>1. m.ready \in ObservedReasons =>
            Current(imgLog) # "absent" /\ Server.storage
      BY DEF SettledMark, MarkImageNotFound, MarkStorageUnset, Mark,
             ObservedReasons
    <2>2. Current(imgLog) \in {"absent", "present"}
      BY VersionTypes DEF TypeOK, Presence
    <2> QED BY <1>6, <2>1, <2>2 DEF WorkloadIsSettled
  <1>10. StatusIsSettled
    BY <1>8, <1>9 DEF StatusIsSettled, SaysSo, ReadyCondition
  <1>11. StatusIsSettled'
    BY <1>1, <1>4, <1>10 DEF StatusIsSettled, ReadyCondition, Server
  <1> QED BY <1>1, <1>5, <1>6, <1>11 DEF WorkerIsUpToDate

\* A delivery that enqueues nothing is of a version whose key is the old one.
LEMMA RestDeliver ==
  ASSUME TypeOK, RestInv, Still', Deliver
  PROVE  RestInv'
  <1>1. CASE DeliverWorkspace \/ DeliverStatefulSet \/ DeliverService
    BY <1>1 DEF DeliverWorkspace, DeliverStatefulSet, DeliverService, Still
  <1>2. CASE DeliverImage
    <2>1. wsLog' = wsLog /\ queued' = (queued \/ Cached(wsLog).phase # "gone")
      BY <1>2 DEF DeliverImage
    <2>2. Cached(wsLog) = Server /\ Server.phase = "live"
      BY <2>1, EndsFacts DEF TypeOK, LogTypeOK, Still, Server
    <2> QED BY <2>1, <2>2 DEF Still
  <1>3. CASE DeliverSecret
    <2>1. /\ UNCHANGED <<wsLog, stsLog, imgLog, pc, snap, keysRef, mark, failed>>
          /\ Len(secLog) > 1 /\ secLog' = Tail(secLog)
          /\ queued' = (queued \/ /\ secLog[1].source # secLog[2].source
                                  /\ Cached(wsLog).phase # "gone")
      BY <1>3 DEF DeliverSecret, worker
    <2>2. Cached(wsLog) = Server /\ Server.phase = "live"
      BY <2>1, EndsFacts DEF TypeOK, LogTypeOK, Still, Server
    <2>3. ~queued /\ secLog[1].source = secLog[2].source
      BY <2>1, <2>2 DEF Still
    <2>4. queued' = queued
      BY <2>1, <2>3 DEF TypeOK
    <2>5. /\ Current(secLog)' = Current(secLog)
          /\ Len(secLog') = Len(secLog) - 1 /\ Len(secLog) \in Nat
          /\ \A i \in 1 .. Len(secLog') : secLog'[i] = secLog[i + 1]
      BY <2>1, TailFacts, EndsFacts DEF TypeOK, LogTypeOK
    <2>6. \A i \in 2 .. Len(secLog) : secLog[i].source = Current(secLog).source
      <3> SUFFICES ASSUME NEW i \in 2 .. Len(secLog)
                   PROVE  secLog[i].source = Current(secLog).source
        OBVIOUS
      <3>1. i - 1 \in 1 .. Len(secLog') /\ (i - 1) + 1 = i
        BY <2>5
      <3> QED BY <2>5, <3>1 DEF Still, SameSource
    <2>7. SameSource
      BY <2>1, <2>3, <2>5, <2>6 DEF SameSource
    <2>8. Still /\ Server' = Server
      BY <2>1, <2>3, <2>7 DEF Still, Server
    <2> QED BY <2>1, <2>5, <2>8 DEF RestInv, WorkerIsUpToDate, StatusIsSettled,
                                   WorkloadIsSettled, ReadyCondition
  <1> QED BY <1>1, <1>2, <1>3 DEF Deliver

\* What others do to a Workspace that lives is an event under way.
LEMMA RestOutside ==
  ASSUME TypeOK, RestInv, Still', Outside
  PROVE  RestInv'
  <1>0. Len(wsLog') = 1 /\ Len(stsLog') = 1 /\ Len(imgLog') = 1
    BY DEF Still
  <1>1. CASE StartOrStop \/ SetStorage \/ DeleteWorkspace \/ FinishDeletion
    <2>1. PICK v \in Workspaces : wsLog' = Append(wsLog, v)
      BY <1>1, UserVersion
    <2>2. Len(wsLog') = Len(wsLog) + 1 /\ Len(wsLog) > 0 /\ Len(wsLog) \in Nat
      BY <2>1, AppendFacts DEF TypeOK, LogTypeOK
    <2> QED BY <1>0, <2>2, SMT
  <1>2. CASE CreateOrDeleteImage
    <2>1. PICK v \in Presence : imgLog' = Append(imgLog, v)
      BY <1>2 DEF CreateOrDeleteImage, Presence
    <2>2. Len(imgLog') = Len(imgLog) + 1 /\ Len(imgLog) > 0 /\ Len(imgLog) \in Nat
      BY <2>1, AppendFacts DEF TypeOK, LogTypeOK
    <2> QED BY <1>0, <2>2, SMT
  <1>3. CASE PutOrDeleteGitSSHKey
    <2>1. PICK k \in (Keys \union {NoKey}) \ {Current(secLog).source} :
            secLog' = Append(secLog, [Current(secLog) EXCEPT !.source = k])
      BY <1>3 DEF PutOrDeleteGitSSHKey
    <2> DEFINE v == [Current(secLog) EXCEPT !.source = k]
    <2>2. v \in Secrets /\ v.source = k /\ k # Current(secLog).source
      BY <2>1, VersionTypes DEF TypeOK, Secrets
    <2>3. secLog' = Append(secLog, v)
      BY <2>1
    <2> HIDE DEF v
    <2>4. /\ Current(secLog') = v
          /\ Len(secLog) \in Nat /\ Len(secLog) > 0
          /\ Len(secLog') = Len(secLog) + 1
          /\ secLog'[Len(secLog)] = Current(secLog)
      BY <2>2, <2>3, AppendFacts DEF TypeOK, LogTypeOK, Current
    <2>5. Len(secLog) \in 1 .. Len(secLog')
      BY <2>4
    <2>6. secLog'[Len(secLog)].source = Current(secLog').source
      BY <2>5 DEF Still, SameSource
    <2> QED BY <2>2, <2>4, <2>6
  <1>4. CASE PodBecomesReady \/ PodStops \/ PodFails
    <2>1. PICK r \in BOOLEAN :
            stsLog' = Append(stsLog, [Current(stsLog) EXCEPT !.ready = r])
      BY <1>4 DEF PodBecomesReady, PodStops, PodFails
    <2>2. [Current(stsLog) EXCEPT !.ready = r] \in StatefulSets
      BY <2>1, VersionTypes DEF TypeOK, StatefulSets
    <2>3. Len(stsLog') = Len(stsLog) + 1 /\ Len(stsLog) > 0 /\ Len(stsLog) \in Nat
      BY <2>1, <2>2, AppendFacts DEF TypeOK, LogTypeOK
    <2> QED BY <1>0, <2>3, SMT
  <1>5. CASE CollectStatefulSet \/ CollectService
    BY <1>5 DEF CollectStatefulSet, CollectService, Still, Server
  <1> QED BY <1>1, <1>2, <1>3, <1>4, <1>5 DEF Outside

\* What fails is tried again, and a manager that restarts looks at everything.
LEMMA RestTrouble ==
  ASSUME TypeOK, RestInv, Still', Trouble
  PROVE  RestInv'
  <1>1. CASE ReconcileFails
    <2>1. /\ UNCHANGED <<wsLog, stsLog, imgLog, secLog, queued>>
          /\ pc # "idle" /\ pc' = "patch" /\ snap' = snap /\ failed'
      BY <1>1 DEF ReconcileFails, ToPatch, logs
    <2>2. Still /\ Server' = Server
      BY <2>1, StillKept
    <2> QED BY <2>1, <2>2 DEF RestInv, WorkerIsUpToDate
  <1>2. CASE ObserveFails \/ PatchStatusFails
    BY <1>2 DEF ObserveFails, PatchStatusFails, Still
  <1>3. CASE ManagerRestarts
    <2>1. Server' = Server
      BY <1>3, RelistFacts DEF ManagerRestarts, TypeOK, LogTypeOK, Server
    <2>2. queued'
      BY <1>3, <2>1 DEF ManagerRestarts, Still
    <2> QED BY <2>2 DEF Still
  <1> QED BY <1>1, <1>2, <1>3 DEF Trouble

\* The invariant behind what holds at rest is inductive.
LEMMA RestInvStep == TypeOK /\ RestInv /\ [Next]_vars => RestInv'
  <1> SUFFICES ASSUME TypeOK, RestInv, [Next]_vars, Still' PROVE RestInv'
    BY DEF RestInv
  <1>1. CASE UNCHANGED vars
    BY <1>1, RestKept DEF vars
  <1>2. CASE WorkerStep
    BY <1>2, RestReconcile, RestRuntimeSecret, RestApply, RestObserve,
       RestPatch DEF WorkerStep, RestInv
  <1> QED BY <1>1, <1>2, RestDeliver, RestOutside, RestTrouble DEF Next

\* The last reconcile before a rest acts on what there is, for every bound.
THEOREM RestInvariant == Spec => []RestInv
  <1>1. Init => RestInv
    BY DEF Init, RestInv, Still
  <1> QED BY <1>1, RestInvStep, TypeInit, TypeStep, PTL DEF Spec

\* Reconcile and SetupWithManager's watches, for every bound on generations,
\* lag and trouble and every set of keys: whenever the controller has come to
\* rest with its Workspace alive, the published status is that of the objects
\* there are and the pods mount keys exactly if the user has one.
THEOREM RestsConverged == Spec => []RestIsConverged
  <1>1. RestInv => RestIsConverged
    <2> SUFFICES ASSUME RestInv, Quiet, Server.phase = "live"
                 PROVE  StatusIsSettled /\ MountFollowsSource
      BY DEF RestIsConverged
    <2>1. SameSource
      BY DEF Quiet, SameSource, Current
    <2>2. Still /\ pc = "idle"
      BY <2>1 DEF Quiet, Still
    <2> QED BY <2>2 DEF RestInv, WorkerIsUpToDate, WorkloadIsSettled,
                        MountFollowsSource
  <1> QED BY <1>1, RestInvariant, PTL

=============================================================================
