------------------------- MODULE WorkspaceReconcile -------------------------
(***************************************************************************)
(* One Workspace and the manager's WorkspaceReconciler                     *)
(* (internal/controller/workspace_controller.go).                          *)
(*                                                                         *)
(* Each kind of object is kept as a WatchLog: the version the cache holds, *)
(* the events under way, the version the API server holds.                 *)
(*                                                                         *)
(* The manager runs one worker per controller (controller-runtime's        *)
(* default), whose progress through one Reconcile call is pc, the          *)
(* Workspace it read at the start (snap), whether a git-ssh Secret is to   *)
(* be mounted (keysRef), and the status it has decided on (mark, failed).  *)
(***************************************************************************)
EXTENDS WatchLog

CONSTANTS MaxGen,     \* bound on metadata.generation: the user's edits
          Keys,       \* the values a user's git-ssh key may have
          NoKey,      \* no such Secret
          MaxLag,     \* bound on the events under way to one cache
          Limit       \* how often each kind of trouble in Troubles happens

Troubles == {"fault", "crash", "flap", "image", "key"}

ASSUME MaxGenAssumption == MaxGen \in Nat \ {0}
ASSUME MaxLagAssumption == MaxLag \in Nat \ {0}
ASSUME LimitAssumption == Limit \in [Troubles -> Nat]
ASSUME KeysAssumption == NoKey \notin Keys

VARIABLES
  wsLog,    \* versions of the Workspace
  stsLog,   \* versions of its StatefulSet
  svcLog,   \* versions of its headless Service (exists or not)
  imgLog,   \* versions of the catalog entry it references (exists or not)
  secLog,   \* versions of the git-ssh Secrets: the user's and the mounted one
  queued,   \* the workqueue holds this Workspace's key
  pc, snap, keysRef, mark, failed,   \* the worker
  spent     \* how much of Limit has been used

logs   == <<wsLog, stsLog, svcLog, imgLog, secLog>>
worker == <<pc, snap, keysRef, mark, failed>>
vars   == <<wsLog, stsLog, svcLog, imgLog, secLog, queued, pc, snap, keysRef,
            mark, failed, spent>>

-----------------------------------------------------------------------------
(* Objects *)

States == {"None", "Pending", "Starting", "Running", "Suspended", "Failed"}

ReadyReasons    == {"None", "ImageNotFound", "StorageNotDefaulted",
                    "WorkloadApplyFailed", "Suspended", "PodNotReady",
                    "PodRunning"}
ResolvedReasons == {"None", "ImageNotFound", "CatalogEntryFound"}
DegradedReasons == {"None", "WorkloadApplyFailed", "WorkloadApplied"}

Generations == 0 .. MaxGen

Condition(reasons) == [reason : reasons, og : Generations]

Conditions == [Ready         : Condition(ReadyReasons),
               ImageResolved : Condition(ResolvedReasons),
               Degraded      : Condition(DegradedReasons)]

\* podName is abstracted to whether it is set; endpoint, which depends on
\* the gateway Service only, is left out.
Statuses == [state : States, pod : BOOLEAN, og : Generations,
             conds : Conditions]

\* phase: "deleting" is an object whose deletionTimestamp is set; "gone" is
\* one the API server no longer has.
Workspaces == [phase   : {"live", "deleting", "gone"},
               gen     : Generations,
               running : BOOLEAN,
               storage : BOOLEAN,
               status  : Statuses]

StatefulSets == [exists : BOOLEAN, replicas : {0, 1}, mounted : BOOLEAN,
                 ready : BOOLEAN]

Secrets == [source : Keys \union {NoKey}, runtime : Keys \union {NoKey}]

\* An object of which only its existence matters.
Presence == {"present", "absent"}

NoCondition == [reason |-> "None", og |-> 0]

NoStatus == [state |-> "None", pod |-> FALSE, og |-> 0,
             conds |-> [Ready |-> NoCondition, ImageResolved |-> NoCondition,
                        Degraded |-> NoCondition]]

NoWorkspace == [phase |-> "gone", gen |-> 0, running |-> FALSE,
                storage |-> FALSE, status |-> NoStatus]

NoStatefulSet == [exists |-> FALSE, replicas |-> 0, mounted |-> FALSE,
                  ready |-> FALSE]

-----------------------------------------------------------------------------
(* The API server, its watches and the informer caches *)

\* The bound MaxLag: a writer waits while a cache is that far behind.
Room(log) == Len(log) <= MaxLag

Server == Current(wsLog)

Spend(kind) ==
  /\ spent[kind] < Limit[kind]
  /\ spent' = [spent EXCEPT ![kind] = @ + 1]

-----------------------------------------------------------------------------
(* The status a reconcile decides on.  A condition whose reason is "None"  *)
(* is one this outcome does not set.                                       *)

Marks == [state : States, pod : BOOLEAN, ready : ReadyReasons,
          resolved : ResolvedReasons, degraded : DegradedReasons]

Mark(state, pod, ready, resolved, degraded) ==
  [state |-> state, pod |-> pod, ready |-> ready, resolved |-> resolved,
   degraded |-> degraded]

NoMark == Mark("None", FALSE, "None", "None", "None")

MarkImageNotFound ==
  Mark("Pending", FALSE, "ImageNotFound", "ImageNotFound", "None")

MarkStorageUnset ==
  Mark("Failed", FALSE, "StorageNotDefaulted", "None", "None")

MarkDegraded ==
  Mark("Failed", FALSE, "WorkloadApplyFailed", "None", "WorkloadApplyFailed")

Observed(state, pod, ready) ==
  Mark(state, pod, ready, "CatalogEntryFound", "WorkloadApplied")

MarkObserved(ws, sts) ==
  IF ~ws.running   THEN Observed("Suspended", FALSE, "Suspended")
  ELSE IF sts.ready THEN Observed("Running", TRUE, "PodRunning")
  ELSE Observed("Starting", TRUE, "PodNotReady")

SetStatusCondition(cond, reason, gen) ==
  IF reason = "None" THEN cond ELSE [reason |-> reason, og |-> gen]

\* A status of this mark, for this observedGeneration of the status and of the
\* conditions it sets.
DesiredWith(ws, m, og, condOg) ==
  [state |-> m.state,
   pod   |-> m.pod,
   og    |-> og,
   conds |->
     LET old == ws.status.conds IN
     [Ready         |-> SetStatusCondition(old.Ready, m.ready, condOg),
      ImageResolved |-> SetStatusCondition(old.ImageResolved, m.resolved,
                                           condOg),
      Degraded      |-> SetStatusCondition(old.Degraded, m.degraded, condOg)]]

\* Mutants of Desired: the generation stamped is the next one; it is the one
\* the server has by now; or it is forgotten where there is no pod.
DesiredOffByOne(ws, m) == DesiredWith(ws, m, ws.gen + 1, ws.gen)

DesiredOfServer(ws, m) == DesiredWith(ws, m, Server.gen, Server.gen)

DesiredForgetful(ws, m) ==
  DesiredWith(ws, m, IF m.pod THEN ws.gen ELSE 0, ws.gen)

\* The status patchStatus wants, computed on the Workspace it read.
Desired(ws, m) == DesiredWith(ws, m, ws.gen, ws.gen)

\* The conditions are one list, sent whole or not at all.
MergePatch(server, base, new) ==
  [state |-> Patched(server.state, base.state, new.state),
   pod   |-> Patched(server.pod,   base.pod,   new.pod),
   og    |-> Patched(server.og,    base.og,    new.og),
   conds |-> Patched(server.conds, base.conds, new.conds)]

-----------------------------------------------------------------------------
(* Reconcile, one action per call that reaches the API server *)

ToIdle ==
  /\ pc' = "idle"
  /\ snap' = NoWorkspace
  /\ keysRef' = FALSE
  /\ mark' = NoMark
  /\ failed' = FALSE

\* A mark* call: the status is decided, and patchStatus comes next.
ToPatch(ws, m, err) ==
  /\ pc' = "patch"
  /\ snap' = ws
  /\ keysRef' = FALSE
  /\ mark' = m
  /\ failed' = err

ToStep(step, ws, ref) ==
  /\ pc' = step
  /\ snap' = ws
  /\ keysRef' = ref
  /\ UNCHANGED <<mark, failed>>

\* Take the key off the queue; read the Workspace and the catalog entry from
\* the cache, and return early or go on.
Reconcile ==
  /\ pc = "idle" /\ queued
  /\ queued' = FALSE
  /\ LET ws == Cached(wsLog) IN
       \/ /\ ws.phase # "live"
          /\ ToIdle
       \/ /\ ws.phase = "live" /\ Cached(imgLog) = "absent"
          /\ ToPatch(ws, MarkImageNotFound, FALSE)
       \/ /\ ws.phase = "live" /\ Cached(imgLog) = "present" /\ ~ws.storage
          /\ ToPatch(ws, MarkStorageUnset, FALSE)
       \/ /\ ws.phase = "live" /\ Cached(imgLog) = "present" /\ ws.storage
          /\ ToStep("gitssh", ws, FALSE)
  /\ UNCHANGED <<logs, spent>>

\* Whether the one write ensureGitSSHRuntimeSecret makes, chosen from the
\* cached Secrets, is accepted by the API server, and what it leaves there.
RuntimeWriteAccepted(cached, server) ==
  cached.source # NoKey /\ cached.runtime # cached.source
    => (cached.runtime = NoKey <=> server.runtime = NoKey)

RuntimeAfterWrite(cached, server) ==
  IF cached.source = NoKey
    THEN IF cached.runtime = NoKey THEN server.runtime ELSE NoKey
    ELSE Patched(server.runtime, cached.runtime, cached.source)

ensureGitSSHRuntimeSecret ==
  /\ pc = "gitssh" /\ Room(secLog)
  /\ LET cached == Cached(secLog)
         server == Current(secLog) IN
       \/ /\ RuntimeWriteAccepted(cached, server)
          /\ secLog' = Write(secLog,
               [server EXCEPT !.runtime = RuntimeAfterWrite(cached, server)])
          /\ ToStep("service", snap, cached.source # NoKey)
       \/ /\ ~RuntimeWriteAccepted(cached, server)
          /\ ToPatch(snap, MarkDegraded, TRUE)
          /\ UNCHANGED secLog
  /\ UNCHANGED <<wsLog, stsLog, svcLog, imgLog, queued, spent>>

\* Mutant of ApplyService: a failed apply does not stop the loop.
ApplyServiceIgnoringErrors ==
  /\ pc = "service" /\ Room(svcLog)
  /\ svcLog' \in {svcLog, Write(svcLog, "present")}
  /\ ToStep("sts", snap, keysRef)
  /\ UNCHANGED <<wsLog, stsLog, imgLog, secLog, queued, spent>>

ApplyService ==
  /\ pc = "service" /\ Room(svcLog)
  /\ svcLog' = Write(svcLog, "present")
  /\ ToStep("sts", snap, keysRef)
  /\ UNCHANGED <<wsLog, stsLog, imgLog, secLog, queued, spent>>

Replicas(running) == IF running THEN 1 ELSE 0

BuildStatefulSet(ws, ref, old) ==
  [exists |-> TRUE, replicas |-> Replicas(ws.running),
   mounted |-> ref, ready |-> old.ready]

\* Mutant of ApplyStatefulSet: created when absent, never brought up to date.
ApplyStatefulSetOnce ==
  /\ pc = "sts" /\ Room(stsLog)
  /\ stsLog' = IF Current(stsLog).exists THEN stsLog ELSE
       Append(stsLog, BuildStatefulSet(snap, keysRef, Current(stsLog)))
  /\ ToStep("observe", snap, keysRef)
  /\ UNCHANGED <<wsLog, svcLog, imgLog, secLog, queued, spent>>

ApplyStatefulSet ==
  /\ pc = "sts" /\ Room(stsLog)
  /\ stsLog' = Write(stsLog, BuildStatefulSet(snap, keysRef, Current(stsLog)))
  /\ ToStep("observe", snap, keysRef)
  /\ UNCHANGED <<wsLog, svcLog, imgLog, secLog, queued, spent>>

\* Reading a Secret, decrypting it, or writing a child fails.  A write whose
\* answer is lost is one that was made, and fails at the step after it.
ReconcileFails ==
  /\ pc \in {"gitssh", "service", "sts", "observe"}
  /\ Spend("fault")
  /\ ToPatch(snap, MarkDegraded, TRUE)
  /\ UNCHANGED <<logs, queued>>

\* The StatefulSet is read back through the cache; an absent one reads as a
\* zero value, which is not ready.
Observe ==
  /\ pc = "observe"
  /\ ToPatch(snap, MarkObserved(snap, Cached(stsLog)), FALSE)
  /\ UNCHANGED <<logs, queued, spent>>

\* Reading the StatefulSet back fails: nothing is reported, the key is queued.
ObserveFails ==
  /\ pc = "observe"
  /\ Spend("fault")
  /\ queued' = TRUE
  /\ ToIdle
  /\ UNCHANGED logs

PatchedWorkspace ==
  [Server EXCEPT !.status =
     MergePatch(Server.status, snap.status, Desired(snap, mark))]

\* Mutant of patchStatus: every reconcile asks to be run again.
patchStatusRequeueing ==
  /\ pc = "patch" /\ Room(wsLog)
  /\ \/ /\ Server.phase # "gone"
        /\ wsLog' = Write(wsLog, PatchedWorkspace)
     \/ /\ Server.phase = "gone"
        /\ UNCHANGED wsLog
  /\ queued' = TRUE
  /\ ToIdle
  /\ UNCHANGED <<stsLog, svcLog, imgLog, secLog, spent>>

\* Reconcile returns; an error puts the key back on the queue.
patchStatus ==
  /\ pc = "patch" /\ Room(wsLog)
  /\ \/ /\ Server.phase # "gone"
        /\ wsLog' = Write(wsLog, PatchedWorkspace)
        /\ queued' = (queued \/ failed)
     \/ /\ Server.phase = "gone"
        /\ queued' = TRUE
        /\ UNCHANGED wsLog
  /\ ToIdle
  /\ UNCHANGED <<stsLog, svcLog, imgLog, secLog, spent>>

\* The patch fails, or its answer is lost after it was applied.
PatchStatusFails ==
  /\ pc = "patch" /\ Server.phase # "gone" /\ Room(wsLog)
  /\ Spend("fault")
  /\ wsLog' \in {wsLog, Write(wsLog, PatchedWorkspace)}
  /\ queued' = TRUE
  /\ ToIdle
  /\ UNCHANGED <<stsLog, svcLog, imgLog, secLog>>

-----------------------------------------------------------------------------
(* Watch events reach the cache, and SetupWithManager's handlers enqueue *)

\* Mutant of DeliverWorkspace: only a change of generation enqueues.
DeliverWorkspaceOnGeneration ==
  /\ Len(wsLog) > 1
  /\ wsLog' = Tail(wsLog)
  /\ queued' = (queued \/ wsLog[1].gen # wsLog[2].gen)
  /\ UNCHANGED <<stsLog, svcLog, imgLog, secLog, worker, spent>>

DeliverWorkspace ==
  /\ Len(wsLog) > 1
  /\ wsLog' = Tail(wsLog)
  /\ queued' = TRUE
  /\ UNCHANGED <<stsLog, svcLog, imgLog, secLog, worker, spent>>

DeliverStatefulSet ==
  /\ Len(stsLog) > 1
  /\ stsLog' = Tail(stsLog)
  /\ queued' = TRUE
  /\ UNCHANGED <<wsLog, svcLog, imgLog, secLog, worker, spent>>

DeliverService ==
  /\ Len(svcLog) > 1
  /\ svcLog' = Tail(svcLog)
  /\ queued' = TRUE
  /\ UNCHANGED <<wsLog, stsLog, imgLog, secLog, worker, spent>>

\* workspacesUsingImage lists the Workspaces the cache has.
DeliverImage ==
  /\ Len(imgLog) > 1
  /\ imgLog' = Tail(imgLog)
  /\ queued' = (queued \/ Cached(wsLog).phase # "gone")
  /\ UNCHANGED <<wsLog, stsLog, svcLog, secLog, worker, spent>>

\* Mutant of DeliverSecret: the Secrets are not watched.
DeliverSecretUnwatched ==
  /\ Len(secLog) > 1
  /\ secLog' = Tail(secLog)
  /\ UNCHANGED <<wsLog, stsLog, svcLog, imgLog, queued, worker, spent>>

\* workspacesInGitSSHKeysSecretNamespace ignores every Secret but the user's
\* own: an event of the runtime Secret enqueues nothing.
DeliverSecret ==
  /\ Len(secLog) > 1
  /\ secLog' = Tail(secLog)
  /\ queued' = (queued \/ /\ secLog[1].source # secLog[2].source
                          /\ Cached(wsLog).phase # "gone")
  /\ UNCHANGED <<wsLog, stsLog, svcLog, imgLog, worker, spent>>

-----------------------------------------------------------------------------
(* Users and administrators *)

\* The validating webhook (catalogEntry) refuses an update of a Workspace
\* whose catalog entry the manager's cache does not have.
UpdateAdmitted == Cached(imgLog) = "present"

Edit(ws) ==
  /\ Server.phase = "live" /\ Room(wsLog)
  /\ Server.gen < MaxGen
  /\ UpdateAdmitted
  /\ wsLog' = Append(wsLog, [ws EXCEPT !.gen = @ + 1])
  /\ UNCHANGED <<stsLog, svcLog, imgLog, secLog, queued, worker, spent>>

StartOrStop == Edit([Server EXCEPT !.running = ~@])

\* spec.storage may be set once and never changed after that.
SetStorage == ~Server.storage /\ Edit([Server EXCEPT !.storage = TRUE])

\* A background deletion removes the object at once; a foreground one stamps
\* deletionTimestamp and waits for the children.
DeleteWorkspace ==
  /\ Server.phase = "live" /\ Room(wsLog)
  /\ \/ wsLog' = Append(wsLog, [Server EXCEPT !.phase = "gone"])
     \/ /\ Server.gen < MaxGen
        /\ wsLog' = Append(wsLog, [Server EXCEPT !.phase = "deleting",
                                                 !.gen = @ + 1])
  /\ UNCHANGED <<stsLog, svcLog, imgLog, secLog, queued, worker, spent>>

CreateOrDeleteImage ==
  /\ Room(imgLog) /\ Spend("image")
  /\ imgLog' = Append(imgLog, IF Current(imgLog) = "absent" THEN "present"
                                                         ELSE "absent")
  /\ UNCHANGED <<wsLog, stsLog, svcLog, secLog, queued, worker>>

PutOrDeleteGitSSHKey ==
  /\ Room(secLog) /\ Spend("key")
  /\ \E k \in (Keys \union {NoKey}) \ {Current(secLog).source} :
       secLog' = Append(secLog, [Current(secLog) EXCEPT !.source = k])
  /\ UNCHANGED <<wsLog, stsLog, svcLog, imgLog, queued, worker>>

-----------------------------------------------------------------------------
(* Kubernetes itself: the StatefulSet controller and garbage collection *)

PodBecomesReady ==
  /\ Room(stsLog)
  /\ Current(stsLog).exists /\ Current(stsLog).replicas = 1
  /\ ~Current(stsLog).ready
  /\ stsLog' = Append(stsLog, [Current(stsLog) EXCEPT !.ready = TRUE])
  /\ UNCHANGED <<wsLog, svcLog, imgLog, secLog, queued, worker, spent>>

PodStops ==
  /\ Room(stsLog)
  /\ Current(stsLog).ready /\ Current(stsLog).replicas = 0
  /\ stsLog' = Append(stsLog, [Current(stsLog) EXCEPT !.ready = FALSE])
  /\ UNCHANGED <<wsLog, svcLog, imgLog, secLog, queued, worker, spent>>

PodFails ==
  /\ Room(stsLog)
  /\ Current(stsLog).ready /\ Current(stsLog).replicas = 1
  /\ Spend("flap")
  /\ stsLog' = Append(stsLog, [Current(stsLog) EXCEPT !.ready = FALSE])
  /\ UNCHANGED <<wsLog, svcLog, imgLog, secLog, queued, worker>>

\* Mutant of CollectStatefulSet: the StatefulSet carries no ownerReference.
CollectStatefulSetUnowned == FALSE /\ UNCHANGED vars

CollectStatefulSet ==
  /\ Server.phase # "live" /\ Room(stsLog)
  /\ Current(stsLog).exists
  /\ stsLog' = Append(stsLog, NoStatefulSet)
  /\ UNCHANGED <<wsLog, svcLog, imgLog, secLog, queued, worker, spent>>

CollectService ==
  /\ Server.phase # "live" /\ Room(svcLog)
  /\ Current(svcLog) = "present"
  /\ svcLog' = Append(svcLog, "absent")
  /\ UNCHANGED <<wsLog, stsLog, imgLog, secLog, queued, worker, spent>>

\* The finalizer of a foreground deletion is removed by an update, which the
\* validating webhook sees like any other.
FinishDeletion ==
  /\ Server.phase = "deleting" /\ Room(wsLog)
  /\ ~Current(stsLog).exists /\ Current(svcLog) = "absent"
  /\ UpdateAdmitted
  /\ wsLog' = Append(wsLog, [Server EXCEPT !.phase = "gone"])
  /\ UNCHANGED <<stsLog, svcLog, imgLog, secLog, queued, worker, spent>>

\* The manager dies between two calls and another one starts: the caches are
\* listed again and every object found is enqueued.
ManagerRestarts ==
  /\ Spend("crash")
  /\ wsLog' = Relist(wsLog)
  /\ stsLog' = Relist(stsLog)
  /\ svcLog' = Relist(svcLog)
  /\ imgLog' = Relist(imgLog)
  /\ secLog' = Relist(secLog)
  /\ queued' = (\/ Server.phase # "gone"
                \/ Current(stsLog).exists
                \/ Current(svcLog) = "present")
  /\ ToIdle

-----------------------------------------------------------------------------
Init ==
  /\ \E running, storage \in BOOLEAN :
       wsLog = <<[phase |-> "live", gen |-> 1, running |-> running,
                  storage |-> storage, status |-> NoStatus]>>
  /\ stsLog = <<NoStatefulSet>>
  /\ svcLog = <<"absent">>
  /\ imgLog = <<"present">>
  /\ \E k \in Keys \union {NoKey} :
       secLog = <<[source |-> k, runtime |-> NoKey]>>
  /\ queued = TRUE
  /\ pc = "idle" /\ snap = NoWorkspace /\ keysRef = FALSE /\ mark = NoMark
  /\ failed = FALSE
  /\ spent = [kind \in Troubles |-> 0]

WorkerStep ==
  \/ Reconcile
  \/ ensureGitSSHRuntimeSecret
  \/ ApplyService
  \/ ApplyStatefulSet
  \/ Observe
  \/ patchStatus

Deliver ==
  \/ DeliverWorkspace
  \/ DeliverStatefulSet
  \/ DeliverService
  \/ DeliverImage
  \/ DeliverSecret

Outside ==
  \/ StartOrStop
  \/ SetStorage
  \/ DeleteWorkspace
  \/ CreateOrDeleteImage
  \/ PutOrDeleteGitSSHKey
  \/ PodBecomesReady
  \/ PodStops
  \/ PodFails
  \/ CollectStatefulSet
  \/ CollectService
  \/ FinishDeletion

Trouble ==
  \/ ReconcileFails
  \/ ObserveFails
  \/ PatchStatusFails
  \/ ManagerRestarts

Next == WorkerStep \/ Deliver \/ Outside \/ Trouble

Spec == Init /\ [][Next]_vars

\* The worker keeps running, each watch keeps delivering, and the garbage
\* collector keeps collecting.  Nothing else is promised: a pod may never
\* become ready and a user may never come back.
Fairness ==
  /\ WF_vars(WorkerStep)
  /\ WF_vars(DeliverWorkspace)
  /\ WF_vars(DeliverStatefulSet)
  /\ WF_vars(DeliverService)
  /\ WF_vars(DeliverImage)
  /\ WF_vars(DeliverSecret)
  /\ WF_vars(CollectStatefulSet)
  /\ WF_vars(CollectService)

FairSpec == Spec /\ Fairness

-----------------------------------------------------------------------------
(* Properties *)

LogTypeOK ==
  /\ wsLog \in Seq(Workspaces) /\ Len(wsLog) > 0
  /\ stsLog \in Seq(StatefulSets) /\ Len(stsLog) > 0
  /\ svcLog \in Seq(Presence) /\ Len(svcLog) > 0
  /\ imgLog \in Seq(Presence) /\ Len(imgLog) > 0
  /\ secLog \in Seq(Secrets) /\ Len(secLog) > 0

WorkerTypeOK ==
  /\ pc \in {"idle", "gitssh", "service", "sts", "observe", "patch"}
  /\ snap \in Workspaces
  /\ keysRef \in BOOLEAN
  /\ mark \in Marks
  /\ failed \in BOOLEAN

\* Every variable holds a value the program can give it.
TypeOK ==
  /\ LogTypeOK
  /\ WorkerTypeOK
  /\ queued \in BOOLEAN
  /\ spent \in [Troubles -> Nat]

ReadyCondition == Server.status.conds.Ready

\* The reasons markObserved gives: the workload was applied, and this is what
\* was seen of it.
ObservedReasons == {"Suspended", "PodNotReady", "PodRunning"}

\* "observedGeneration comes from the generation actually acted on, so a stale
\* Ready is detectable": a Ready condition of the current generation speaks of
\* the current spec.running.
ReadySpeaksOfCurrentSpec ==
  ReadyCondition.og = Server.gen
    => /\ ReadyCondition.reason = "PodRunning"  => Server.running
       /\ ReadyCondition.reason = "PodNotReady" => Server.running
       /\ ReadyCondition.reason = "Suspended"   => ~Server.running

\* Both children are there, with the replica count of this spec.running.
AppliedFor(running) ==
  /\ Current(svcLog) = "present"
  /\ Current(stsLog).exists
  /\ Current(stsLog).replicas = Replicas(running)

\* A Ready condition of the current generation that reports on the workload is
\* backed by a Service and a StatefulSet applied with the current spec, however
\* stale the caches the reconciles in between have read.
StatusBackedByWorkload ==
  (/\ Server.phase = "live"
   /\ ReadyCondition.og = Server.gen
   /\ ReadyCondition.reason \in ObservedReasons)
    => AppliedFor(Server.running)

\* applyWorkload creates the Service first: no StatefulSet of a live Workspace
\* is ever without its governing Service.
GoverningServiceFirst ==
  Server.phase = "live" /\ Current(stsLog).exists => Current(svcLog) = "present"

\* No reconcile, however old the Workspace it read, takes a status back to an
\* earlier generation, and none claims a generation that does not exist yet.
ObservedGenerationAdvances ==
  [][ /\ Server.status.og <= Server'.status.og
      /\ ReadyCondition.og <= ReadyCondition'.og
      /\ Server'.status.og <= Server'.gen ]_vars

\* Nothing is queued, under way or on its way to a cache.
Quiet ==
  /\ ~queued /\ pc = "idle"
  /\ Len(wsLog) = 1 /\ Len(stsLog) = 1 /\ Len(svcLog) = 1
  /\ Len(imgLog) = 1 /\ Len(secLog) = 1

\* The outcome of a reconcile of these objects that nothing interferes with.
SettledMark(ws, img, sts) ==
  IF img = "absent" THEN MarkImageNotFound
  ELSE IF ~ws.storage THEN MarkStorageUnset
  ELSE MarkObserved(ws, sts)

\* What the controller last published is what the API server's objects say.
StatusIsSettled ==
  LET sts == Current(stsLog)
      m   == SettledMark(Server, Current(imgLog), sts)
  IN /\ Server.status.state = m.state
     /\ Server.status.pod = m.pod
     /\ Server.status.og = Server.gen
     /\ ReadyCondition = [reason |-> m.ready, og |-> Server.gen]
     /\ m.resolved # "None" =>
          Server.status.conds.ImageResolved.reason = m.resolved
     /\ m.ready \in ObservedReasons =>
          /\ sts.replicas = Replicas(Server.running)
          /\ Server.status.conds.Degraded.reason = "WorkloadApplied"

\* The pods mount the runtime Secret exactly when the user has a key.
MountFollowsSource ==
  Current(imgLog) = "present" /\ Server.storage =>
    Current(stsLog).mounted = (Current(secLog).source # NoKey)

\* Whenever the controller has come to rest the status says what is there, and
\* adding the first key or removing the last one has reached the workload: no
\* event was dropped, no stale read and no merge against an old status is left
\* uncorrected.
RestIsConverged ==
  Quiet /\ Server.phase = "live" => StatusIsSettled /\ MountFollowsSource

\* The reconciler does not retrigger itself for ever: once users, pods and
\* faults leave it alone it comes to rest.
ComesToRest == <>[]Quiet

\* The children a stale reconcile puts back after their Workspace was deleted
\* do not stay.
OrphansAreCollected ==
  [](Server.phase = "gone" =>
       <>[](~Current(stsLog).exists /\ Current(svcLog) = "absent"))

\* What SetupWithManager's handler says: "adding or removing a key retriggers
\* all of that user's workspaces without waiting for something else to touch
\* them".  At rest, what workspaces mount is what the user has stored.
RestMountsCurrentKeys ==
  (/\ Quiet
   /\ Server.phase = "live" /\ Current(imgLog) = "present"
   /\ Server.storage)
    => Current(secLog).runtime = Current(secLog).source

=============================================================================
