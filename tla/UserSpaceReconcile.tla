------------------------- MODULE UserSpaceReconcile -------------------------
(***************************************************************************)
(* One UserSpace and the manager's UserSpaceReconciler                     *)
(* (internal/controller/userspace_controller.go): the namespace, quota and *)
(* access objects it provisions, the pull Secret it mirrors, and the       *)
(* cluster-wide bindings it grants to an administrator and withdraws from  *)
(* a former one.                                                           *)
(*                                                                         *)
(* What the reconciler reads is kept as WatchLogs: the UserSpace, the      *)
(* administrator bindings, the PlatformConfig and the source pull Secret.  *)
(* It writes its other children without reading them; of those only what   *)
(* the API server holds matters, and that a change of one is an event.     *)
(***************************************************************************)
EXTENDS WatchLog, FiniteSets

CONSTANTS MaxGen,        \* bound on metadata.generation: edits of the spec
          MaxLag,        \* bound on the events under way to one cache
          ClusterRoles,  \* the ClusterRoles the manager may be told to grant
          Gpus,          \* the names PlatformConfig may give the GPU resource
          Keys,          \* the values of a source pull Secret
          NoKey,         \* no such Secret
          Allowed,       \* the kinds of trouble that may happen, each once
          MaxTrouble     \* bound on the trouble in one behaviour

Troubles == {"fault", "crash", "drift", "settings"}

ASSUME MaxGenAssumption == MaxGen \in Nat \ {0}
ASSUME MaxLagAssumption == MaxLag \in Nat \ {0}
ASSUME TroubleAssumption == Allowed \subseteq Troubles /\ MaxTrouble \in Nat
ASSUME KeysAssumption == NoKey \notin Keys
ASSUME GpusAssumption == Gpus # {}

VARIABLES
  usLog,       \* versions of the UserSpace
  bindLog,     \* versions of the set of administrator bindings it has
  cfgLog,      \* versions of the GPU resource name in PlatformConfig
  srcLog,      \* versions of the labelled pull Secret in the manager namespace
  kids,        \* the other children, as the API server holds them
  kidsChanged, \* an event of one of them is under way
  adminRoles,  \* the manager's flag AdminClusterRoles
  overtook,    \* history: a reconcile got ahead of a version the cache has
               \* yet to be given
  queued,      \* the workqueue holds this UserSpace's key
  pc, snap, plan, at, failed,   \* the worker
  spent        \* the trouble there has been

worker == <<pc, snap, plan, at, failed>>
vars == <<usLog, bindLog, cfgLog, srcLog, kids, kidsChanged, adminRoles,
          overtook, queued, pc, snap, plan, at, failed, spent>>

-----------------------------------------------------------------------------
(* Objects *)

Generations == 0 .. MaxGen

States == {"None", "Pending", "Ready", "Failed"}

\* The Ready and Degraded conditions are always set together, for one reason.
Reasons == {"None", "NamespaceProvisioned", "ProvisioningFailed"}

Statuses == [namespace : BOOLEAN, state : States, og : Generations,
             cond : [reason : Reasons, og : Generations]]

NoStatus == [namespace |-> FALSE, state |-> "None", og |-> 0,
             cond |-> [reason |-> "None", og |-> 0]]

\* Of the spec the role is kept; quota, network policy and the rest are told
\* apart by the generation they came with.
UserSpaces == [phase : {"live", "deleting", "gone"}, gen : Generations,
               admin : BOOLEAN, status : Statuses]

NoUserSpace == [phase |-> "gone", gen |-> 0, admin |-> FALSE,
                status |-> NoStatus]

\* The order of applyChildren.  Access stands for the objects between the
\* ResourceQuota and the pull Secrets.
Children == <<"Namespace", "ResourceQuota", "Access", "PullSecret">>

\* What a child was built from; generation 0 is a child that is not there.
Kids == [Namespace     : Generations,
         ResourceQuota : [gen : Generations, gpu : Gpus],
         Access        : Generations,
         PullSecret    : Keys \union {NoKey}]

SomeGpu == CHOOSE g \in Gpus : TRUE

NoKids == [Namespace |-> 0, ResourceQuota |-> [gen |-> 0, gpu |-> SomeGpu],
           Access |-> 0, PullSecret |-> NoKey]

Plans == [gpu : Gpus, pull : Keys \union {NoKey}]

NoPlan == [gpu |-> SomeGpu, pull |-> NoKey]

Room(log) == Len(log) <= MaxLag

Server == Current(usLog)

Spend(kind) ==
  /\ kind \in Allowed \ spent
  /\ Cardinality(spent) < MaxTrouble
  /\ spent' = spent \union {kind}

-----------------------------------------------------------------------------
(* Status *)

\* What patchStatus wants of the UserSpace it was given; the first patch, to
\* Pending, sets no condition.
Desired(us, state, reason) ==
  [namespace |-> TRUE, state |-> state, og |-> us.gen,
   cond |-> IF reason = "None" THEN us.status.cond
                               ELSE [reason |-> reason, og |-> us.gen]]

MergePatch(server, base, new) ==
  [namespace |-> Patched(server.namespace, base.namespace, new.namespace),
   state     |-> Patched(server.state, base.state, new.state),
   og        |-> Patched(server.og, base.og, new.og),
   cond      |-> Patched(server.cond, base.cond, new.cond)]

PatchedUserSpace(state, reason) ==
  [Server EXCEPT !.status =
     MergePatch(Server.status, snap.status, Desired(snap, state, reason))]

-----------------------------------------------------------------------------
(* Reconcile, one action per call that reaches the API server *)

ToIdle ==
  /\ pc' = "idle"
  /\ snap' = NoUserSpace
  /\ plan' = NoPlan
  /\ at' = 0
  /\ failed' = FALSE

ToStep(step, us) ==
  /\ pc' = step
  /\ snap' = us
  /\ UNCHANGED <<plan, at, failed>>

\* markReady or markDegraded: patchStatus comes next.
ToMark(err) ==
  /\ pc' = "mark"
  /\ failed' = err
  /\ plan' = NoPlan
  /\ at' = 0
  /\ UNCHANGED snap

Reconcile ==
  /\ pc = "idle" /\ queued
  /\ queued' = FALSE
  /\ LET us == Cached(usLog) IN
       \/ us.phase # "live" /\ ToIdle
       \/ us.phase = "live" /\ us.status.state = "None" /\ ToStep("pending", us)
       \/ us.phase = "live" /\ us.status.state # "None" /\ ToStep("read", us)
  /\ UNCHANGED <<usLog, bindLog, cfgLog, srcLog, kids, kidsChanged, adminRoles,
                 overtook, spent>>

\* A version that will be reconciled when the cache gets it, and that is older
\* than what the API server has now.
OlderIsUnderWay ==
  \E i \in 1 .. Len(usLog) : /\ usLog[i].status.state # "None"
                             /\ usLog[i].gen < Server.gen

\* The answer to the first status patch is the UserSpace as the API server has
\* it by then, and it is that one the reconcile goes on with.
MarkPending ==
  /\ pc = "pending" /\ Room(usLog)
  /\ \/ /\ Server.phase # "gone"
        /\ usLog' = Write(usLog, PatchedUserSpace("Pending", "None"))
        /\ ToStep("read", PatchedUserSpace("Pending", "None"))
        /\ overtook' = (overtook \/ OlderIsUnderWay)
        /\ UNCHANGED queued
     \/ /\ Server.phase = "gone"
        /\ ToIdle
        /\ queued' = TRUE
        /\ UNCHANGED <<usLog, overtook>>
  /\ UNCHANGED <<bindLog, cfgLog, srcLog, kids, kidsChanged, adminRoles, spent>>

\* pullSecrets and gpuResource, both through the cache.
ReadInputs ==
  /\ pc = "read"
  /\ pc' = "apply"
  /\ plan' = [gpu |-> Cached(cfgLog), pull |-> Cached(srcLog)]
  /\ at' = 1
  /\ UNCHANGED <<usLog, bindLog, cfgLog, srcLog, kids, kidsChanged, adminRoles,
                 overtook, queued, snap, failed, spent>>

\* Mutant of WithChild: a child is created, and never brought up to date.
WithChildOnce(old, child, us, p) ==
  IF child = "Namespace" THEN [old EXCEPT !.Namespace = 1]
  ELSE IF child = "ResourceQuota"
    THEN [old EXCEPT !.ResourceQuota =
            IF @.gen # 0 THEN @ ELSE [gen |-> us.gen, gpu |-> p.gpu]]
  ELSE IF child = "Access"
    THEN [old EXCEPT !.Access = IF @ # 0 THEN @ ELSE us.gen]
  ELSE [old EXCEPT !.PullSecret = IF p.pull = NoKey THEN @ ELSE p.pull]

\* One child as built from this UserSpace and plan.  A pull Secret that is not
\* there any more is not built, and its copy stays.
WithChild(old, child, us, p) ==
  IF child = "Namespace" THEN [old EXCEPT !.Namespace = 1]
  ELSE IF child = "ResourceQuota"
    THEN [old EXCEPT !.ResourceQuota = [gen |-> us.gen, gpu |-> p.gpu]]
  ELSE IF child = "Access" THEN [old EXCEPT !.Access = us.gen]
  ELSE [old EXCEPT !.PullSecret = IF p.pull = NoKey THEN @ ELSE p.pull]

SetKids(new) ==
  /\ kids' = new
  /\ kidsChanged' = (kidsChanged \/ new # kids)

\* Nothing can be written into a namespace that garbage collection has removed.
NamespaceMissing == at > 1 /\ kids.Namespace = 0

ApplyChild(last) ==
  \/ /\ ~NamespaceMissing
     /\ SetKids(WithChild(kids, Children[at], snap, plan))
     /\ \/ at < last /\ at' = at + 1 /\ UNCHANGED pc
        \/ at = last /\ at' = 0 /\ pc' = "grant"
     /\ UNCHANGED <<snap, plan, failed>>
  \/ /\ NamespaceMissing
     /\ ToMark(TRUE)
     /\ UNCHANGED <<kids, kidsChanged>>

\* Mutant of applyChildren: it stops before the last child.
applyChildrenStoppingShort ==
  /\ pc = "apply"
  /\ ApplyChild(Len(Children) - 1)
  /\ UNCHANGED <<usLog, bindLog, cfgLog, srcLog, adminRoles, overtook, queued,
                 spent>>

applyChildren ==
  /\ pc = "apply"
  /\ ApplyChild(Len(Children))
  /\ UNCHANGED <<usLog, bindLog, cfgLog, srcLog, adminRoles, overtook, queued,
                 spent>>

\* The ClusterRoles reconcileRoleGrants binds.
Granted(us) == IF us.admin THEN adminRoles ELSE {}

GrantRoles ==
  /\ pc = "grant" /\ Room(bindLog)
  /\ bindLog' = Write(bindLog, Current(bindLog) \union Granted(snap))
  /\ ToStep("sweep", snap)
  /\ UNCHANGED <<usLog, cfgLog, srcLog, kids, kidsChanged, adminRoles,
                 overtook, queued, spent>>

\* Mutant of Withdrawn: what should not exist is derived from the flag.
WithdrawnByName(us) == IF us.admin THEN {} ELSE adminRoles

\* The bindings to withdraw: those the cache lists and the role does not grant.
Withdrawn(us) == Cached(bindLog) \ Granted(us)

WithdrawRoles ==
  /\ pc = "sweep" /\ Room(bindLog)
  /\ bindLog' = Write(bindLog, Current(bindLog) \ Withdrawn(snap))
  /\ ToMark(FALSE)
  /\ UNCHANGED <<usLog, cfgLog, srcLog, kids, kidsChanged, adminRoles,
                 overtook, queued, spent>>

\* A read or a write fails, with part of a step's writes made.
ReconcileFails ==
  /\ pc \in {"read", "apply", "grant", "sweep"} /\ Room(bindLog)
  /\ Spend("fault")
  /\ \/ UNCHANGED bindLog
     \/ /\ pc = "grant"
        /\ \E done \in SUBSET Granted(snap) :
             bindLog' = Write(bindLog, Current(bindLog) \union done)
     \/ /\ pc = "sweep"
        /\ \E done \in SUBSET Withdrawn(snap) :
             bindLog' = Write(bindLog, Current(bindLog) \ done)
  /\ ToMark(TRUE)
  /\ UNCHANGED <<usLog, cfgLog, srcLog, kids, kidsChanged, adminRoles,
                 overtook, queued>>

Outcome ==
  IF failed THEN PatchedUserSpace("Failed", "ProvisioningFailed")
            ELSE PatchedUserSpace("Ready", "NamespaceProvisioned")

\* Mutant of patchStatus: every reconcile asks to be run again.
patchStatusRequeueing ==
  /\ pc = "mark" /\ Room(usLog)
  /\ \/ /\ Server.phase # "gone"
        /\ usLog' = Write(usLog, Outcome)
     \/ /\ Server.phase = "gone"
        /\ UNCHANGED usLog
  /\ queued' = TRUE
  /\ ToIdle
  /\ UNCHANGED <<bindLog, cfgLog, srcLog, kids, kidsChanged, adminRoles,
                 overtook, spent>>

\* Reconcile returns; an error puts the key back on the queue.
patchStatus ==
  /\ pc = "mark" /\ Room(usLog)
  /\ \/ /\ Server.phase # "gone"
        /\ usLog' = Write(usLog, Outcome)
        /\ queued' = (queued \/ failed)
     \/ /\ Server.phase = "gone"
        /\ queued' = TRUE
        /\ UNCHANGED usLog
  /\ ToIdle
  /\ UNCHANGED <<bindLog, cfgLog, srcLog, kids, kidsChanged, adminRoles,
                 overtook, spent>>

\* A status patch fails, or its answer is lost after it was applied.
PatchStatusFails ==
  /\ pc \in {"pending", "mark"} /\ Server.phase # "gone" /\ Room(usLog)
  /\ Spend("fault")
  /\ usLog' \in {usLog, Write(usLog, IF pc = "mark" THEN Outcome
                                     ELSE PatchedUserSpace("Pending", "None"))}
  /\ queued' = TRUE
  /\ ToIdle
  /\ UNCHANGED <<bindLog, cfgLog, srcLog, kids, kidsChanged, adminRoles,
                 overtook>>

-----------------------------------------------------------------------------
(* Watch events reach the cache, and SetupWithManager's handlers enqueue *)

DeliverUserSpace ==
  /\ Len(usLog) > 1
  /\ usLog' = Tail(usLog)
  /\ queued' = TRUE
  /\ UNCHANGED <<bindLog, cfgLog, srcLog, kids, kidsChanged, adminRoles,
                 overtook, worker, spent>>

DeliverBinding ==
  /\ Len(bindLog) > 1
  /\ bindLog' = Tail(bindLog)
  /\ queued' = TRUE
  /\ UNCHANGED <<usLog, cfgLog, srcLog, kids, kidsChanged, adminRoles,
                 overtook, worker, spent>>

DeliverChild ==
  /\ kidsChanged
  /\ kidsChanged' = FALSE
  /\ queued' = TRUE
  /\ UNCHANGED <<usLog, bindLog, cfgLog, srcLog, kids, adminRoles, overtook,
                 worker, spent>>

\* PlatformConfig is read, and so cached, but nothing watches it.
DeliverPlatformConfig ==
  /\ Len(cfgLog) > 1
  /\ cfgLog' = Tail(cfgLog)
  /\ UNCHANGED <<usLog, bindLog, srcLog, kids, kidsChanged, adminRoles,
                 overtook, queued, worker, spent>>

\* userSpacesForPullSecretChange lists the UserSpaces the cache has.
DeliverPullSecret ==
  /\ Len(srcLog) > 1
  /\ srcLog' = Tail(srcLog)
  /\ queued' = (queued \/ Cached(usLog).phase # "gone")
  /\ UNCHANGED <<usLog, bindLog, cfgLog, kids, kidsChanged, adminRoles,
                 overtook, worker, spent>>

-----------------------------------------------------------------------------
(* Administrators and Kubernetes *)

EditSpec ==
  /\ Server.phase = "live" /\ Room(usLog)
  /\ Server.gen < MaxGen
  /\ \E admin \in BOOLEAN :
       usLog' = Append(usLog, [Server EXCEPT !.gen = @ + 1, !.admin = admin])
  /\ UNCHANGED <<bindLog, cfgLog, srcLog, kids, kidsChanged, adminRoles,
                 overtook, queued, worker, spent>>

DeleteUserSpace ==
  /\ Server.phase = "live" /\ Room(usLog)
  /\ \/ usLog' = Append(usLog, [Server EXCEPT !.phase = "gone"])
     \/ /\ Server.gen < MaxGen
        /\ usLog' = Append(usLog, [Server EXCEPT !.phase = "deleting",
                                                 !.gen = @ + 1])
  /\ UNCHANGED <<bindLog, cfgLog, srcLog, kids, kidsChanged, adminRoles,
                 overtook, queued, worker, spent>>

EditPlatformConfig ==
  /\ Room(cfgLog) /\ Spend("settings")
  /\ \E g \in Gpus \ {Current(cfgLog)} : cfgLog' = Append(cfgLog, g)
  /\ UNCHANGED <<usLog, bindLog, srcLog, kids, kidsChanged, adminRoles,
                 overtook, queued, worker>>

EditPullSecret ==
  /\ Room(srcLog) /\ Spend("settings")
  /\ \E k \in (Keys \union {NoKey}) \ {Current(srcLog)} :
       srcLog' = Append(srcLog, k)
  /\ UNCHANGED <<usLog, bindLog, cfgLog, kids, kidsChanged, adminRoles,
                 overtook, queued, worker>>

\* Somebody deletes a child by hand.
RemoveChild ==
  /\ Spend("drift")
  /\ \/ SetKids([kids EXCEPT !.ResourceQuota = NoKids.ResourceQuota])
     \/ SetKids([kids EXCEPT !.Access = 0])
     \/ SetKids([kids EXCEPT !.PullSecret = NoKey])
  /\ UNCHANGED <<usLog, bindLog, cfgLog, srcLog, adminRoles, overtook, queued,
                 worker>>

\* Mutant of CollectChildren: the bindings carry no ownerReference.
CollectChildrenLeavingBindings ==
  /\ Server.phase # "live" /\ Room(bindLog)
  /\ kids # NoKids
  /\ SetKids(NoKids)
  /\ UNCHANGED <<usLog, bindLog, cfgLog, srcLog, adminRoles, overtook, queued,
                 worker, spent>>

\* Garbage collection follows the ownerReferences applyOwned has set.
CollectChildren ==
  /\ Server.phase # "live" /\ Room(bindLog)
  /\ kids # NoKids \/ Current(bindLog) # {}
  /\ SetKids(NoKids)
  /\ bindLog' = Write(bindLog, {})
  /\ UNCHANGED <<usLog, cfgLog, srcLog, adminRoles, overtook, queued, worker,
                 spent>>

FinishDeletion ==
  /\ Server.phase = "deleting" /\ Room(usLog)
  /\ kids = NoKids /\ Current(bindLog) = {}
  /\ usLog' = Append(usLog, [Server EXCEPT !.phase = "gone"])
  /\ UNCHANGED <<bindLog, cfgLog, srcLog, kids, kidsChanged, adminRoles,
                 overtook, queued, worker, spent>>

\* The manager dies between two calls and another one starts, perhaps with
\* other ClusterRoles to grant: it lists, and enqueues every object it finds.
ManagerRestarts ==
  /\ Spend("crash")
  /\ usLog' = Relist(usLog)
  /\ bindLog' = Relist(bindLog)
  /\ cfgLog' = Relist(cfgLog)
  /\ srcLog' = Relist(srcLog)
  /\ kidsChanged' = FALSE
  /\ adminRoles' \in SUBSET ClusterRoles
  /\ queued' = (\/ Server.phase # "gone"
                \/ kids # NoKids
                \/ Current(bindLog) # {})
  /\ ToIdle
  /\ UNCHANGED <<kids, overtook>>

-----------------------------------------------------------------------------
Init ==
  /\ \E admin \in BOOLEAN :
       usLog = <<[phase |-> "live", gen |-> 1, admin |-> admin,
                  status |-> NoStatus]>>
  /\ bindLog = <<{}>>
  /\ cfgLog = <<SomeGpu>>
  /\ \E k \in Keys \union {NoKey} : srcLog = <<k>>
  /\ kids = NoKids
  /\ kidsChanged = FALSE
  /\ overtook = FALSE
  /\ adminRoles \in SUBSET ClusterRoles
  /\ queued = TRUE
  /\ pc = "idle" /\ snap = NoUserSpace /\ plan = NoPlan /\ at = 0
  /\ failed = FALSE
  /\ spent = {}

WorkerStep ==
  \/ Reconcile
  \/ MarkPending
  \/ ReadInputs
  \/ applyChildren
  \/ GrantRoles
  \/ WithdrawRoles
  \/ patchStatus

Deliver ==
  \/ DeliverUserSpace
  \/ DeliverBinding
  \/ DeliverChild
  \/ DeliverPlatformConfig
  \/ DeliverPullSecret

Outside ==
  \/ EditSpec
  \/ DeleteUserSpace
  \/ EditPlatformConfig
  \/ EditPullSecret
  \/ RemoveChild
  \/ CollectChildren
  \/ FinishDeletion

Trouble ==
  \/ ReconcileFails
  \/ PatchStatusFails
  \/ ManagerRestarts

Next == WorkerStep \/ Deliver \/ Outside \/ Trouble

Spec == Init /\ [][Next]_vars

\* The worker keeps running, each watch keeps delivering, and the garbage
\* collector keeps collecting.
Fairness ==
  /\ WF_vars(WorkerStep)
  /\ WF_vars(DeliverUserSpace)
  /\ WF_vars(DeliverBinding)
  /\ WF_vars(DeliverChild)
  /\ WF_vars(DeliverPlatformConfig)
  /\ WF_vars(DeliverPullSecret)
  /\ WF_vars(CollectChildren)

FairSpec == Spec /\ Fairness

-----------------------------------------------------------------------------
(* Properties *)

LogTypeOK ==
  /\ usLog \in Seq(UserSpaces) /\ Len(usLog) > 0
  /\ bindLog \in Seq(SUBSET ClusterRoles) /\ Len(bindLog) > 0
  /\ cfgLog \in Seq(Gpus) /\ Len(cfgLog) > 0
  /\ srcLog \in Seq(Keys \union {NoKey}) /\ Len(srcLog) > 0

WorkerTypeOK ==
  /\ pc \in {"idle", "pending", "read", "apply", "grant", "sweep", "mark"}
  /\ snap \in UserSpaces
  /\ plan \in Plans
  /\ at \in 0 .. Len(Children)
  /\ pc = "apply" => at > 0
  /\ failed \in BOOLEAN

\* Every variable holds a value the program can give it.
TypeOK ==
  /\ LogTypeOK
  /\ WorkerTypeOK
  /\ kids \in Kids
  /\ kidsChanged \in BOOLEAN
  /\ overtook \in BOOLEAN
  /\ adminRoles \in SUBSET ClusterRoles
  /\ queued \in BOOLEAN
  /\ spent \subseteq Allowed

\* Nothing is queued, under way or on its way to a cache.
Quiet ==
  /\ ~queued /\ pc = "idle" /\ ~kidsChanged
  /\ Len(usLog) = 1 /\ Len(bindLog) = 1
  /\ Len(cfgLog) = 1 /\ Len(srcLog) = 1

\* reconcileRoleGrants: "Both directions matter equally".  At rest the bindings
\* are exactly those of the current role and of the flag the manager runs with:
\* no promotion is missed, and no binding of a former administrator, or to a
\* ClusterRole since dropped from the flag, survives.
RestGrantsMatchRole ==
  Quiet /\ Server.phase = "live" => Current(bindLog) = Granted(Server)

\* At rest the bindings are right, the children are there, built from the
\* current spec and the current pull Secret, and the status says so, whatever
\* failed or was removed before.
RestIsProvisioned ==
  Quiet /\ Server.phase = "live" =>
    /\ RestGrantsMatchRole
    /\ kids.Namespace # 0
    /\ kids.ResourceQuota.gen = Server.gen
    /\ kids.Access = Server.gen
    /\ Current(srcLog) # NoKey => kids.PullSecret = Current(srcLog)
    /\ Server.status = [namespace |-> TRUE, state |-> "Ready",
                        og |-> Server.gen,
                        cond |-> [reason |-> "NamespaceProvisioned",
                                  og |-> Server.gen]]

\* patchStatus: a Ready of the current generation, on a namespace nobody has
\* tampered with, with no status write whose answer was lost and no reconcile
\* that got ahead of the cache, is backed by children of the current spec and,
\* until the manager is told to grant others, by the bindings of the role.
ReadyBackedByChildren ==
  (/\ Server.phase = "live" /\ spent \intersect {"drift", "fault"} = {} /\ ~overtook
   /\ Server.status.cond = [reason |-> "NamespaceProvisioned",
                            og |-> Server.gen])
    => /\ kids.Namespace # 0
       /\ kids.ResourceQuota.gen = Server.gen
       /\ kids.Access = Server.gen
       /\ "crash" \notin spent => Granted(Server) \subseteq Current(bindLog)

\* "observedGeneration is set from the generation actually acted on, so a stale
\* Ready is detectable" (the comment on patchStatus): where nothing has failed,
\* a Ready of the current generation is not over a quota of an older one.
StaleReadyIsDetectable ==
  (/\ Server.phase = "live" /\ spent = {}
   /\ Server.status.state = "Ready" /\ Server.status.og = Server.gen
   /\ Server.status.cond = [reason |-> "NamespaceProvisioned",
                            og |-> Server.gen])
    => kids.ResourceQuota.gen = Server.gen

\* The reconciler does not retrigger itself for ever.
ComesToRest == <>[]Quiet

\* What a stale reconcile puts back after the UserSpace was deleted does not
\* stay, the cluster-wide bindings least of all.
NothingIsLeftBehind ==
  [](Server.phase = "gone" => <>[](kids = NoKids /\ Current(bindLog) = {}))

=============================================================================
