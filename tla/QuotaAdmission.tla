--------------------------- MODULE QuotaAdmission ---------------------------
(***************************************************************************)
(* The allowance of one UserSpace: the validating webhook that measures    *)
(* Workspaces against it (internal/webhook/workspace_validator.go,         *)
(* quota_usage.go), the ResourceQuota and LimitRange the UserSpace         *)
(* controller writes behind it (internal/controller/userspace_objects.go), *)
(* and the pods and volume claims Kubernetes admits against those.         *)
(*                                                                         *)
(* The webhook reads the manager's cache, which trails the API server by   *)
(* the events under way, and the API server persists a write some time     *)
(* after its review, so reviews race with one another.                     *)
(*                                                                         *)
(* CPU, memory and GPU are measured alike, on running Workspaces only, and *)
(* are one quantity here, compute.  What Kubernetes charges for a pod is   *)
(* that of CPU and memory; nobody adds to the GPUs that are asked for.     *)
(***************************************************************************)
EXTENDS Integers, Sequences, FiniteSetsExt

CONSTANTS Names,          \* the Workspaces the namespace may hold
          None,           \* no such object, or nothing under way
          Shapes,         \* what a Workspace may ask for: a request, a limit (0 is
                          \* none), and an image that runs as root or not
          DefaultRequest, \* what the LimitRange gives a container without a request
          Storage,        \* the sizes of a home volume
          Quotas,         \* the allowances an administrator may set
          MaxPending,     \* bound on the events under way to the cache
          MaxQuotaEdits   \* bound on the administrator's edits

Specs == [running : BOOLEAN, ask : Shapes, storage : Storage]

Allowances == [workspaces : Nat, compute : Nat, storage : Nat]

ASSUME NamesAssumption == IsFiniteSet(Names)
ASSUME NoneAssumption == None \notin Specs /\ None \notin Quotas
ASSUME QuantityAssumption ==
  /\ Shapes \subseteq [request : Nat, limit : Nat, root : BOOLEAN]
  /\ Storage \subseteq Nat \ {0}
  /\ DefaultRequest \in Nat \ {0}
  /\ Quotas \subseteq Allowances
ASSUME BoundAssumption == MaxPending \in Nat \ {0} /\ MaxQuotaEdits \in Nat

VARIABLES
  objs,       \* the Workspaces the API server holds
  cache,      \* the Workspaces the manager's cache holds
  pending,    \* watch events under way to the cache
  quota,      \* UserSpace.spec.quota, as the API server holds it
  seenQuota,  \* the same, as the cache holds it
  claimed,    \* the cached UserSpace carries status.namespace
  hard,       \* ResourceQuota.spec.hard
  reviews,    \* per Workspace, the write the webhook has let through
  pods,       \* per Workspace, the request of its pod; 0 is no pod
  claims,     \* per Workspace, the size of its home volume claim; 0 is none
  edits,      \* how often the administrator has changed the quota
  excused     \* history: a write raced with another, or the quota was cut

vars == <<objs, cache, pending, quota, seenQuota, claimed, hard, reviews, pods,
          claims, edits, excused>>

Objects == [Names -> Specs \union {None}]

-----------------------------------------------------------------------------
(* quotaUsage *)

\* What one Workspace adds: a stopped one only its storage, and any its request.
RunningOf(ws) == IF ws # None /\ ws.running THEN 1 ELSE 0
ComputeOf(ws) == IF ws # None /\ ws.running THEN ws.ask.request ELSE 0

\* Mutant of StorageOf: a stopped Workspace is taken to need no volume.
StorageOfRunning(ws) == IF ws # None /\ ws.running THEN ws.storage ELSE 0

StorageOf(ws) == IF ws # None THEN ws.storage ELSE 0

\* The sum over the Workspaces.
Total(f) == MapThenSumSet(LAMBDA n : f[n], Names)

\* quotaUsage.add over every Workspace of the namespace.
Usage(os) ==
  [workspaces |-> Total([n \in Names |-> RunningOf(os[n])]),
   compute    |-> Total([n \in Names |-> ComputeOf(os[n])]),
   storage    |-> Total([n \in Names |-> StorageOf(os[n])])]

Within(usage, q) ==
  /\ usage.workspaces <= q.workspaces
  /\ usage.compute <= q.compute
  /\ usage.storage <= q.storage

\* userSpaceFor: the UserSpace is found by its status.namespace.
UserSpaceFor == IF claimed THEN seenQuota ELSE None

\* Mutants of ValidateQuota: an object that already exists is not measured
\* (what the code used to do); its old values are counted beside the new ones.
ValidateQuotaOnCreateOnly(n, new, os, q) ==
  q # None /\ os[n] = None => Within(Usage([os EXCEPT ![n] = new]), q)

ValidateQuotaAsAddition(n, new, os, q) ==
  q # None =>
    LET before == Usage(os)
        after  == Usage([m \in Names |-> IF m = n THEN new ELSE None])
    IN Within([workspaces |-> before.workspaces + after.workspaces,
               compute    |-> before.compute + after.compute,
               storage    |-> before.storage + after.storage], q)

\* The object being written replaces what the cache has of it.  A namespace no
\* UserSpace claims has no allowance to enforce.
ValidateQuota(n, new, os, q) ==
  q # None => Within(Usage([os EXCEPT ![n] = new]), q)

-----------------------------------------------------------------------------
(* Writes of Workspaces *)

\* What the CRD's rules let an update change: the storage is immutable.
Updates(old) == {new \in Specs : new.storage = old.storage} \ {old}

Writes(old) == IF old = None THEN Specs ELSE Updates(old)

\* ValidateCreate and ValidateUpdate: the webhook answers from the cache.
Review(n, new) ==
  /\ reviews[n] = None
  /\ new \in Writes(objs[n])
  /\ ValidateQuota(n, new, cache, UserSpaceFor)
  /\ reviews' = [reviews EXCEPT ![n] =
       [old |-> objs[n], new |-> new, others |-> [cache EXCEPT ![n] = None],
        allowance |-> UserSpaceFor]]
  /\ UNCHANGED <<objs, cache, pending, quota, seenQuota, claimed, hard, pods,
                 claims, edits, excused>>

\* The review saw the other Workspaces and the quota as they are now.
Exact(n) ==
  /\ reviews[n].allowance = quota
  /\ \A m \in Names \ {n} : reviews[n].others[m] = objs[m]

Persist(n, new) ==
  /\ Len(pending) < MaxPending
  /\ objs' = [objs EXCEPT ![n] = new]
  /\ pending' = Append(pending, [name |-> n, spec |-> new])

\* The API server persists an admitted write, unless the object has changed
\* since: then the writer is told of the conflict.
Commit(n) ==
  /\ reviews[n] # None
  /\ reviews' = [reviews EXCEPT ![n] = None]
  /\ \/ /\ objs[n] = reviews[n].old
        /\ Persist(n, reviews[n].new)
        /\ excused' = (excused \/ ~Exact(n))
     \/ /\ objs[n] # reviews[n].old
        /\ UNCHANGED <<objs, pending, excused>>
  /\ UNCHANGED <<cache, quota, seenQuota, claimed, hard, pods, claims, edits>>

\* The webhook is not registered for the delete verb.
DeleteWorkspace(n) ==
  /\ objs[n] # None
  /\ Persist(n, None)
  /\ UNCHANGED <<cache, quota, seenQuota, claimed, hard, reviews, pods, claims,
                 edits, excused>>

Deliver ==
  /\ pending # <<>>
  /\ cache' = [cache EXCEPT ![Head(pending).name] = Head(pending).spec]
  /\ pending' = Tail(pending)
  /\ UNCHANGED <<objs, quota, seenQuota, claimed, hard, reviews, pods, claims,
                 edits, excused>>

-----------------------------------------------------------------------------
(* The UserSpace *)

\* An administrator changes the allowance; nothing measures what is already
\* there against it.
SetQuota(q) ==
  /\ edits < MaxQuotaEdits
  /\ q # quota
  /\ quota' = q
  /\ edits' = edits + 1
  /\ excused' = (excused \/ ~Within(Usage(objs), q))
  /\ UNCHANGED <<objs, cache, pending, seenQuota, claimed, hard, reviews, pods,
                 claims>>

DeliverUserSpace ==
  /\ ~(claimed /\ seenQuota = quota)
  /\ seenQuota' = quota
  /\ claimed' = TRUE
  /\ UNCHANGED <<objs, cache, pending, quota, hard, reviews, pods, claims,
                 edits, excused>>

\* applyChildren writes the ResourceQuota from the cached UserSpace.
ReconcileUserSpace ==
  /\ hard # seenQuota
  /\ hard' = seenQuota
  /\ UNCHANGED <<objs, cache, pending, quota, seenQuota, claimed, reviews,
                 pods, claims, edits, excused>>

-----------------------------------------------------------------------------
(* What Kubernetes admits against the ResourceQuota *)

\* What a container that asks for so much is charged: Kubernetes takes a missing
\* request from the limit, and the LimitRange fills in what is then missing.
ContainerRequest(request, limit) ==
  IF request # 0 THEN request ELSE IF limit # 0 THEN limit ELSE DefaultRequest

\* podSpec and applyPasswdFix: a pod that does not run as root has an init container
\* that asks for nothing.  The ResourceQuota charges the greater of the two.
RequestOf(ws) ==
  LET main == ContainerRequest(ws.ask.request, ws.ask.limit)
      init == ContainerRequest(0, 0)
  IN  IF ws.ask.root \/ main >= init THEN main ELSE init

WantsPod(n) == objs[n] # None /\ objs[n].running

ClaimFits(n) == Total(claims) + objs[n].storage <= hard.storage

PodFits(n) == Total(pods) + RequestOf(objs[n]) <= hard.compute

\* The StatefulSet controller creates the claim of the template, then the pod.
\* A claim left behind by a Workspace of the same name is used again.
CreateClaim(n) ==
  /\ WantsPod(n) /\ claims[n] = 0 /\ ClaimFits(n)
  /\ claims' = [claims EXCEPT ![n] = objs[n].storage]
  /\ UNCHANGED <<objs, cache, pending, quota, seenQuota, claimed, hard,
                 reviews, pods, edits, excused>>

CreatePod(n) ==
  /\ WantsPod(n) /\ claims[n] # 0 /\ pods[n] = 0 /\ PodFits(n)
  /\ pods' = [pods EXCEPT ![n] = RequestOf(objs[n])]
  /\ UNCHANGED <<objs, cache, pending, quota, seenQuota, claimed, hard,
                 reviews, claims, edits, excused>>

\* A pod of a Workspace that is stopped, deleted or resized.
PodIsStale(n) == pods[n] # 0 /\ ~(WantsPod(n) /\ pods[n] = RequestOf(objs[n]))

StopPod(n) ==
  /\ PodIsStale(n)
  /\ pods' = [pods EXCEPT ![n] = 0]
  /\ UNCHANGED <<objs, cache, pending, quota, seenQuota, claimed, hard,
                 reviews, claims, edits, excused>>

\* The UI deletes the claim only on request, after the Workspace.
DeleteClaim(n) ==
  /\ objs[n] = None /\ claims[n] # 0 /\ pods[n] = 0
  /\ claims' = [claims EXCEPT ![n] = 0]
  /\ UNCHANGED <<objs, cache, pending, quota, seenQuota, claimed, hard,
                 reviews, pods, edits, excused>>

-----------------------------------------------------------------------------
\* The namespace has just been provisioned: the Role that lets the owner write
\* Workspaces is applied after the ResourceQuota, and may be there before the
\* cache shows the webhook the UserSpace's status.namespace.
Init ==
  /\ objs = [n \in Names |-> None]
  /\ cache = objs
  /\ pending = <<>>
  /\ quota \in Quotas
  /\ seenQuota = quota
  /\ claimed = FALSE
  /\ hard = quota
  /\ reviews = [n \in Names |-> None]
  /\ pods = [n \in Names |-> 0]
  /\ claims = [n \in Names |-> 0]
  /\ edits = 0
  /\ excused = FALSE

Next ==
  \/ \E n \in Names, new \in Specs : Review(n, new)
  \/ \E n \in Names : Commit(n)
  \/ \E n \in Names : DeleteWorkspace(n)
  \/ Deliver
  \/ \E q \in Quotas : SetQuota(q)
  \/ DeliverUserSpace
  \/ ReconcileUserSpace
  \/ \E n \in Names : CreateClaim(n)
  \/ \E n \in Names : CreatePod(n)
  \/ \E n \in Names : StopPod(n)
  \/ \E n \in Names : DeleteClaim(n)

Spec == Init /\ [][Next]_vars

-----------------------------------------------------------------------------
(* Properties *)

Reviews == [old : Specs \union {None}, new : Specs, others : Objects,
            allowance : Quotas \union {None}]

\* Every variable holds a value the program can give it.
TypeOK ==
  /\ objs \in Objects /\ cache \in Objects
  /\ pending \in Seq([name : Names, spec : Specs \union {None}])
  /\ quota \in Quotas /\ seenQuota \in Quotas /\ hard \in Quotas
  /\ claimed \in BOOLEAN /\ excused \in BOOLEAN
  /\ reviews \in [Names -> Reviews \union {None}]
  /\ pods \in [Names -> Nat] /\ claims \in [Names -> Nat]
  /\ edits \in Nat

\* validateQuota's comment: "two simultaneous creates can both pass".  Nothing
\* else takes a namespace over its allowance: without a write that raced with
\* another, a quota the webhook had not seen, or a cut below what was there,
\* the Workspaces are within the quota.
OverQuotaNeedsRace == ~excused => Within(Usage(objs), quota)

\* The webhook, reading the Workspaces as they are.
Refused(n, new) == ~ValidateQuota(n, new, objs, quota)

Stopped(ws) == [ws EXCEPT !.running = FALSE]

\* "A resize is measured as a change, not an addition": an owner who is within
\* the quota is never refused a stop or a smaller request, whatever the mix of
\* running and stopped Workspaces around it.
ShrinkIsAdmitted ==
  Within(Usage(objs), quota) =>
    \A n \in Names : objs[n] # None =>
      /\ ~Refused(n, Stopped(objs[n]))
      /\ \A ask \in Shapes :
           ask.request <= objs[n].ask.request => ~Refused(n, [objs[n] EXCEPT !.ask = ask])

\* Nothing is under way, and the pods and the ResourceQuota are up to date.
Settled ==
  /\ pending = <<>> /\ \A n \in Names : reviews[n] = None
  /\ claimed /\ seenQuota = quota /\ hard = quota
  /\ \A n \in Names : ~PodIsStale(n)

\* Every claim is the one its Workspace asks for.
NoClaimLeftBehind ==
  \A n \in Names :
    claims[n] # 0 => objs[n] # None /\ claims[n] = objs[n].storage

EveryClaimFits == \A n \in Names : WantsPod(n) /\ claims[n] = 0 => ClaimFits(n)

EveryPodFits == \A n \in Names : WantsPod(n) /\ pods[n] = 0 => PodFits(n)

\* The request is stated, and the init container does not ask for more.
StatesWhatIsCharged(ws) ==
  ws.ask.request # 0 /\ (ws.ask.root \/ ws.ask.request >= DefaultRequest)

\* buildResourceQuota behind validateQuota: where no claim outlives its Workspace,
\* no volume that the webhook admitted without a race is refused, and where every
\* running Workspace states a request that the fix-passwd container stays within,
\* no pod is.
BackstopAgrees ==
  Settled /\ ~excused /\ NoClaimLeftBehind =>
    /\ EveryClaimFits
    /\ \/ \E n \in Names : WantsPod(n) /\ ~StatesWhatIsCharged(objs[n])
       \/ EveryPodFits

\* The comment of quotaUsage.add, "the number the user is shown here and the number
\* that stops their pod agree": where every running Workspace states its request,
\* no pod that the webhook admitted without a race is refused.
NumbersAgree ==
  /\ Settled /\ ~excused /\ NoClaimLeftBehind
  /\ \A n \in Names : WantsPod(n) => objs[n].ask.request # 0
  => EveryPodFits

=============================================================================
