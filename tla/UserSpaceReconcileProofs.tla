---------------------- MODULE UserSpaceReconcileProofs ----------------------
(***************************************************************************)
(* What holds of UserSpaceReconcile for every bound on generations, lag    *)
(* and trouble and for every set of ClusterRoles, pull Secrets and GPU     *)
(* names: when a Ready is backed, and what there is once it comes to rest. *)
(***************************************************************************)
EXTENDS UserSpaceReconcile, TLAPS

(* What the operations on a WatchLog leave at its two ends and in between. *)

\* A log with a version appended: its cache is the same and its server holds
\* the new version.
LEMMA AppendFacts ==
  ASSUME NEW S, NEW log \in Seq(S), Len(log) > 0, NEW v \in S
  PROVE  /\ Append(log, v) \in Seq(S)
         /\ Len(Append(log, v)) = Len(log) + 1
         /\ Len(Append(log, v)) > 0
         /\ Current(Append(log, v)) = v
         /\ Cached(Append(log, v)) = Cached(log)
         /\ \A i \in 1 .. Len(log) : Append(log, v)[i] = log[i]
  BY DEF Current, Cached

\* A write: as appending, or nothing when the version is the server's own.
LEMMA WriteFacts ==
  ASSUME NEW S, NEW log \in Seq(S), Len(log) > 0, NEW v \in S
  PROVE  /\ Write(log, v) \in Seq(S)
         /\ Len(Write(log, v)) > 0
         /\ Current(Write(log, v)) = v
         /\ Cached(Write(log, v)) = Cached(log)
         /\ \A i \in 1 .. Len(Write(log, v)) :
              \/ i \in 1 .. Len(log) /\ Write(log, v)[i] = log[i]
              \/ i = Len(Write(log, v)) /\ Write(log, v)[i] = v
  <1>1. CASE v = Current(log)
    BY <1>1 DEF Write, Current, Cached
  <1>2. CASE v # Current(log)
    BY <1>2, AppendFacts DEF Write
  <1> QED BY <1>1, <1>2

\* A delivery: the server's version stays and the cache moves on.
LEMMA TailFacts ==
  ASSUME NEW S, NEW log \in Seq(S), Len(log) > 1
  PROVE  /\ Tail(log) \in Seq(S)
         /\ Len(Tail(log)) = Len(log) - 1
         /\ Len(Tail(log)) > 0
         /\ Current(Tail(log)) = Current(log)
         /\ Cached(Tail(log)) = log[2]
         /\ \A i \in 1 .. Len(Tail(log)) : Tail(log)[i] = log[i + 1]
  BY DEF Current, Cached

\* A restart: the cache holds what the server does.
LEMMA RelistFacts ==
  ASSUME NEW S, NEW log \in Seq(S), Len(log) > 0
  PROVE  /\ Relist(log) \in Seq(S)
         /\ Len(Relist(log)) = 1
         /\ Current(Relist(log)) = Current(log)
         /\ Cached(Relist(log)) = Current(log)
         /\ Relist(log)[1] = Current(log)
  BY DEF Current, Cached, Relist

\* Both ends of a log are versions of the object.
LEMMA EndsFacts ==
  ASSUME NEW S, NEW log \in Seq(S), Len(log) > 0
  PROVE  /\ Current(log) \in S
         /\ Cached(log) \in S
         /\ Cached(log) = log[1]
         /\ Current(log) = log[Len(log)]
         /\ Len(log) \in Nat
  BY DEF Current, Cached

\* A write that leaves one version was no change.
LEMMA WriteStays ==
  ASSUME NEW S, NEW log \in Seq(S), Len(log) > 0, NEW v, Len(Write(log, v)) = 1
  PROVE  /\ Write(log, v) = log /\ v = Current(log)
         /\ Len(log) = 1 /\ Cached(log) = Current(log)
  <1>1. Len(log) \in Nat
    OBVIOUS
  <1>2. CASE v = Current(log)
    <2>1. Write(log, v) = log /\ Len(log) = 1
      BY <1>2 DEF Write
    <2>2. Cached(log) = Current(log)
      BY <2>1, EndsFacts
    <2> QED BY <1>2, <2>1, <2>2
  <1>3. CASE v # Current(log)
    <2>1. Write(log, v) = Append(log, v)
      BY <1>3 DEF Write
    <2>2. Len(Append(log, v)) = Len(log) + 1
      OBVIOUS
    <2> QED BY <1>1, <2>1, <2>2
  <1> QED BY <1>2, <1>3

-----------------------------------------------------------------------------
(* The inductive invariants *)

\* The reconcile has read the UserSpace it acts on.
Acting == pc \in {"read", "apply", "grant", "sweep", "mark"}

\* It has written every child, or every child and every binding.
Applied == pc \in {"grant", "sweep"} \/ (pc = "mark" /\ ~failed)
Bound == pc = "sweep" \/ (pc = "mark" /\ ~failed)

\* The UserSpace was never deleted: nothing has collected its children, nor
\* has anybody removed one or a write failed.
Undisturbed ==
  Server.phase = "live" /\ spent \intersect {"drift", "fault"} = {}

Backed(g) ==
  kids.Namespace # 0 /\ kids.ResourceQuota.gen = g /\ kids.Access = g

\* Generations go up along the log, and a generation has one spec.
VersionsOrdered ==
  \A i, j \in 1 .. Len(usLog) : i <= j =>
    /\ usLog[i].gen <= usLog[j].gen
    /\ usLog[i].gen = usLog[j].gen => usLog[i].admin = usLog[j].admin

\* What the worker acts on is a version the server has had.
SnapshotIsOlder ==
  pc # "idle" => /\ snap.gen <= Server.gen
                 /\ snap.gen = Server.gen => snap.admin = Server.admin

\* No condition is ahead of the spec.
ConditionsAreOlder ==
  \A i \in 1 .. Len(usLog) : usLog[i].status.cond.og <= usLog[i].gen

\* What the cache will be given is no older than what was acted on.
NothingOlderComes ==
  Acting /\ ~overtook =>
    \A i \in 1 .. Len(usLog) : usLog[i].status.state # "None" => snap.gen <= usLog[i].gen

\* What this reconcile has written is still there.
WrittenSoFar ==
  Undisturbed =>
    /\ pc = "apply" => /\ at > 1 => kids.Namespace # 0
                       /\ at > 2 => kids.ResourceQuota.gen = snap.gen
                       /\ at > 3 => kids.Access = snap.gen
    /\ Applied => Backed(snap.gen)
    /\ Bound => Granted(snap) \subseteq Current(bindLog)

\* Ready for the current generation, on grounds that are all its own.
Ready ==
  /\ Undisturbed /\ ~overtook
  /\ Server.status.cond = [reason |-> "NamespaceProvisioned", og |-> Server.gen]

\* Under such a Ready every reconcile to come is of the current generation.
ReadyStays ==
  Ready =>
    /\ Backed(Server.gen)
    /\ "crash" \notin spent => Granted(Server) \subseteq Current(bindLog)
    /\ Acting => snap.gen = Server.gen
    /\ \A i \in 1 .. Len(usLog) :
         usLog[i].status.state # "None" => usLog[i].gen = Server.gen

ReadyInv ==
  /\ VersionsOrdered /\ SnapshotIsOlder /\ ConditionsAreOlder
  /\ NothingOlderComes /\ WrittenSoFar /\ ReadyStays

\* No event is under way and no key queued: nothing would make the manager
\* look again at what the worker has passed.
Still ==
  /\ Server.phase = "live"
  /\ ~queued /\ ~kidsChanged
  /\ Len(usLog) = 1 /\ Len(bindLog) = 1 /\ Len(srcLog) = 1

\* The source pull Secret, if there is one, has its copy.
Mirrored == Current(srcLog) # NoKey => kids.PullSecret = Current(srcLog)

\* What the worker has passed is then as it left it: it wrote nothing new, or
\* there would be an event, and it read the latest of everything.
RestInv ==
  Still =>
    /\ pc # "idle" => snap = Server
    /\ pc = "apply" => /\ plan.pull = Current(srcLog)
                       /\ at > 1 => kids.Namespace # 0
                       /\ at > 2 => kids.ResourceQuota.gen = snap.gen
                       /\ at > 3 => kids.Access = snap.gen
    /\ Applied => Backed(snap.gen) /\ Mirrored
    /\ pc = "sweep" => Granted(snap) \subseteq Current(bindLog)
    /\ pc = "mark" /\ ~failed => Granted(snap) = Current(bindLog)
    /\ pc = "idle" => /\ Backed(Server.gen) /\ Mirrored
                      /\ Granted(Server) = Current(bindLog)
                      /\ Server.status = [namespace |-> TRUE, state |-> "Ready",
                                          og |-> Server.gen,
                                          cond |-> [reason |-> "NamespaceProvisioned",
                                                    og |-> Server.gen]]

-----------------------------------------------------------------------------
(* Types *)

\* What stands for nothing there has the type of what could be there.
LEMMA EmptyTypes ==
  /\ SomeGpu \in Gpus /\ NoStatus \in Statuses /\ NoUserSpace \in UserSpaces
  /\ NoPlan \in Plans /\ NoKids \in Kids
  /\ 0 \in Generations /\ 1 \in Generations
  <1>1. SomeGpu \in Gpus
    BY GpusAssumption DEF SomeGpu
  <1>2. 0 \in Generations /\ 1 \in Generations
    BY MaxGenAssumption DEF Generations
  <1>3. NoStatus \in Statuses
    BY <1>2 DEF NoStatus, Statuses, States, Reasons
  <1>4. NoUserSpace \in UserSpaces
    BY <1>2, <1>3 DEF NoUserSpace, UserSpaces
  <1>5. NoPlan \in Plans /\ NoKids \in Kids
    BY <1>1, <1>2 DEF NoPlan, Plans, NoKids, Kids
  <1> QED BY <1>1, <1>2, <1>3, <1>4, <1>5

\* Both ends of every log have the type of its versions.
LEMMA VersionTypes ==
  ASSUME LogTypeOK
  PROVE  /\ Server \in UserSpaces /\ Cached(usLog) \in UserSpaces
         /\ Current(bindLog) \subseteq ClusterRoles /\ Cached(bindLog) \subseteq ClusterRoles
         /\ Cached(cfgLog) \in Gpus /\ Current(cfgLog) \in Gpus
         /\ Cached(srcLog) \in Keys \union {NoKey} /\ Current(srcLog) \in Keys \union {NoKey}
  BY EndsFacts DEF LogTypeOK, Server

\* A status patch changes the status of the server's UserSpace alone, and its
\* condition only to one for the generation that was acted on.
LEMMA PatchFacts ==
  ASSUME TypeOK, NEW state \in States, NEW reason \in Reasons
  PROVE  LET v == PatchedUserSpace(state, reason) IN
         /\ v \in UserSpaces
         /\ v.phase = Server.phase /\ v.gen = Server.gen /\ v.admin = Server.admin
         /\ v.status = MergePatch(Server.status, snap.status, Desired(snap, state, reason))
         /\ \/ v.status.cond = Server.status.cond
            \/ reason # "None" /\ v.status.cond = [reason |-> reason, og |-> snap.gen]
  <1>1. Server \in UserSpaces /\ snap \in UserSpaces
    BY VersionTypes DEF TypeOK, WorkerTypeOK
  <1>2. Server.status \in Statuses /\ snap.status \in Statuses /\ snap.gen \in Generations
    BY <1>1 DEF UserSpaces
  <1> DEFINE d == Desired(snap, state, reason)
             m == MergePatch(Server.status, snap.status, d)
             v == PatchedUserSpace(state, reason)
  <1>3. /\ d \in Statuses
        /\ d.cond = IF reason = "None" THEN snap.status.cond
                    ELSE [reason |-> reason, og |-> snap.gen]
    BY <1>2 DEF Desired, Statuses
  <1>4. /\ m \in Statuses
        /\ m.cond = Patched(Server.status.cond, snap.status.cond, d.cond)
    <2> HIDE DEF d
    <2> QED BY <1>2, <1>3 DEF MergePatch, Patched, Statuses
  <1>5. \/ m.cond = Server.status.cond
        \/ reason # "None" /\ m.cond = [reason |-> reason, og |-> snap.gen]
    BY <1>3, <1>4 DEF Patched
  <1>6. v = [Server EXCEPT !.status = m]
    BY DEF PatchedUserSpace
  <1>7. /\ v \in UserSpaces /\ v.status = m
        /\ v.phase = Server.phase /\ v.gen = Server.gen /\ v.admin = Server.admin
    <2> HIDE DEF m, v
    <2> QED BY <1>1, <1>4, <1>6 DEF UserSpaces
  <1> QED BY <1>5, <1>7

\* So does what a reconcile writes at its end.
LEMMA OutcomeFacts ==
  ASSUME TypeOK
  PROVE  /\ Outcome \in UserSpaces
         /\ Outcome.phase = Server.phase /\ Outcome.gen = Server.gen
         /\ Outcome.admin = Server.admin
         /\ \/ Outcome.status.cond = Server.status.cond
            \/ /\ Outcome.status.cond.og = snap.gen
               /\ failed => Outcome.status.cond.reason = "ProvisioningFailed"
         /\ PatchedUserSpace("Pending", "None") \in UserSpaces
  <1>1. {"Failed", "Ready", "Pending"} \subseteq States
    BY DEF States
  <1>2. {"None", "NamespaceProvisioned", "ProvisioningFailed"} \subseteq Reasons
    BY DEF Reasons
  <1>3. PatchedUserSpace("Pending", "None") \in UserSpaces
    BY <1>1, <1>2, PatchFacts
  <1>4. CASE failed
    <2>1. Outcome = PatchedUserSpace("Failed", "ProvisioningFailed")
      BY <1>4 DEF Outcome
    <2>2. /\ Outcome \in UserSpaces
          /\ Outcome.phase = Server.phase /\ Outcome.gen = Server.gen
          /\ Outcome.admin = Server.admin
          /\ \/ Outcome.status.cond = Server.status.cond
             \/ Outcome.status.cond = [reason |-> "ProvisioningFailed", og |-> snap.gen]
      BY <1>1, <1>2, <2>1, PatchFacts
    <2> QED BY <1>3, <2>2
  <1>5. CASE ~failed
    <2>1. Outcome = PatchedUserSpace("Ready", "NamespaceProvisioned")
      BY <1>5 DEF Outcome
    <2>2. /\ Outcome \in UserSpaces
          /\ Outcome.phase = Server.phase /\ Outcome.gen = Server.gen
          /\ Outcome.admin = Server.admin
          /\ \/ Outcome.status.cond = Server.status.cond
             \/ Outcome.status.cond = [reason |-> "NamespaceProvisioned", og |-> snap.gen]
      BY <1>1, <1>2, <2>1, PatchFacts
    <2> QED BY <1>3, <1>5, <2>2
  <1> QED BY <1>4, <1>5

\* An edit or a deletion keeps the status, and keeps the spec unless it takes
\* the next generation.
LEMMA UserVersion ==
  ASSUME TypeOK, EditSpec \/ DeleteUserSpace \/ FinishDeletion
  PROVE  \E v \in UserSpaces :
           /\ usLog' = Append(usLog, v)
           /\ v.status = Server.status
           /\ v.phase = "live" => Server.phase = "live"
           /\ \/ v.gen = Server.gen + 1
              \/ v.gen = Server.gen /\ v.admin = Server.admin
  <1>1. Server \in UserSpaces
    BY VersionTypes DEF TypeOK
  <1>2. Server.gen < MaxGen => Server.gen + 1 \in Generations
    BY <1>1, MaxGenAssumption DEF UserSpaces, Generations
  <1>3. CASE EditSpec
    <2>1. PICK admin \in BOOLEAN :
            usLog' = Append(usLog, [Server EXCEPT !.gen = @ + 1, !.admin = admin])
      BY <1>3 DEF EditSpec
    <2> DEFINE v == [Server EXCEPT !.gen = Server.gen + 1, !.admin = admin]
    <2>2. /\ v \in UserSpaces /\ v.status = Server.status
          /\ v.phase = Server.phase /\ v.gen = Server.gen + 1
      BY <1>1, <1>2, <1>3 DEF UserSpaces, EditSpec
    <2> QED BY <2>1, <2>2
  <1>4. CASE DeleteUserSpace \/ FinishDeletion
    <2> DEFINE u == [Server EXCEPT !.phase = "gone"]
               w == [Server EXCEPT !.phase = "deleting", !.gen = Server.gen + 1]
    <2>1. \/ usLog' = Append(usLog, u)
          \/ Server.gen < MaxGen /\ usLog' = Append(usLog, w)
      BY <1>4 DEF DeleteUserSpace, FinishDeletion
    <2>2. /\ u \in UserSpaces /\ u.status = Server.status /\ u.phase = "gone"
          /\ u.gen = Server.gen /\ u.admin = Server.admin
      BY <1>1 DEF UserSpaces
    <2>3. Server.gen < MaxGen =>
            /\ w \in UserSpaces /\ w.status = Server.status
            /\ w.phase = "deleting" /\ w.gen = Server.gen + 1
      BY <1>1, <1>2 DEF UserSpaces
    <2> QED BY <2>1, <2>2, <2>3
  <1> QED BY <1>3, <1>4

\* applyChildren goes through four.
LEMMA ChildrenAre ==
  /\ Len(Children) = 4
  /\ Children[1] = "Namespace" /\ Children[2] = "ResourceQuota"
  /\ Children[3] = "Access" /\ Children[4] = "PullSecret"
  BY DEF Children

\* Each way the worker goes on keeps the types of its variables.
LEMMA WorkerMoves ==
  /\ ToIdle => WorkerTypeOK'
  /\ \A err \in BOOLEAN : WorkerTypeOK /\ ToMark(err) => WorkerTypeOK'
  /\ \A step \in {"pending", "read", "grant", "sweep"}, us \in UserSpaces :
       WorkerTypeOK /\ ToStep(step, us) => WorkerTypeOK'
  <1>1. ASSUME ToIdle
        PROVE  WorkerTypeOK'
    <2>1. pc' = "idle" /\ at' = 0 /\ snap' \in UserSpaces /\ plan' \in Plans
      BY <1>1, EmptyTypes DEF ToIdle
    <2>2. failed' \in BOOLEAN
      BY <1>1 DEF ToIdle
    <2> QED BY <2>1, <2>2, ChildrenAre DEF WorkerTypeOK
  <1>2. ASSUME NEW err \in BOOLEAN, WorkerTypeOK, ToMark(err)
        PROVE  WorkerTypeOK'
    BY <1>2, EmptyTypes, ChildrenAre DEF ToMark, WorkerTypeOK
  <1>3. ASSUME NEW step \in {"pending", "read", "grant", "sweep"}, NEW us \in UserSpaces,
               WorkerTypeOK, ToStep(step, us)
        PROVE  WorkerTypeOK'
    BY <1>3 DEF ToStep, WorkerTypeOK
  <1> QED BY <1>1, <1>2, <1>3

\* A child that is written, whichever it is, is a child.
LEMMA WithChildType ==
  ASSUME NEW old \in Kids, NEW child, NEW us \in UserSpaces, NEW p \in Plans
  PROVE  WithChild(old, child, us, p) \in Kids
  <1>1. us.gen \in Generations /\ 1 \in Generations /\ p.gpu \in Gpus
        /\ p.pull \in Keys \union {NoKey}
    BY EmptyTypes DEF UserSpaces, Plans
  <1>2. [old EXCEPT !.Namespace = 1] \in Kids
    BY <1>1 DEF Kids
  <1>3. [old EXCEPT !.ResourceQuota = [gen |-> us.gen, gpu |-> p.gpu]] \in Kids
    BY <1>1 DEF Kids
  <1>4. [old EXCEPT !.Access = us.gen] \in Kids
    BY <1>1 DEF Kids
  <1>5. [old EXCEPT !.PullSecret = IF p.pull = NoKey THEN old.PullSecret ELSE p.pull] \in Kids
    BY <1>1 DEF Kids
  <1> QED BY <1>2, <1>3, <1>4, <1>5 DEF WithChild

\* Every step of the worker keeps the types.
LEMMA WorkerStepType == TypeOK /\ WorkerStep => TypeOK'
  <1> SUFFICES ASSUME TypeOK, WorkerStep PROVE TypeOK'
    OBVIOUS
  <1> USE VersionTypes DEF TypeOK
  <1>0. snap \in UserSpaces /\ plan \in Plans
    BY DEF WorkerTypeOK
  <1>1. CASE Reconcile
    <2>1. WorkerTypeOK'
      BY <1>1, WorkerMoves DEF Reconcile
    <2> QED BY <1>1, <2>1 DEF Reconcile, LogTypeOK
  <1>2. CASE MarkPending
    <2>1. Write(usLog, PatchedUserSpace("Pending", "None")) \in Seq(UserSpaces)
          /\ Len(Write(usLog, PatchedUserSpace("Pending", "None"))) > 0
      BY OutcomeFacts, WriteFacts DEF LogTypeOK
    <2>2. WorkerTypeOK'
      BY <1>2, OutcomeFacts, WorkerMoves DEF MarkPending
    <2>3. queued' \in BOOLEAN /\ overtook' \in BOOLEAN
      BY <1>2 DEF MarkPending
    <2> QED BY <1>2, <2>1, <2>2, <2>3 DEF MarkPending, LogTypeOK
  <1>3. CASE ReadInputs
    <2>1. WorkerTypeOK'
      BY <1>3, ChildrenAre DEF ReadInputs, WorkerTypeOK, Plans
    <2> QED BY <1>3, <2>1 DEF ReadInputs, LogTypeOK
  <1>4. CASE applyChildren
    <2>1. WithChild(kids, Children[at], snap, plan) \in Kids
      BY <1>0, WithChildType
    <2>2. kids' \in Kids /\ kidsChanged' \in BOOLEAN
      BY <1>4, <2>1 DEF applyChildren, ApplyChild, SetKids
    <2>3. WorkerTypeOK'
      <3>1. CASE NamespaceMissing
        BY <1>4, <3>1, WorkerMoves DEF applyChildren, ApplyChild
      <3>2. CASE ~NamespaceMissing
        <4>1. /\ at' \in 0 .. 4 /\ pc' \in {"apply", "grant"} /\ (pc' = "apply" => at' > 0)
          <5>1. at \in 1 .. 4 /\ pc = "apply"
            BY <1>4, ChildrenAre DEF applyChildren, WorkerTypeOK
          <5>2. \/ at < 4 /\ at' = at + 1 /\ pc' = pc
                \/ at = 4 /\ at' = 0 /\ pc' = "grant"
            BY <1>4, <3>2, ChildrenAre DEF applyChildren, ApplyChild
          <5> QED BY <5>1, <5>2
        <4>2. UNCHANGED <<snap, plan, failed>>
          BY <1>4, <3>2 DEF applyChildren, ApplyChild
        <4> QED BY <4>1, <4>2, ChildrenAre DEF WorkerTypeOK
      <3> QED BY <3>1, <3>2
    <2> QED BY <1>4, <2>2, <2>3 DEF applyChildren, LogTypeOK
  <1>5. CASE GrantRoles
    <2> DEFINE b == Current(bindLog) \union Granted(snap)
    <2>1. b \in SUBSET ClusterRoles
      BY DEF Granted
    <2>2. Write(bindLog, b) \in Seq(SUBSET ClusterRoles) /\ Len(Write(bindLog, b)) > 0
      BY <2>1, WriteFacts DEF LogTypeOK
    <2>3. WorkerTypeOK'
      BY <1>0, <1>5, WorkerMoves DEF GrantRoles
    <2> QED BY <1>5, <2>2, <2>3 DEF GrantRoles, LogTypeOK
  <1>6. CASE WithdrawRoles
    <2> DEFINE b == Current(bindLog) \ Withdrawn(snap)
    <2>1. b \in SUBSET ClusterRoles
      OBVIOUS
    <2>2. Write(bindLog, b) \in Seq(SUBSET ClusterRoles) /\ Len(Write(bindLog, b)) > 0
      BY <2>1, WriteFacts DEF LogTypeOK
    <2>3. WorkerTypeOK'
      BY <1>6, WorkerMoves DEF WithdrawRoles
    <2> QED BY <1>6, <2>2, <2>3 DEF WithdrawRoles, LogTypeOK
  <1>7. CASE patchStatus
    <2>1. Write(usLog, Outcome) \in Seq(UserSpaces) /\ Len(Write(usLog, Outcome)) > 0
      BY OutcomeFacts, WriteFacts DEF LogTypeOK
    <2>2. WorkerTypeOK' /\ queued' \in BOOLEAN
      BY <1>7, WorkerMoves DEF patchStatus
    <2> QED BY <1>7, <2>1, <2>2 DEF patchStatus, LogTypeOK
  <1> QED BY <1>1, <1>2, <1>3, <1>4, <1>5, <1>6, <1>7 DEF WorkerStep

\* A delivery keeps the types.
LEMMA DeliverType == TypeOK /\ Deliver => TypeOK'
  <1> SUFFICES ASSUME TypeOK, Deliver PROVE TypeOK'
    OBVIOUS
  <1> USE DEF Deliver, DeliverUserSpace, DeliverBinding, DeliverChild, DeliverPlatformConfig,
              DeliverPullSecret
  <1>1. LogTypeOK'
    BY TailFacts DEF TypeOK, LogTypeOK
  <1>2. WorkerTypeOK'
    BY DEF TypeOK, WorkerTypeOK, worker
  <1>3. kidsChanged' \in BOOLEAN /\ queued' \in BOOLEAN
    BY DEF TypeOK
  <1> QED BY <1>1, <1>2, <1>3 DEF TypeOK

\* Users, administrators and Kubernetes keep the types.
LEMMA OutsideType == TypeOK /\ Outside => TypeOK'
  <1> SUFFICES ASSUME TypeOK, Outside PROVE TypeOK'
    OBVIOUS
  <1> USE DEF TypeOK
  <1>1. CASE EditSpec \/ DeleteUserSpace \/ FinishDeletion
    <2>1. usLog' \in Seq(UserSpaces) /\ Len(usLog') > 0
      BY <1>1, UserVersion, AppendFacts DEF LogTypeOK
    <2>2. WorkerTypeOK'
      BY <1>1 DEF EditSpec, DeleteUserSpace, FinishDeletion, worker, WorkerTypeOK
    <2> QED BY <1>1, <2>1, <2>2 DEF EditSpec, DeleteUserSpace, FinishDeletion, LogTypeOK
  <1>2. CASE EditPlatformConfig \/ EditPullSecret
    <2>1. WorkerTypeOK'
      BY <1>2 DEF EditPlatformConfig, EditPullSecret, worker, WorkerTypeOK
    <2>2. LogTypeOK'
      <3>1. CASE EditPlatformConfig
        <4>1. PICK g \in Gpus : cfgLog' = Append(cfgLog, g)
          BY <3>1 DEF EditPlatformConfig
        <4>2. cfgLog' \in Seq(Gpus) /\ Len(cfgLog') > 0
          BY <4>1, AppendFacts DEF LogTypeOK
        <4> QED BY <3>1, <4>2 DEF EditPlatformConfig, LogTypeOK
      <3>2. CASE EditPullSecret
        <4>1. PICK k \in Keys \union {NoKey} : srcLog' = Append(srcLog, k)
          BY <3>2 DEF EditPullSecret
        <4>2. srcLog' \in Seq(Keys \union {NoKey}) /\ Len(srcLog') > 0
          BY <4>1, AppendFacts DEF LogTypeOK
        <4> QED BY <3>2, <4>2 DEF EditPullSecret, LogTypeOK
      <3> QED BY <1>2, <3>1, <3>2
    <2> QED BY <1>2, <2>1, <2>2 DEF EditPlatformConfig, EditPullSecret, Spend
  <1>3. CASE RemoveChild
    <2>1. WorkerTypeOK'
      BY <1>3 DEF RemoveChild, worker, WorkerTypeOK
    <2>2. /\ [kids EXCEPT !.ResourceQuota = NoKids.ResourceQuota] \in Kids
          /\ [kids EXCEPT !.Access = 0] \in Kids
          /\ [kids EXCEPT !.PullSecret = NoKey] \in Kids
      BY EmptyTypes DEF Kids
    <2>3. kids' \in Kids /\ kidsChanged' \in BOOLEAN
      BY <1>3, <2>2 DEF RemoveChild, SetKids
    <2> QED BY <1>3, <2>1, <2>3 DEF RemoveChild, Spend, LogTypeOK
  <1>4. CASE CollectChildren
    <2>1. WorkerTypeOK'
      BY <1>4 DEF CollectChildren, worker, WorkerTypeOK
    <2>2. Write(bindLog, {}) \in Seq(SUBSET ClusterRoles) /\ Len(Write(bindLog, {})) > 0
      <3>1. /\ bindLog \in Seq(SUBSET ClusterRoles) /\ Len(bindLog) > 0
            /\ {} \in SUBSET ClusterRoles
        BY DEF LogTypeOK
      <3> QED BY <3>1, WriteFacts
    <2>3. kids' \in Kids /\ kidsChanged' \in BOOLEAN
      BY <1>4, EmptyTypes DEF CollectChildren, SetKids
    <2> QED BY <1>4, <2>1, <2>2, <2>3 DEF CollectChildren, LogTypeOK
  <1> QED BY <1>1, <1>2, <1>3, <1>4 DEF Outside

\* Faults and restarts keep the types.
LEMMA TroubleType == TypeOK /\ Trouble => TypeOK'
  <1> SUFFICES ASSUME TypeOK, Trouble PROVE TypeOK'
    OBVIOUS
  <1> USE VersionTypes DEF TypeOK
  <1>1. CASE ReconcileFails
    <2>1. WorkerTypeOK'
      BY <1>1, WorkerMoves DEF ReconcileFails
    <2>2. bindLog' \in Seq(SUBSET ClusterRoles) /\ Len(bindLog') > 0
      <3>1. \A b \in SUBSET ClusterRoles :
              Write(bindLog, b) \in Seq(SUBSET ClusterRoles) /\ Len(Write(bindLog, b)) > 0
        BY WriteFacts DEF LogTypeOK
      <3>2. \/ bindLog' = bindLog
            \/ \E b \in SUBSET ClusterRoles : bindLog' = Write(bindLog, b)
        BY <1>1 DEF ReconcileFails, Granted
      <3> QED BY <3>1, <3>2 DEF LogTypeOK
    <2> QED BY <1>1, <2>1, <2>2 DEF ReconcileFails, Spend, LogTypeOK
  <1>2. CASE PatchStatusFails
    <2>1. WorkerTypeOK'
      BY <1>2, WorkerMoves DEF PatchStatusFails
    <2>2. \A v \in UserSpaces : Write(usLog, v) \in Seq(UserSpaces) /\ Len(Write(usLog, v)) > 0
      BY WriteFacts DEF LogTypeOK
    <2>3. usLog' \in Seq(UserSpaces) /\ Len(usLog') > 0
      BY <1>2, <2>2, OutcomeFacts DEF PatchStatusFails, LogTypeOK
    <2> QED BY <1>2, <2>1, <2>3 DEF PatchStatusFails, Spend, LogTypeOK
  <1>3. CASE ManagerRestarts
    <2>1. WorkerTypeOK' /\ queued' \in BOOLEAN
      BY <1>3, WorkerMoves DEF ManagerRestarts
    <2>2. LogTypeOK'
      BY <1>3, RelistFacts DEF ManagerRestarts, LogTypeOK
    <2> QED BY <1>3, <2>1, <2>2 DEF ManagerRestarts, Spend
  <1> QED BY <1>1, <1>2, <1>3 DEF Trouble

\* The types hold at first.
LEMMA TypeInit == Init => TypeOK
  <1> SUFFICES ASSUME Init PROVE TypeOK
    OBVIOUS
  <1>1. usLog \in Seq(UserSpaces) /\ Len(usLog) > 0
    <2>1. PICK admin \in BOOLEAN :
            usLog = <<[phase |-> "live", gen |-> 1, admin |-> admin, status |-> NoStatus]>>
      BY DEF Init
    <2> QED BY <2>1, EmptyTypes DEF UserSpaces
  <1>2. /\ bindLog \in Seq(SUBSET ClusterRoles) /\ Len(bindLog) > 0
        /\ cfgLog \in Seq(Gpus) /\ Len(cfgLog) > 0
    BY EmptyTypes DEF Init
  <1>3. srcLog \in Seq(Keys \union {NoKey}) /\ Len(srcLog) > 0
    <2>1. PICK k \in Keys \union {NoKey} : srcLog = <<k>>
      BY DEF Init
    <2> QED BY <2>1
  <1>4. WorkerTypeOK
    <2>1. pc = "idle" /\ at = 0 /\ snap \in UserSpaces /\ plan \in Plans
      BY EmptyTypes DEF Init
    <2>2. failed \in BOOLEAN
      BY DEF Init
    <2> QED BY <2>1, <2>2, ChildrenAre DEF WorkerTypeOK
  <1> QED BY <1>1, <1>2, <1>3, <1>4, EmptyTypes DEF Init, TypeOK, LogTypeOK

\* Every step keeps them.
LEMMA TypeStep == TypeOK /\ [Next]_vars => TypeOK'
  <1> SUFFICES ASSUME TypeOK, [Next]_vars PROVE TypeOK'
    OBVIOUS
  <1>1. CASE UNCHANGED vars
    BY <1>1 DEF vars, TypeOK, LogTypeOK, WorkerTypeOK
  <1>2. CASE Next
    BY <1>2, WorkerStepType, DeliverType, OutsideType, TroubleType DEF Next
  <1> QED BY <1>1, <1>2

-----------------------------------------------------------------------------
(* What a step does to the log of the UserSpace *)

\* Generations are numbers.
LEMMA GenerationsAreInt ==
  ASSUME NEW v \in UserSpaces
  PROVE  v.gen \in Int /\ v.status.cond.og \in Int
  BY DEF UserSpaces, Statuses, Generations

\* A version that may follow the server's.
Follows(v) ==
  /\ v \in UserSpaces
  /\ v.gen >= Server.gen /\ (v.gen = Server.gen => v.admin = Server.admin)
  /\ v.status.cond.og <= v.gen
  /\ v.phase = "live" => Server.phase = "live"

\* The log goes on from the server's version and forgets only from its head.
LogMoved ==
  /\ VersionsOrdered' /\ ConditionsAreOlder'
  /\ Server'.gen >= Server.gen /\ (Server'.gen = Server.gen => Server'.admin = Server.admin)
  /\ Server'.phase = "live" => Server.phase = "live"
  /\ \A i \in 1 .. Len(usLog') :
       usLog'[i] = Server' \/ \E k \in 1 .. Len(usLog) : usLog'[i] = usLog[k]

\* A version is added.
LEMMA LogGrows ==
  ASSUME TypeOK, VersionsOrdered, ConditionsAreOlder, NEW v, Follows(v),
         usLog' = Append(usLog, v) \/ usLog' = Write(usLog, v)
  PROVE  LogMoved /\ Server' = v
  <1> DEFINE n == Len(usLog)
  <1>1. usLog \in Seq(UserSpaces) /\ n > 0 /\ n \in Nat /\ v \in UserSpaces /\ Server = usLog[n]
    BY EndsFacts DEF TypeOK, LogTypeOK, Follows, Server
  <1>2. \A i \in 1 .. n : /\ usLog[i].gen <= Server.gen
                          /\ usLog[i].gen = Server.gen => usLog[i].admin = Server.admin
    BY <1>1 DEF VersionsOrdered
  <1>3. CASE usLog' = usLog /\ v = Server
    <2>1. Server' = Server
      BY <1>3 DEF Server
    <2>2. VersionsOrdered' /\ ConditionsAreOlder'
      BY <1>3 DEF VersionsOrdered, ConditionsAreOlder
    <2>3. Server.gen \in Int
      BY <1>1, GenerationsAreInt
    <2> QED BY <1>3, <2>1, <2>2, <2>3 DEF LogMoved
  <1>4. CASE usLog' = Append(usLog, v)
    <2>1. /\ Len(usLog') = n + 1 /\ usLog'[n + 1] = v
          /\ \A i \in 1 .. n : usLog'[i] = usLog[i]
      BY <1>1, <1>4
    <2>2. Server' = v
      BY <1>1, <2>1 DEF Server, Current
    <2>3. \A i \in 1 .. n + 1 : usLog'[i] \in UserSpaces
      BY <1>1, <2>1
    <2>4. \A i \in 1 .. n + 1 : usLog'[i].gen \in Int
      BY <2>3, GenerationsAreInt
    <2>5. Server.gen \in Int /\ v.gen \in Int
      BY <1>1, GenerationsAreInt
    <2>6. ASSUME NEW i \in 1 .. n + 1, NEW j \in 1 .. n + 1, i <= j
          PROVE  /\ usLog'[i].gen <= usLog'[j].gen
                 /\ usLog'[i].gen = usLog'[j].gen => usLog'[i].admin = usLog'[j].admin
      <3>1. CASE j \in 1 .. n
        BY <1>1, <2>1, <2>6, <3>1 DEF VersionsOrdered
      <3>2. CASE j = n + 1 /\ i = n + 1
        BY <2>4, <3>2
      <3>3. CASE j = n + 1 /\ i \in 1 .. n
        BY <1>2, <2>1, <2>4, <2>5, <3>3 DEF Follows
      <3> QED BY <1>1, <3>1, <3>2, <3>3
    <2>7. VersionsOrdered'
      BY <2>1, <2>6 DEF VersionsOrdered
    <2>8. ConditionsAreOlder'
      BY <1>1, <2>1 DEF ConditionsAreOlder, Follows
    <2>9. \A i \in 1 .. Len(usLog') :
            usLog'[i] = Server' \/ \E k \in 1 .. Len(usLog) : usLog'[i] = usLog[k]
      BY <1>1, <2>1, <2>2
    <2> QED BY <2>2, <2>7, <2>8, <2>9 DEF LogMoved, Follows
  <1> QED BY <1>3, <1>4 DEF Write, Server

\* Versions are delivered, or listed again.
LEMMA LogShrinks ==
  ASSUME TypeOK, VersionsOrdered, ConditionsAreOlder,
         \/ Len(usLog) > 1 /\ usLog' = Tail(usLog)
         \/ usLog' = Relist(usLog)
         \/ usLog' = usLog
  PROVE  LogMoved /\ Server' = Server
  <1>1. /\ usLog \in Seq(UserSpaces) /\ Len(usLog) > 0 /\ Len(usLog) \in Nat
        /\ Server = usLog[Len(usLog)] /\ Server.gen \in Int
    <2>1. Server.gen \in Int
      BY VersionTypes, GenerationsAreInt DEF TypeOK
    <2> QED BY <2>1, EndsFacts DEF TypeOK, LogTypeOK, Server
  <1>2. CASE usLog' = usLog
    <2>1. Server' = Server /\ VersionsOrdered' /\ ConditionsAreOlder'
      BY <1>2 DEF Server, VersionsOrdered, ConditionsAreOlder
    <2> QED BY <1>1, <1>2, <2>1 DEF LogMoved
  <1>3. CASE Len(usLog) > 1 /\ usLog' = Tail(usLog)
    <2>1. /\ Server' = Server /\ Len(usLog') = Len(usLog) - 1
          /\ \A i \in 1 .. Len(usLog') : usLog'[i] = usLog[i + 1] /\ i + 1 \in 1 .. Len(usLog)
      BY <1>1, <1>3, TailFacts DEF Server
    <2>2. ASSUME NEW i \in 1 .. Len(usLog'), NEW j \in 1 .. Len(usLog'), i <= j
          PROVE  /\ usLog'[i].gen <= usLog'[j].gen
                 /\ usLog'[i].gen = usLog'[j].gen => usLog'[i].admin = usLog'[j].admin
      <3>1. i + 1 <= j + 1 /\ i + 1 \in 1 .. Len(usLog) /\ j + 1 \in 1 .. Len(usLog)
        BY <2>1, <2>2
      <3>2. usLog'[i] = usLog[i + 1] /\ usLog'[j] = usLog[j + 1]
        BY <2>1
      <3> QED BY <3>1, <3>2 DEF VersionsOrdered
    <2>3. VersionsOrdered'
      BY <2>2 DEF VersionsOrdered
    <2>4. ConditionsAreOlder'
      BY <1>1, <2>1 DEF ConditionsAreOlder
    <2> QED BY <1>1, <2>1, <2>3, <2>4 DEF LogMoved
  <1>4. CASE usLog' = Relist(usLog)
    <2>1. Server' = Server /\ Len(usLog') = 1 /\ usLog'[1] = Server
      BY <1>1, <1>4, RelistFacts DEF Server
    <2>2. Len(usLog) \in 1 .. Len(usLog)
      BY <1>1
    <2>3. VersionsOrdered'
      BY <1>1, <2>1 DEF VersionsOrdered
    <2>4. ConditionsAreOlder'
      BY <1>1, <2>1, <2>2 DEF ConditionsAreOlder
    <2> QED BY <1>1, <2>1, <2>3, <2>4 DEF LogMoved
  <1> QED BY <1>2, <1>3, <1>4

\* What the worker writes follows the server's version.
LEMMA PatchesFollow ==
  ASSUME TypeOK, VersionsOrdered, ConditionsAreOlder, SnapshotIsOlder, pc # "idle"
  PROVE  /\ Follows(Outcome)
         /\ Follows(PatchedUserSpace("Pending", "None"))
         /\ PatchedUserSpace("Pending", "None").gen = Server.gen
         /\ PatchedUserSpace("Pending", "None").admin = Server.admin
         /\ PatchedUserSpace("Pending", "None").phase = Server.phase
         /\ PatchedUserSpace("Pending", "None").status.cond = Server.status.cond
  <1>1. /\ Server \in UserSpaces /\ Server.gen \in Int /\ snap.gen <= Server.gen
        /\ Server.status.cond.og <= Server.gen
    <2>1. Len(usLog) \in 1 .. Len(usLog) /\ Server = usLog[Len(usLog)]
      BY EndsFacts DEF TypeOK, LogTypeOK, Server
    <2>2. Server \in UserSpaces
      BY VersionTypes DEF TypeOK
    <2> QED BY <2>1, <2>2, GenerationsAreInt DEF SnapshotIsOlder, ConditionsAreOlder
  <1>2. Follows(Outcome)
    BY <1>1, OutcomeFacts DEF Follows
  <1>3. "Pending" \in States /\ "None" \in Reasons
    BY DEF States, Reasons
  <1>4. LET v == PatchedUserSpace("Pending", "None") IN
        /\ v \in UserSpaces /\ v.status.cond = Server.status.cond
        /\ v.phase = Server.phase /\ v.gen = Server.gen /\ v.admin = Server.admin
    BY <1>3, PatchFacts
  <1>5. Follows(PatchedUserSpace("Pending", "None"))
    BY <1>1, <1>4 DEF Follows
  <1> QED BY <1>2, <1>4, <1>5

\* Every step moves the log on, and only a reconcile that ends, or one whose
\* answer is lost, sets a condition.
LEMMA LogStep ==
  ASSUME TypeOK, VersionsOrdered, ConditionsAreOlder, SnapshotIsOlder, [Next]_vars
  PROVE  /\ LogMoved
         /\ \/ Server'.status.cond = Server.status.cond
            \/ "fault" \in spent'
            \/ patchStatus /\ Server' = Outcome
  <1>1. CASE \/ UNCHANGED vars \/ Reconcile \/ ReadInputs \/ applyChildren \/ GrantRoles
             \/ WithdrawRoles \/ DeliverBinding \/ DeliverChild \/ DeliverPlatformConfig
             \/ DeliverPullSecret \/ EditPlatformConfig \/ EditPullSecret \/ RemoveChild
             \/ CollectChildren \/ ReconcileFails
    <2>1. usLog' = usLog
      BY <1>1 DEF vars, Reconcile, ReadInputs, applyChildren, GrantRoles, WithdrawRoles,
                  DeliverBinding, DeliverChild, DeliverPlatformConfig, DeliverPullSecret,
                  EditPlatformConfig, EditPullSecret, RemoveChild, CollectChildren,
                  ReconcileFails
    <2> QED BY <2>1, LogShrinks
  <1>2. CASE DeliverUserSpace \/ ManagerRestarts
    BY <1>2, LogShrinks DEF DeliverUserSpace, ManagerRestarts
  <1>3. CASE MarkPending
    <2>1. CASE Server.phase # "gone"
      <3>1. pc # "idle" /\ usLog' = Write(usLog, PatchedUserSpace("Pending", "None"))
        BY <1>3, <2>1 DEF MarkPending
      <3> QED BY <3>1, PatchesFollow, LogGrows
    <2>2. CASE Server.phase = "gone"
      BY <1>3, <2>2, LogShrinks DEF MarkPending
    <2> QED BY <2>1, <2>2
  <1>4. CASE patchStatus
    <2>1. CASE Server.phase # "gone"
      <3>1. pc # "idle" /\ usLog' = Write(usLog, Outcome)
        BY <1>4, <2>1 DEF patchStatus
      <3> QED BY <1>4, <3>1, PatchesFollow, LogGrows
    <2>2. CASE Server.phase = "gone"
      BY <1>4, <2>2, LogShrinks DEF patchStatus
    <2> QED BY <2>1, <2>2
  <1>5. CASE PatchStatusFails
    <2>1. "fault" \in spent'
      BY <1>5 DEF PatchStatusFails, Spend
    <2>2. /\ pc # "idle"
          /\ \/ usLog' = usLog
             \/ usLog' = Write(usLog, Outcome)
             \/ usLog' = Write(usLog, PatchedUserSpace("Pending", "None"))
      BY <1>5 DEF PatchStatusFails
    <2> QED BY <2>1, <2>2, PatchesFollow, LogGrows, LogShrinks
  <1>6. CASE EditSpec \/ DeleteUserSpace \/ FinishDeletion
    <2>1. PICK v \in UserSpaces :
            /\ usLog' = Append(usLog, v)
            /\ v.status = Server.status
            /\ v.phase = "live" => Server.phase = "live"
            /\ v.gen = Server.gen + 1 \/ (v.gen = Server.gen /\ v.admin = Server.admin)
      BY <1>6, UserVersion
    <2>2. Server.gen \in Int /\ Server.status.cond.og <= Server.gen /\ v.gen \in Int
          /\ Server.status.cond.og \in Int
      <3>1. Len(usLog) \in 1 .. Len(usLog) /\ Server = usLog[Len(usLog)]
        BY EndsFacts DEF TypeOK, LogTypeOK, Server
      <3> QED BY <3>1, VersionTypes, GenerationsAreInt DEF TypeOK, ConditionsAreOlder
    <2>3. Follows(v)
      BY <2>1, <2>2 DEF Follows
    <2>4. LogMoved /\ Server' = v
      BY <2>1, <2>3, LogGrows
    <2> QED BY <2>1, <2>4
  <1> QED BY <1>1, <1>2, <1>3, <1>4, <1>5, <1>6
          DEF Next, WorkerStep, Deliver, Outside, Trouble

-----------------------------------------------------------------------------
(* What a step does to the rest *)

\* applyChildren writes one child, the next one.
LEMMA ApplyFacts ==
  ASSUME TypeOK, applyChildren
  PROVE  /\ pc = "apply" /\ at \in 1 .. 4 /\ snap' = snap
         /\ UNCHANGED <<usLog, bindLog, srcLog, adminRoles, overtook, queued, spent>>
         /\ \/ pc' = "mark" /\ failed' /\ kids' = kids /\ kidsChanged' = kidsChanged
            \/ /\ failed' = failed /\ plan' = plan
               /\ kidsChanged' = (kidsChanged \/ kids' # kids)
               /\ \/ at < 4 /\ at' = at + 1 /\ pc' = "apply"
                  \/ at = 4 /\ at' = 0 /\ pc' = "grant"
               /\ IF at = 1 THEN kids'.Namespace # 0 ELSE kids'.Namespace = kids.Namespace
               /\ kids'.ResourceQuota.gen =
                    IF at = 2 THEN snap.gen ELSE kids.ResourceQuota.gen
               /\ kids'.Access = IF at = 3 THEN snap.gen ELSE kids.Access
               /\ kids'.PullSecret = IF at = 4 /\ plan.pull # NoKey THEN plan.pull
                                     ELSE kids.PullSecret
  <1>1. pc = "apply" /\ at \in 1 .. 4
    BY ChildrenAre DEF applyChildren, TypeOK, WorkerTypeOK
  <1>2. UNCHANGED <<usLog, bindLog, srcLog, adminRoles, overtook, queued, spent>>
    BY DEF applyChildren
  <1>3. CASE NamespaceMissing
    BY <1>1, <1>2, <1>3 DEF applyChildren, ApplyChild, ToMark
  <1>4. CASE ~NamespaceMissing
    <2>1. /\ failed' = failed /\ plan' = plan /\ snap' = snap
          /\ kidsChanged' = (kidsChanged \/ kids' # kids)
          /\ kids' = WithChild(kids, Children[at], snap, plan)
      BY <1>4 DEF applyChildren, ApplyChild, SetKids
    <2>2. \/ at < 4 /\ at' = at + 1 /\ pc' = "apply"
          \/ at = 4 /\ at' = 0 /\ pc' = "grant"
      BY <1>1, <1>4, ChildrenAre DEF applyChildren, ApplyChild
    <2>3. kids \in Kids
      BY DEF TypeOK
    <2>4. /\ IF at = 1 THEN kids'.Namespace # 0 ELSE kids'.Namespace = kids.Namespace
          /\ kids'.ResourceQuota.gen =
               IF at = 2 THEN snap.gen ELSE kids.ResourceQuota.gen
          /\ kids'.Access = IF at = 3 THEN snap.gen ELSE kids.Access
          /\ kids'.PullSecret = IF at = 4 /\ plan.pull # NoKey THEN plan.pull
                                ELSE kids.PullSecret
      <3>1. CASE at = 1
        BY <2>1, <2>3, <3>1, ChildrenAre DEF WithChild, Kids
      <3>2. CASE at = 2
        BY <2>1, <2>3, <3>2, ChildrenAre DEF WithChild, Kids
      <3>3. CASE at = 3
        BY <2>1, <2>3, <3>3, ChildrenAre DEF WithChild, Kids
      <3>4. CASE at = 4
        BY <2>1, <2>3, <3>4, ChildrenAre DEF WithChild, Kids
      <3> QED BY <1>1, <3>1, <3>2, <3>3, <3>4
    <2> QED BY <1>1, <1>2, <2>1, <2>2, <2>4
  <1> QED BY <1>3, <1>4

\* What happened stays in the history, and only a restart changes the flag.
LEMMA HistoryStep ==
  ASSUME TypeOK, [Next]_vars
  PROVE  /\ spent \subseteq spent'
         /\ overtook => overtook'
         /\ adminRoles' = adminRoles \/ "crash" \in spent'
  <1>1. spent \subseteq spent'
    BY DEF vars, Next, WorkerStep, Deliver, Outside, Trouble, Reconcile, MarkPending,
           ReadInputs, applyChildren, GrantRoles, WithdrawRoles, patchStatus,
           DeliverUserSpace, DeliverBinding, DeliverChild, DeliverPlatformConfig,
           DeliverPullSecret, EditSpec, DeleteUserSpace, EditPlatformConfig,
           EditPullSecret, RemoveChild, CollectChildren, FinishDeletion,
           ReconcileFails, PatchStatusFails, ManagerRestarts, Spend
  <1>2. adminRoles' = adminRoles \/ "crash" \in spent'
    BY DEF vars, Next, WorkerStep, Deliver, Outside, Trouble, Reconcile, MarkPending,
           ReadInputs, applyChildren, GrantRoles, WithdrawRoles, patchStatus,
           DeliverUserSpace, DeliverBinding, DeliverChild, DeliverPlatformConfig,
           DeliverPullSecret, EditSpec, DeleteUserSpace, EditPlatformConfig,
           EditPullSecret, RemoveChild, CollectChildren, FinishDeletion,
           ReconcileFails, PatchStatusFails, ManagerRestarts, Spend
  <1>3. overtook => overtook'
    <2>1. CASE MarkPending
      BY <2>1 DEF MarkPending
    <2>2. CASE ~MarkPending
      <3>1. overtook' = overtook
        BY <2>2
           DEF vars, Next, WorkerStep, Deliver, Outside, Trouble, Reconcile,
           ReadInputs, applyChildren, GrantRoles, WithdrawRoles, patchStatus,
           DeliverUserSpace, DeliverBinding, DeliverChild, DeliverPlatformConfig,
           DeliverPullSecret, EditSpec, DeleteUserSpace, EditPlatformConfig,
           EditPullSecret, RemoveChild, CollectChildren, FinishDeletion,
           ReconcileFails, PatchStatusFails, ManagerRestarts
      <3> QED BY <3>1
    <2> QED BY <2>1, <2>2
  <1> QED BY <1>1, <1>2, <1>3

\* Only the first two calls of a reconcile choose what it acts on.
LEMMA SnapshotStep ==
  ASSUME TypeOK, [Next]_vars, ~Reconcile, ~MarkPending
  PROVE  /\ pc' # "idle" => pc # "idle" /\ snap' = snap
         /\ Acting' => Acting
         /\ overtook' = overtook
  <1>1. CASE applyChildren
    BY <1>1, ApplyFacts DEF Acting
  <1>2. CASE ReadInputs \/ GrantRoles \/ WithdrawRoles
    BY <1>2 DEF ReadInputs, GrantRoles, WithdrawRoles, ToStep, ToMark, Acting
  <1>3. CASE patchStatus \/ PatchStatusFails \/ ManagerRestarts
    BY <1>3 DEF patchStatus, PatchStatusFails, ManagerRestarts, ToIdle, Acting
  <1>4. CASE ReconcileFails
    BY <1>4 DEF ReconcileFails, ToMark, Acting
  <1>5. CASE UNCHANGED vars \/ Deliver \/ Outside
    BY <1>5 DEF vars, worker, Deliver, Outside, DeliverUserSpace, DeliverBinding,
                DeliverChild, DeliverPlatformConfig, DeliverPullSecret, EditSpec,
                DeleteUserSpace, EditPlatformConfig, EditPullSecret, RemoveChild,
                CollectChildren, FinishDeletion, Acting
  <1> QED BY <1>1, <1>2, <1>3, <1>4, <1>5 DEF Next, WorkerStep, Trouble

\* The children of a UserSpace that lives change by the reconciler's hand or
\* by drift.
LEMMA KidsStep ==
  ASSUME TypeOK, [Next]_vars, ~applyChildren
  PROVE  kids' = kids \/ "drift" \in spent' \/ Server.phase # "live"
  BY DEF vars, Next, WorkerStep, Deliver, Outside, Trouble, Reconcile, MarkPending, ReadInputs,
         GrantRoles, WithdrawRoles, patchStatus, DeliverUserSpace,
         DeliverBinding, DeliverChild, DeliverPlatformConfig, DeliverPullSecret, EditSpec,
         DeleteUserSpace, EditPlatformConfig, EditPullSecret, RemoveChild, CollectChildren,
         FinishDeletion, ReconcileFails, PatchStatusFails, ManagerRestarts, Spend

\* So do its bindings, or by a reconcile that fails half-way.
LEMMA BindingsStep ==
  ASSUME TypeOK, [Next]_vars, ~GrantRoles, ~WithdrawRoles
  PROVE  \/ Current(bindLog') = Current(bindLog)
         \/ "fault" \in spent' \/ Server.phase # "live"
  <1>1. bindLog \in Seq(SUBSET ClusterRoles) /\ Len(bindLog) > 0
    BY DEF TypeOK, LogTypeOK
  <1>2. CASE DeliverBinding
    BY <1>1, <1>2, TailFacts DEF DeliverBinding
  <1>3. CASE ManagerRestarts
    BY <1>1, <1>3, RelistFacts DEF ManagerRestarts
  <1>4. CASE ReconcileFails
    BY <1>4 DEF ReconcileFails, Spend
  <1>5. CASE CollectChildren
    BY <1>5 DEF CollectChildren
  <1>6. CASE ~(DeliverBinding \/ ManagerRestarts \/ ReconcileFails \/ CollectChildren)
    <2>1. bindLog' = bindLog
      BY <1>6
         DEF vars, Next, WorkerStep, Deliver, Outside, Trouble, Reconcile, MarkPending,
             ReadInputs, applyChildren, patchStatus, DeliverUserSpace, DeliverChild,
             DeliverPlatformConfig, DeliverPullSecret, EditSpec, DeleteUserSpace,
             EditPlatformConfig, EditPullSecret, RemoveChild, FinishDeletion,
             PatchStatusFails
    <2> QED BY <2>1
  <1> QED BY <1>2, <1>3, <1>4, <1>5, <1>6

\* The bindings after a grant and after a withdrawal.
LEMMA GrantFacts ==
  ASSUME TypeOK
  PROVE  /\ GrantRoles => /\ pc = "grant" /\ pc' = "sweep" /\ snap' = snap
                          /\ Current(bindLog') = Current(bindLog) \union Granted(snap)
         /\ WithdrawRoles => /\ pc = "sweep" /\ pc' = "mark" /\ snap' = snap /\ ~failed'
                             /\ Current(bindLog') = Current(bindLog) \ Withdrawn(snap)
  <1>1. bindLog \in Seq(SUBSET ClusterRoles) /\ Len(bindLog) > 0
    BY DEF TypeOK, LogTypeOK
  <1>2. /\ Current(bindLog) \union Granted(snap) \in SUBSET ClusterRoles
        /\ Current(bindLog) \ Withdrawn(snap) \in SUBSET ClusterRoles
    BY VersionTypes DEF TypeOK, Granted
  <1>3. ASSUME NEW b \in SUBSET ClusterRoles
        PROVE  Current(Write(bindLog, b)) = b
    BY <1>1, WriteFacts
  <1>4. ASSUME GrantRoles
        PROVE  /\ pc = "grant" /\ pc' = "sweep" /\ snap' = snap
               /\ Current(bindLog') = Current(bindLog) \union Granted(snap)
    BY <1>2, <1>3, <1>4 DEF GrantRoles, ToStep
  <1>5. ASSUME WithdrawRoles
        PROVE  /\ pc = "sweep" /\ pc' = "mark" /\ snap' = snap /\ ~failed'
               /\ Current(bindLog') = Current(bindLog) \ Withdrawn(snap)
    BY <1>2, <1>3, <1>5 DEF WithdrawRoles, ToMark
  <1> QED BY <1>4, <1>5

-----------------------------------------------------------------------------
(* Ready is backed *)

\* The versions of the log, first and last.
LEMMA LogEnds ==
  ASSUME TypeOK
  PROVE  /\ Len(usLog) \in 1 .. Len(usLog) /\ 1 \in 1 .. Len(usLog) /\ Len(usLog) \in Nat
         /\ Server = usLog[Len(usLog)] /\ Cached(usLog) = usLog[1]
         /\ \A i \in 1 .. Len(usLog) : usLog[i] \in UserSpaces /\ usLog[i].gen \in Int
         /\ Server \in UserSpaces /\ Server.gen \in Int /\ Server.status.cond.og \in Int
         /\ snap \in UserSpaces /\ snap.gen \in Int
  <1>1. /\ Len(usLog) \in 1 .. Len(usLog) /\ 1 \in 1 .. Len(usLog) /\ Len(usLog) \in Nat
        /\ Server = usLog[Len(usLog)] /\ Cached(usLog) = usLog[1]
    BY EndsFacts DEF TypeOK, LogTypeOK, Server
  <1>2. \A i \in 1 .. Len(usLog) : usLog[i] \in UserSpaces
    BY DEF TypeOK, LogTypeOK
  <1>3. snap \in UserSpaces
    BY DEF TypeOK, WorkerTypeOK
  <1> QED BY <1>1, <1>2, <1>3, GenerationsAreInt

\* The first calls of a reconcile take what they act on from the log.
LEMMA SnapshotFacts ==
  ASSUME TypeOK, VersionsOrdered, ConditionsAreOlder, SnapshotIsOlder
  PROVE  /\ Reconcile => \/ pc' = "idle"
                         \/ pc' = "pending" /\ snap' = usLog[1]
                         \/ pc' = "read" /\ snap' = usLog[1] /\ usLog[1].status.state # "None"
         /\ Reconcile => usLog' = usLog /\ overtook' = overtook /\ Server' = Server
         /\ MarkPending => \/ pc' = "idle"
                           \/ /\ pc' = "read" /\ snap' = Server' /\ Server'.gen = Server.gen
                              /\ overtook' = (overtook \/ OlderIsUnderWay)
  <1>1. ASSUME Reconcile
        PROVE  /\ \/ pc' = "idle"
                  \/ pc' = "pending" /\ snap' = usLog[1]
                  \/ pc' = "read" /\ snap' = usLog[1] /\ usLog[1].status.state # "None"
               /\ usLog' = usLog /\ overtook' = overtook /\ Server' = Server
    BY <1>1, LogEnds DEF Reconcile, ToIdle, ToStep, Server
  <1>2. ASSUME MarkPending
        PROVE  \/ pc' = "idle"
               \/ /\ pc' = "read" /\ snap' = Server' /\ Server'.gen = Server.gen
                  /\ overtook' = (overtook \/ OlderIsUnderWay)
    <2>1. CASE Server.phase = "gone"
      BY <1>2, <2>1 DEF MarkPending, ToIdle
    <2>2. CASE Server.phase # "gone"
      <3> DEFINE v == PatchedUserSpace("Pending", "None")
      <3>1. /\ pc # "idle" /\ usLog' = Write(usLog, v) /\ pc' = "read" /\ snap' = v
            /\ overtook' = (overtook \/ OlderIsUnderWay)
        BY <1>2, <2>2 DEF MarkPending, ToStep
      <3>2. Follows(v) /\ v.gen = Server.gen
        BY <3>1, PatchesFollow
      <3> HIDE DEF v
      <3>3. Server' = v
        BY <3>1, <3>2, LogGrows
      <3> QED BY <3>1, <3>2, <3>3
    <2> QED BY <2>1, <2>2
  <1> QED BY <1>1, <1>2

\* What is acted on stays older than the server's version.
LEMMA SnapshotIsOlderStep ==
  ASSUME TypeOK, VersionsOrdered, ConditionsAreOlder, SnapshotIsOlder, [Next]_vars
  PROVE  SnapshotIsOlder'
  <1>0. TypeOK'
    BY TypeStep
  <1>1. /\ Server'.gen >= Server.gen /\ Server'.gen \in Int /\ Server.gen \in Int /\ snap.gen \in Int
        /\ Server'.gen = Server.gen => Server'.admin = Server.admin
    <2>1. Server' \in UserSpaces
      <3>1. usLog' \in Seq(UserSpaces) /\ Len(usLog') > 0
        BY <1>0 DEF TypeOK, LogTypeOK
      <3> QED BY <3>1, EndsFacts DEF Server
    <2> QED BY <2>1, LogStep, LogEnds, GenerationsAreInt DEF LogMoved
  <1>2. CASE Reconcile
    <2>1. pc' # "idle" => snap' = usLog[1] /\ Server' = Server
      BY <1>2, SnapshotFacts
    <2> QED BY <2>1, LogEnds DEF SnapshotIsOlder, VersionsOrdered
  <1>3. CASE MarkPending
    <2>1. pc' # "idle" => snap' = Server'
      BY <1>3, SnapshotFacts
    <2> QED BY <1>1, <2>1 DEF SnapshotIsOlder
  <1>4. CASE ~Reconcile /\ ~MarkPending
    <2>1. pc' # "idle" => pc # "idle" /\ snap' = snap
      BY <1>4, SnapshotStep
    <2> QED BY <1>1, <2>1 DEF SnapshotIsOlder
  <1> QED BY <1>2, <1>3, <1>4

\* What the cache will be given stays no older than what is acted on, unless
\* this is the answer that overtook.
LEMMA NothingOlderComesStep ==
  ASSUME TypeOK, VersionsOrdered, ConditionsAreOlder, SnapshotIsOlder, NothingOlderComes,
         [Next]_vars
  PROVE  NothingOlderComes'
  <1>0. TypeOK'
    BY TypeStep
  <1> SUFFICES ASSUME Acting', ~overtook', NEW i \in 1 .. Len(usLog'),
                      usLog'[i].status.state # "None"
               PROVE  snap'.gen <= usLog'[i].gen
    BY DEF NothingOlderComes
  <1>1. /\ Server'.gen >= Server.gen /\ Server'.gen \in Int /\ Server.gen \in Int /\ snap.gen \in Int
        /\ usLog'[i] = Server' \/ \E k \in 1 .. Len(usLog) : usLog'[i] = usLog[k]
    <2>1. Server' \in UserSpaces
      <3>1. usLog' \in Seq(UserSpaces) /\ Len(usLog') > 0
        BY <1>0 DEF TypeOK, LogTypeOK
      <3> QED BY <3>1, EndsFacts DEF Server
    <2> QED BY <2>1, LogStep, LogEnds, GenerationsAreInt DEF LogMoved
  <1>2. CASE Reconcile
    <2>1. snap' = usLog[1] /\ usLog' = usLog
      BY <1>2, SnapshotFacts DEF Acting
    <2> QED BY <2>1, LogEnds DEF VersionsOrdered
  <1>3. CASE MarkPending
    <2>1. snap' = Server' /\ Server'.gen = Server.gen /\ ~OlderIsUnderWay
      BY <1>3, SnapshotFacts DEF Acting
    <2>2. \A k \in 1 .. Len(usLog) : usLog[k].status.state # "None" => usLog[k].gen >= Server.gen
      BY <2>1, LogEnds DEF OlderIsUnderWay
    <2> QED BY <1>1, <2>1, <2>2
  <1>4. CASE ~Reconcile /\ ~MarkPending
    <2>1. Acting /\ ~overtook /\ snap' = snap /\ pc # "idle"
      BY <1>4, SnapshotStep DEF Acting
    <2> QED BY <1>1, <2>1 DEF NothingOlderComes, SnapshotIsOlder
  <1> QED BY <1>2, <1>3, <1>4

\* A UserSpace that is undisturbed always was.
LEMMA UndisturbedBefore ==
  ASSUME TypeOK, VersionsOrdered, ConditionsAreOlder, SnapshotIsOlder, [Next]_vars, Undisturbed'
  PROVE  /\ Undisturbed
         /\ "drift" \notin spent' /\ "fault" \notin spent'
         /\ Server.phase = "live"
  BY LogStep, HistoryStep DEF Undisturbed, LogMoved

\* What a reconcile has written stays until it ends.
LEMMA WrittenSoFarStep ==
  ASSUME TypeOK, VersionsOrdered, ConditionsAreOlder, SnapshotIsOlder, WrittenSoFar,
         [Next]_vars
  PROVE  WrittenSoFar'
  <1> SUFFICES ASSUME Undisturbed'
               PROVE  /\ pc' = "apply" => /\ at' > 1 => kids'.Namespace # 0
                                          /\ at' > 2 => kids'.ResourceQuota.gen = snap'.gen
                                          /\ at' > 3 => kids'.Access = snap'.gen
                      /\ Applied' => Backed(snap.gen)'
                      /\ Bound' => (Granted(snap) \subseteq Current(bindLog))'
    BY DEF WrittenSoFar
  <1>0. /\ Undisturbed
        /\ "drift" \notin spent' /\ "fault" \notin spent' /\ Server.phase = "live"
    BY UndisturbedBefore
  <1>1. CASE applyChildren
    <2>1. \/ pc' = "mark" /\ failed'
          \/ pc' \in {"apply", "grant"}
      BY <1>1, ApplyFacts
    <2>2. /\ pc' = "apply" => /\ at' > 1 => kids'.Namespace # 0
                              /\ at' > 2 => kids'.ResourceQuota.gen = snap'.gen
                              /\ at' > 3 => kids'.Access = snap'.gen
          /\ pc' = "grant" => Backed(snap.gen)'
      BY <1>0, <1>1, ApplyFacts DEF WrittenSoFar, Backed
    <2> QED BY <2>1, <2>2 DEF Applied, Bound
  <1>2. CASE GrantRoles
    <2>1. kids' = kids /\ adminRoles' = adminRoles
      BY <1>2 DEF GrantRoles
    <2>2. /\ pc = "grant" /\ pc' = "sweep" /\ snap' = snap
          /\ Current(bindLog') = Current(bindLog) \union Granted(snap)
      BY <1>2, GrantFacts
    <2> QED BY <1>0, <2>1, <2>2 DEF WrittenSoFar, Applied, Bound, Backed, Granted
  <1>3. CASE WithdrawRoles
    <2>1. kids' = kids /\ adminRoles' = adminRoles
      BY <1>3 DEF WithdrawRoles
    <2>2. /\ pc = "sweep" /\ pc' = "mark" /\ snap' = snap
          /\ Current(bindLog') = Current(bindLog) \ Withdrawn(snap)
      BY <1>3, GrantFacts
    <2> QED BY <1>0, <2>1, <2>2 DEF WrittenSoFar, Applied, Bound, Backed, Granted, Withdrawn
  <1>4. CASE ReadInputs
    BY <1>4 DEF ReadInputs, Applied, Bound
  <1>5. CASE Reconcile \/ MarkPending
    BY <1>5, SnapshotFacts DEF Applied, Bound
  <1>6. CASE patchStatus \/ PatchStatusFails \/ ManagerRestarts
    BY <1>6 DEF patchStatus, PatchStatusFails, ManagerRestarts, ToIdle, Applied, Bound
  <1>7. CASE ReconcileFails
    BY <1>7 DEF ReconcileFails, ToMark, Applied, Bound
  <1>8. CASE UNCHANGED vars \/ Deliver \/ Outside
    <2>1. UNCHANGED <<pc, snap, at, failed, adminRoles>>
      BY <1>8 DEF vars, worker, Deliver, Outside, DeliverUserSpace, DeliverBinding,
                  DeliverChild, DeliverPlatformConfig, DeliverPullSecret, EditSpec,
                  DeleteUserSpace, EditPlatformConfig, EditPullSecret, RemoveChild,
                  CollectChildren, FinishDeletion
    <2>3. ~applyChildren => kids' = kids
      BY <1>0, KidsStep
    <2>4. ~GrantRoles /\ ~WithdrawRoles => Current(bindLog') = Current(bindLog)
      BY <1>0, BindingsStep
    <2>5. CASE ~applyChildren /\ ~GrantRoles /\ ~WithdrawRoles
      BY <1>0, <2>1, <2>3, <2>4, <2>5 DEF WrittenSoFar, Applied, Bound, Backed, Granted
    <2> QED BY <1>1, <1>2, <1>3, <2>5
  <1> QED BY <1>1, <1>2, <1>3, <1>4, <1>5, <1>6, <1>7, <1>8 DEF Next, WorkerStep, Trouble

\* A Ready that was backed before this step, and that it does not withdraw.
LEMMA ReadyBefore ==
  ASSUME TypeOK, VersionsOrdered, ConditionsAreOlder, SnapshotIsOlder, ReadyStays,
         [Next]_vars, Ready', Server'.status.cond = Server.status.cond
  PROVE  /\ Ready /\ Server'.gen = Server.gen /\ Server'.admin = Server.admin
         /\ Backed(Server.gen)
         /\ "crash" \notin spent => Granted(Server) \subseteq Current(bindLog)
         /\ Acting => snap.gen = Server.gen /\ snap.admin = Server.admin
         /\ \A i \in 1 .. Len(usLog) :
              usLog[i].status.state # "None" => usLog[i].gen = Server.gen
  <1>1. Undisturbed /\ ~overtook
    BY UndisturbedBefore, HistoryStep DEF Ready
  <1>2. Server.status.cond.og <= Server.gen
    BY LogEnds DEF ConditionsAreOlder
  <1>3. Server.gen \in Int /\ Server.status.cond.og \in Int
    BY LogEnds
  <1>4. Server'.gen >= Server.gen /\ (Server'.gen = Server.gen => Server'.admin = Server.admin)
    BY LogStep DEF LogMoved
  <1>5. Server.status.cond = [reason |-> "NamespaceProvisioned", og |-> Server'.gen]
    BY DEF Ready
  <1>6. Server'.gen = Server.gen
    BY <1>2, <1>3, <1>4, <1>5
  <1>7. Ready
    BY <1>1, <1>5, <1>6 DEF Ready
  <1> QED BY <1>4, <1>6, <1>7 DEF ReadyStays, SnapshotIsOlder, Acting

\* A Ready stays backed, and the one a reconcile ends with is.
LEMMA ReadyStaysStep ==
  ASSUME TypeOK, ReadyInv, [Next]_vars
  PROVE  ReadyStays'
  <1> SUFFICES ASSUME Ready'
               PROVE  /\ Backed(Server.gen)'
                      /\ "crash" \notin spent' => (Granted(Server) \subseteq Current(bindLog))'
                      /\ Acting' => snap'.gen = Server'.gen
                      /\ \A i \in 1 .. Len(usLog') :
                           usLog'[i].status.state # "None" => usLog'[i].gen = Server'.gen
    BY DEF ReadyStays
  <1> USE DEF ReadyInv
  <1>0. /\ Undisturbed
        /\ "drift" \notin spent' /\ "fault" \notin spent' /\ Server.phase = "live"
        /\ "crash" \notin spent' => "crash" \notin spent /\ adminRoles' = adminRoles
    BY UndisturbedBefore, HistoryStep DEF Ready
  <1>1. \A i \in 1 .. Len(usLog') :
          usLog'[i] = Server' \/ \E k \in 1 .. Len(usLog) : usLog'[i] = usLog[k]
    BY LogStep DEF LogMoved
  <1>2. CASE Server'.status.cond = Server.status.cond
    <2>1. /\ Server'.gen = Server.gen /\ Server'.admin = Server.admin
          /\ Backed(Server.gen)
          /\ "crash" \notin spent => Granted(Server) \subseteq Current(bindLog)
          /\ Acting => snap.gen = Server.gen /\ snap.admin = Server.admin
          /\ \A i \in 1 .. Len(usLog) :
               usLog[i].status.state # "None" => usLog[i].gen = Server.gen
      BY <1>2, ReadyBefore
    <2>2. \A i \in 1 .. Len(usLog') :
            usLog'[i].status.state # "None" => usLog'[i].gen = Server'.gen
      BY <1>1, <2>1
    <2>3. Acting' => snap'.gen = Server'.gen
      <3>1. CASE Reconcile
        BY <2>1, <3>1, SnapshotFacts, LogEnds DEF Acting
      <3>2. CASE MarkPending
        BY <3>2, SnapshotFacts DEF Acting
      <3>3. CASE ~Reconcile /\ ~MarkPending
        BY <2>1, <3>3, SnapshotStep DEF Acting
      <3> QED BY <3>1, <3>2, <3>3
    <2>4. Backed(Server.gen)'
      <3>1. CASE applyChildren
        <4>1. snap.gen = Server.gen
          BY <2>1, <3>1, ApplyFacts DEF Acting
        <4>2. kids'.Namespace # 0 /\ kids'.ResourceQuota.gen = Server.gen /\ kids'.Access = Server.gen
          BY <2>1, <3>1, <4>1, ApplyFacts DEF Backed
        <4> QED BY <2>1, <4>2 DEF Backed
      <3>2. CASE ~applyChildren
        BY <1>0, <2>1, <3>2, KidsStep DEF Backed
      <3> QED BY <3>1, <3>2
    <2>5. ASSUME "crash" \notin spent'
          PROVE  (Granted(Server) \subseteq Current(bindLog))'
      <3>1. Granted(Server) \subseteq Current(bindLog) /\ Granted(Server)' = Granted(Server)
        BY <1>0, <2>1, <2>5 DEF Granted
      <3>2. CASE GrantRoles
        <4>1. Current(bindLog') = Current(bindLog) \union Granted(snap)
          BY <3>2, GrantFacts
        <4> QED BY <3>1, <4>1
      <3>3. CASE WithdrawRoles
        <4>1. pc = "sweep" /\ Current(bindLog') = Current(bindLog) \ Withdrawn(snap)
          BY <3>3, GrantFacts
        <4>2. Granted(snap) = Granted(Server)
          BY <2>1, <4>1 DEF Granted, Acting
        <4> QED BY <3>1, <4>1, <4>2 DEF Withdrawn
      <3>4. CASE ~GrantRoles /\ ~WithdrawRoles
        BY <1>0, <3>1, <3>4, BindingsStep
      <3> QED BY <3>2, <3>3, <3>4
    <2> QED BY <2>2, <2>3, <2>4, <2>5
  <1>3. CASE patchStatus /\ Server' = Outcome /\ Server'.status.cond # Server.status.cond
    <2>1. /\ pc = "mark" /\ pc' = "idle" /\ ~overtook
          /\ kids' = kids /\ bindLog' = bindLog /\ adminRoles' = adminRoles
      BY <1>3, HistoryStep DEF patchStatus, ToIdle, Ready
    <2>2. Server'.gen = Server.gen /\ Server'.admin = Server.admin
      BY <1>3, OutcomeFacts
    <2>3. /\ Server'.status.cond.og = snap.gen
          /\ failed => Server'.status.cond.reason = "ProvisioningFailed"
      BY <1>3, OutcomeFacts
    <2>4. snap.gen = Server.gen /\ ~failed
      BY <2>2, <2>3 DEF Ready
    <2>5. snap.admin = Server.admin
      BY <2>1, <2>4 DEF SnapshotIsOlder
    <2>6. Backed(snap.gen) /\ Granted(snap) \subseteq Current(bindLog)
      BY <1>0, <2>1, <2>4 DEF WrittenSoFar, Applied, Bound
    <2>7. Backed(Server.gen)' /\ (Granted(Server) \subseteq Current(bindLog))'
      BY <2>1, <2>2, <2>4, <2>5, <2>6 DEF Backed, Granted
    <2>8. \A k \in 1 .. Len(usLog) : usLog[k].status.state # "None" => usLog[k].gen = Server.gen
      <3>1. \A k \in 1 .. Len(usLog) : usLog[k].status.state # "None" => snap.gen <= usLog[k].gen
        BY <2>1 DEF NothingOlderComes, Acting
      <3>2. \A k \in 1 .. Len(usLog) : usLog[k].gen <= Server.gen
        BY LogEnds DEF VersionsOrdered
      <3> QED BY <2>4, <3>1, <3>2, LogEnds
    <2> QED BY <1>1, <2>1, <2>2, <2>7, <2>8 DEF Acting
  <1> QED BY <1>0, <1>2, <1>3, LogStep

\* The invariant behind ReadyBackedByChildren is inductive.
LEMMA ReadyInvStep == TypeOK /\ ReadyInv /\ [Next]_vars => ReadyInv'
  <1> SUFFICES ASSUME TypeOK, ReadyInv, [Next]_vars PROVE ReadyInv'
    OBVIOUS
  <1>1. VersionsOrdered' /\ ConditionsAreOlder'
    BY LogStep DEF ReadyInv, LogMoved
  <1>2. SnapshotIsOlder' /\ NothingOlderComes' /\ WrittenSoFar'
    BY SnapshotIsOlderStep, NothingOlderComesStep, WrittenSoFarStep DEF ReadyInv
  <1>3. ReadyStays'
    BY ReadyStaysStep
  <1> QED BY <1>1, <1>2, <1>3 DEF ReadyInv

\* It holds at first: there is one version, and no condition.
LEMMA ReadyInvInit == Init => ReadyInv
  <1> SUFFICES ASSUME Init PROVE ReadyInv
    OBVIOUS
  <1>1. PICK admin \in BOOLEAN :
          usLog = <<[phase |-> "live", gen |-> 1, admin |-> admin, status |-> NoStatus]>>
    BY DEF Init
  <1>2. /\ Len(usLog) = 1 /\ Server = usLog[1]
        /\ usLog[1].gen = 1 /\ usLog[1].status = NoStatus
    BY <1>1 DEF Server, Current
  <1>3. NoStatus.cond.og = 0 /\ NoStatus.cond.reason = "None"
    BY DEF NoStatus
  <1>4. VersionsOrdered /\ ConditionsAreOlder
    BY <1>2, <1>3 DEF VersionsOrdered, ConditionsAreOlder
  <1>5. pc = "idle"
    BY DEF Init
  <1>6. SnapshotIsOlder /\ NothingOlderComes /\ WrittenSoFar
    BY <1>5 DEF SnapshotIsOlder, NothingOlderComes, Acting, WrittenSoFar, Applied, Bound
  <1>7. ~Ready
    BY <1>2, <1>3 DEF Ready
  <1> QED BY <1>4, <1>6, <1>7 DEF ReadyInv, ReadyStays

-----------------------------------------------------------------------------
(* What there is at rest *)

\* A merge patch against the server's own version writes what is wanted.
LEMMA PatchIsDesired ==
  ASSUME NEW a, NEW d,
         d = [namespace |-> d.namespace, state |-> d.state, og |-> d.og, cond |-> d.cond]
  PROVE  MergePatch(a, a, d) = d
  BY DEF MergePatch, Patched

\* Nothing that matters has changed.
LEMMA RestKept ==
  ASSUME RestInv,
         UNCHANGED <<usLog, bindLog, srcLog, kids, kidsChanged, adminRoles, queued, pc, snap,
                     plan, at, failed>>
  PROVE  RestInv'
  BY DEF RestInv, Still, Applied, Backed, Mirrored, Granted, Server

\* The steps of the worker: one that wrote anything new has left an event.
LEMMA RestWorkerStep ==
  ASSUME TypeOK, RestInv, WorkerStep
  PROVE  RestInv'
  <1> SUFFICES ASSUME Still' PROVE RestInv'
    BY DEF RestInv
  <1>0. /\ usLog \in Seq(UserSpaces) /\ Len(usLog) > 0
        /\ bindLog \in Seq(SUBSET ClusterRoles) /\ Len(bindLog) > 0
        /\ srcLog \in Seq(Keys \union {NoKey}) /\ Len(srcLog) > 0
    BY DEF TypeOK, LogTypeOK
  <1>1. CASE Reconcile
    <2>1. usLog' = usLog /\ Cached(usLog) = Server /\ Server.phase = "live"
      BY <1>0, <1>1, EndsFacts DEF Reconcile, Still, Server
    <2>2. pc' \in {"pending", "read"} /\ snap' = Server
      BY <1>1, <2>1 DEF Reconcile, ToStep
    <2>3. Server' = Server
      BY <2>1 DEF Server
    <2> QED BY <2>2, <2>3 DEF RestInv, Applied
  <1>2. CASE MarkPending
    <2> DEFINE v == PatchedUserSpace("Pending", "None")
    <2>1. CASE Server.phase = "gone"
      BY <1>2, <2>1 DEF MarkPending, Still
    <2>2. CASE Server.phase # "gone"
      <3>1. usLog' = Write(usLog, v) /\ pc' = "read" /\ snap' = v
        BY <1>2, <2>2 DEF MarkPending, ToStep
      <3> HIDE DEF v
      <3>2. usLog' = usLog /\ v = Server
        BY <1>0, <3>1, WriteStays DEF Still, Server
      <3>3. Server' = Server
        BY <3>2 DEF Server
      <3> QED BY <3>1, <3>2, <3>3 DEF RestInv, Applied
    <2> QED BY <2>1, <2>2
  <1>3. CASE ReadInputs
    <2>1. UNCHANGED <<usLog, bindLog, srcLog, kids, kidsChanged, queued, snap>>
          /\ pc = "read" /\ pc' = "apply" /\ at' = 1 /\ plan'.pull = Cached(srcLog)
      BY <1>3 DEF ReadInputs
    <2>2. Still /\ Server' = Server
      BY <2>1 DEF Still, Server
    <2>3. Cached(srcLog) = Current(srcLog)
      BY <1>0, <2>2, EndsFacts DEF Still
    <2> QED BY <2>1, <2>2, <2>3 DEF RestInv, Applied
  <1>4. CASE applyChildren
    <2>1. Still /\ Server' = Server /\ kids' = kids /\ snap' = snap /\ pc = "apply"
          /\ at \in 1 .. 4
          /\ UNCHANGED <<bindLog, srcLog, adminRoles>>
      <3>1. /\ snap' = snap /\ pc = "apply" /\ at \in 1 .. 4
            /\ UNCHANGED <<usLog, bindLog, srcLog, adminRoles, queued>>
        BY <1>4, ApplyFacts
      <3>2. \/ kids' = kids /\ kidsChanged' = kidsChanged
            \/ kidsChanged' = (kidsChanged \/ kids' # kids)
        BY <1>4, ApplyFacts
      <3>3. ~kidsChanged'
        BY DEF Still
      <3>4. kids' = kids /\ ~kidsChanged
        <4>1. CASE kids' = kids /\ kidsChanged' = kidsChanged
          BY <3>3, <4>1
        <4>2. CASE kidsChanged' = (kidsChanged \/ kids' # kids)
          BY <3>3, <4>2
        <4> QED BY <3>2, <4>1, <4>2
      <3>5. Server' = Server
        BY <3>1 DEF Server
      <3> QED BY <3>1, <3>4, <3>5 DEF Still
    <2>2. snap = Server /\ plan.pull = Current(srcLog)
      BY <2>1 DEF RestInv
    <2>3. CASE pc' = "mark" /\ failed'
      BY <2>1, <2>2, <2>3 DEF RestInv, Applied
    <2>4. CASE pc' = "apply" /\ at' = at + 1 /\ at < 4 /\ plan' = plan /\ ~(pc' = "mark" /\ failed')
      <3>1. /\ kids.Namespace # 0
            /\ at > 1 => kids.ResourceQuota.gen = snap.gen
            /\ at > 2 => kids.Access = snap.gen
        BY <1>4, <2>1, <2>4, ApplyFacts DEF RestInv
      <3> QED BY <2>1, <2>2, <2>4, <3>1 DEF RestInv, Applied
    <2>5. CASE pc' = "grant" /\ at = 4 /\ plan' = plan
      <3>1. kids.Namespace # 0 /\ kids.ResourceQuota.gen = snap.gen /\ kids.Access = snap.gen
        BY <2>1, <2>5 DEF RestInv
      <3>2. plan.pull # NoKey => kids.PullSecret = plan.pull
        BY <1>4, <2>1, <2>5, ApplyFacts
      <3>3. Backed(snap.gen)' /\ Mirrored'
        BY <2>1, <2>2, <3>1, <3>2 DEF Backed, Mirrored
      <3> QED BY <2>1, <2>2, <2>5, <3>3 DEF RestInv
    <2> QED BY <1>4, <2>3, <2>4, <2>5, ApplyFacts
  <1>5. CASE GrantRoles
    <2>1. /\ UNCHANGED <<usLog, srcLog, kids, kidsChanged, queued, adminRoles, snap>>
          /\ bindLog' = Write(bindLog, Current(bindLog) \union Granted(snap))
          /\ pc = "grant" /\ pc' = "sweep"
      BY <1>5 DEF GrantRoles, ToStep
    <2>2. /\ bindLog' = bindLog /\ Len(bindLog) = 1
          /\ Current(bindLog) \union Granted(snap) = Current(bindLog)
      BY <1>0, <2>1, WriteStays DEF Still
    <2>3. Still /\ Server' = Server
      BY <2>1, <2>2 DEF Still, Server
    <2>4. snap = Server /\ Backed(snap.gen) /\ Mirrored
      BY <2>1, <2>3 DEF RestInv, Applied
    <2>5. Backed(snap.gen)' /\ Mirrored' /\ (Granted(snap) \subseteq Current(bindLog))'
      BY <2>1, <2>2, <2>4 DEF Backed, Mirrored, Granted
    <2> QED BY <2>1, <2>3, <2>4, <2>5 DEF RestInv
  <1>6. CASE WithdrawRoles
    <2>1. /\ UNCHANGED <<usLog, srcLog, kids, kidsChanged, queued, adminRoles, snap>>
          /\ bindLog' = Write(bindLog, Current(bindLog) \ Withdrawn(snap))
          /\ pc = "sweep" /\ pc' = "mark"
      BY <1>6 DEF WithdrawRoles, ToMark
    <2>2. /\ bindLog' = bindLog /\ Len(bindLog) = 1 /\ Cached(bindLog) = Current(bindLog)
          /\ Current(bindLog) \ Withdrawn(snap) = Current(bindLog)
      BY <1>0, <2>1, WriteStays DEF Still
    <2>3. Still /\ Server' = Server
      BY <2>1, <2>2 DEF Still, Server
    <2>4. /\ snap = Server /\ Backed(snap.gen) /\ Mirrored
          /\ Granted(snap) \subseteq Current(bindLog)
      BY <2>1, <2>3 DEF RestInv, Applied
    <2>5. Granted(snap) = Current(bindLog)
      BY <2>2, <2>4 DEF Withdrawn
    <2>6. Backed(snap.gen)' /\ Mirrored' /\ (Granted(snap) = Current(bindLog))'
      BY <2>1, <2>2, <2>4, <2>5 DEF Backed, Mirrored, Granted
    <2> QED BY <2>1, <2>3, <2>4, <2>6 DEF RestInv
  <1>7. CASE patchStatus
    <2>1. Server.phase # "gone"
      BY <1>7 DEF patchStatus, Still
    <2>2. /\ UNCHANGED <<bindLog, srcLog, kids, kidsChanged, adminRoles>>
          /\ usLog' = Write(usLog, Outcome) /\ pc = "mark" /\ pc' = "idle"
          /\ queued' = (queued \/ failed)
      BY <1>7, <2>1 DEF patchStatus, ToIdle
    <2>3. usLog' = usLog /\ Outcome = Server /\ Len(usLog) = 1
      BY <1>0, <2>2, WriteStays DEF Still, Server
    <2>4. Still /\ Server' = Server /\ ~failed
      BY <2>2, <2>3 DEF Still, Server
    <2>5. /\ snap = Server /\ Backed(Server.gen) /\ Mirrored
          /\ Granted(Server) = Current(bindLog)
      BY <2>2, <2>4 DEF RestInv, Applied
    <2>6. Backed(Server.gen)' /\ Mirrored' /\ (Granted(Server) = Current(bindLog))'
      BY <2>2, <2>3, <2>4, <2>5 DEF Backed, Mirrored, Granted
    <2>7. Server.status = Desired(Server, "Ready", "NamespaceProvisioned")
      <3> DEFINE d == Desired(Server, "Ready", "NamespaceProvisioned")
      <3>1. "Ready" \in States /\ "NamespaceProvisioned" \in Reasons
        BY DEF States, Reasons
      <3>2. Outcome = PatchedUserSpace("Ready", "NamespaceProvisioned")
        BY <2>4 DEF Outcome
      <3>3. Outcome.status = MergePatch(Server.status, Server.status, d)
        BY <2>5, <3>1, <3>2, PatchFacts
      <3>4. d = [namespace |-> d.namespace, state |-> d.state, og |-> d.og, cond |-> d.cond]
        BY DEF Desired
      <3> HIDE DEF d
      <3>5. MergePatch(Server.status, Server.status, d) = d
        BY <3>4, PatchIsDesired
      <3> QED BY <2>3, <3>3, <3>5 DEF d
    <2>8. Server'.status = [namespace |-> TRUE, state |-> "Ready", og |-> Server'.gen,
                            cond |-> [reason |-> "NamespaceProvisioned", og |-> Server'.gen]]
      BY <2>4, <2>7 DEF Desired
    <2> QED BY <2>2, <2>6, <2>8 DEF RestInv, Applied
  <1> QED BY <1>1, <1>2, <1>3, <1>4, <1>5, <1>6, <1>7 DEF WorkerStep

\* Every delivery of what the reconciler watches asks for another reconcile.
LEMMA RestDeliver ==
  ASSUME TypeOK, RestInv, Deliver
  PROVE  RestInv'
  <1> SUFFICES ASSUME Still' PROVE RestInv'
    BY DEF RestInv
  <1>1. CASE DeliverUserSpace \/ DeliverBinding \/ DeliverChild
    BY <1>1 DEF DeliverUserSpace, DeliverBinding, DeliverChild, Still
  <1>2. CASE DeliverPlatformConfig
    BY <1>2, RestKept DEF DeliverPlatformConfig, worker
  <1>3. CASE DeliverPullSecret
    <2>1. usLog' = usLog /\ queued' = (queued \/ Cached(usLog).phase # "gone")
      BY <1>3 DEF DeliverPullSecret
    <2>2. Cached(usLog) = Server /\ Server.phase = "live"
      BY <2>1, EndsFacts DEF TypeOK, LogTypeOK, Still, Server
    <2> QED BY <2>1, <2>2 DEF Still
  <1> QED BY <1>1, <1>2, <1>3 DEF Deliver

\* What others do to a UserSpace that lives is an event under way.
LEMMA RestOutside ==
  ASSUME TypeOK, RestInv, Outside
  PROVE  RestInv'
  <1> SUFFICES ASSUME Still' PROVE RestInv'
    BY DEF RestInv
  <1>1. CASE EditSpec \/ DeleteUserSpace \/ FinishDeletion
    <2>1. PICK v \in UserSpaces : usLog' = Append(usLog, v)
      BY <1>1, UserVersion
    <2>2. Len(usLog') = Len(usLog) + 1 /\ Len(usLog) > 0 /\ Len(usLog) \in Nat
      BY <2>1, AppendFacts DEF TypeOK, LogTypeOK
    <2> QED BY <2>2 DEF Still
  <1>2. CASE EditPullSecret
    <2>1. PICK k \in Keys \union {NoKey} : srcLog' = Append(srcLog, k)
      BY <1>2 DEF EditPullSecret
    <2>2. Len(srcLog') = Len(srcLog) + 1 /\ Len(srcLog) > 0 /\ Len(srcLog) \in Nat
      BY <2>1, AppendFacts DEF TypeOK, LogTypeOK
    <2> QED BY <2>2 DEF Still
  <1>3. CASE EditPlatformConfig
    BY <1>3, RestKept DEF EditPlatformConfig, worker
  <1>4. CASE RemoveChild
    <2>1. kidsChanged' = (kidsChanged \/ kids' # kids)
      BY <1>4 DEF RemoveChild, SetKids
    <2>2. ~kidsChanged'
      BY DEF Still
    <2>3. kids' = kids /\ ~kidsChanged
      BY <2>1, <2>2
    <2>4. kidsChanged \in BOOLEAN
      BY DEF TypeOK
    <2>5. kidsChanged' = kidsChanged
      BY <2>1, <2>3, <2>4
    <2> QED BY <1>4, <2>3, <2>5, RestKept DEF RemoveChild, worker
  <1>5. CASE CollectChildren
    BY <1>5 DEF CollectChildren, Still, Server
  <1> QED BY <1>1, <1>2, <1>3, <1>4, <1>5 DEF Outside

\* What fails is tried again, and a manager that restarts looks at everything.
LEMMA RestTrouble ==
  ASSUME TypeOK, RestInv, Trouble
  PROVE  RestInv'
  <1> SUFFICES ASSUME Still' PROVE RestInv'
    BY DEF RestInv
  <1>1. CASE ReconcileFails
    <2>1. /\ UNCHANGED <<usLog, srcLog, kids, kidsChanged, queued, snap>>
          /\ pc # "idle" /\ pc' = "mark" /\ failed'
          /\ bindLog' = bindLog \/ \E b : bindLog' = Write(bindLog, b)
      BY <1>1 DEF ReconcileFails, ToMark
    <2>2. bindLog' = bindLog
      BY <2>1, WriteStays DEF TypeOK, LogTypeOK, Still
    <2>3. Still /\ Server' = Server
      BY <2>1, <2>2 DEF Still, Server
    <2> QED BY <2>1, <2>3 DEF RestInv, Applied
  <1>2. CASE PatchStatusFails
    BY <1>2 DEF PatchStatusFails, Still
  <1>3. CASE ManagerRestarts
    <2>1. Server' = Server
      BY <1>3, RelistFacts DEF ManagerRestarts, TypeOK, LogTypeOK, Server
    <2>2. queued'
      BY <1>3, <2>1 DEF ManagerRestarts, Still
    <2> QED BY <2>2 DEF Still
  <1> QED BY <1>1, <1>2, <1>3 DEF Trouble

\* The invariant behind what holds at rest is inductive.
LEMMA RestInvStep == TypeOK /\ RestInv /\ [Next]_vars => RestInv'
  <1> SUFFICES ASSUME TypeOK, RestInv, [Next]_vars PROVE RestInv'
    OBVIOUS
  <1>1. CASE UNCHANGED vars
    BY <1>1, RestKept DEF vars
  <1> QED BY <1>1, RestWorkerStep, RestDeliver, RestOutside, RestTrouble DEF Next

-----------------------------------------------------------------------------
(* The theorems *)

\* Every variable keeps to its type.
THEOREM TypeCorrect == Spec => []TypeOK
  BY TypeInit, TypeStep, PTL DEF Spec

\* patchStatus, for every number of generations and of events under way: a
\* Ready of the current generation is backed by children and bindings of the
\* current spec, if nothing was tampered with or lost and no reconcile got
\* ahead of the cache.
THEOREM ReadyIsBacked == Spec => []ReadyBackedByChildren
  <1>1. ReadyInv => ReadyBackedByChildren
    BY DEF ReadyInv, ReadyStays, Ready, Undisturbed, Backed, ReadyBackedByChildren
  <1> QED BY <1>1, ReadyInvInit, ReadyInvStep, TypeInit, TypeStep, PTL DEF Spec

\* The invariant of what the worker has passed.
THEOREM RestInvariant == Spec => []RestInv
  <1>1. Init => RestInv
    BY DEF Init, RestInv, Still
  <1> QED BY <1>1, RestInvStep, TypeInit, TypeStep, PTL DEF Spec

\* reconcileRoleGrants, for every set of ClusterRoles: once nothing is queued,
\* running or on its way to a cache, the administrator bindings are those of
\* the role and of the manager's flag, whatever failed, crashed or raced.
THEOREM GrantsMatchRole == Spec => []RestGrantsMatchRole
  <1>1. RestInv => RestGrantsMatchRole
    BY DEF RestInv, Still, Quiet, RestGrantsMatchRole
  <1> QED BY <1>1, RestInvariant, PTL

\* Reconcile, for every bound on generations, lag and trouble: once it comes to
\* rest, the children are of the current spec and pull Secret and the status
\* says so.
THEOREM IsProvisioned == Spec => []RestIsProvisioned
  <1>1. RestInv => RestIsProvisioned
    BY DEF RestInv, Still, Quiet, Backed, Mirrored, RestGrantsMatchRole, RestIsProvisioned
  <1> QED BY <1>1, RestInvariant, PTL
=============================================================================
