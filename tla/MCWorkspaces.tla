---------------------------- MODULE MCWorkspaces ----------------------------
(***************************************************************************)
(* One instance for TLC of the two components of the manager that work on  *)
(* Workspaces: the webhook that measures those of a namespace against its  *)
(* quota, and the reconciler of one of them.  The reconciler has to do     *)
(* with any write the webhook may let through, and the webhook reads       *)
(* nothing the reconciler writes, so a behaviour is of one of them and the *)
(* other stays as it is at the start.                                      *)
(***************************************************************************)
EXTENDS MCQuotaAdmission

CONSTANTS Keys, NoKey, MaxGen, MaxLag, Limit

VARIABLES part, wsLog, stsLog, svcLog, imgLog, secLog, queued, pc, snap, keysRef, mark, failed, spent

reconcilerVars ==
  <<wsLog, stsLog, svcLog, imgLog, secLog, queued, pc, snap, keysRef, mark, failed, spent>>

\* A failed call, a catalog entry that comes or goes and a key that is added or
\* removed, once each.
LimitTrouble == [fault |-> 1, crash |-> 0, flap |-> 0, image |-> 1, key |-> 1]

Reconciler == INSTANCE WorkspaceReconcile

WorkspacesInit ==
  /\ part \in {"quota", "reconciler"}
  /\ Init
  /\ IF part = "reconciler" THEN Reconciler!Init /\ quota = Allow(1, 3, 1)
     ELSE /\ wsLog = None /\ stsLog = None /\ svcLog = None /\ imgLog = None /\ secLog = None
          /\ queued = None /\ pc = None /\ snap = None /\ keysRef = None /\ mark = None
          /\ failed = None /\ spent = None

WorkspacesNext ==
  \/ part = "quota"      /\ Next            /\ UNCHANGED <<part, reconcilerVars>>
  \/ part = "reconciler" /\ Reconciler!Next /\ UNCHANGED <<part, vars>>

WorkspacesSpec == WorkspacesInit /\ [][WorkspacesNext]_<<part, vars, reconcilerVars>>

\* What happens to the reconciler's Workspace: two of a failed call, a change of the
\* catalog, a change of the key, and an edit.
TwoEvents ==
  part = "reconciler" =>
    spent["fault"] + spent["image"] + spent["key"] + Reconciler!Server.gen <= 3

\* Whenever the controller has come to rest the status says what is there, and
\* adding the first key or removing the last one has reached the workload.
RestIsConverged == part = "reconciler" => Reconciler!RestIsConverged

=============================================================================
