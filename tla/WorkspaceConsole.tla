-------------------------- MODULE WorkspaceConsole --------------------------
(***************************************************************************)
(* What a person does with a Workspace from the screens and the REST API:  *)
(* create it from a catalog entry, start and stop it, watch its status     *)
(* card, and delete it with its home volume.  One name in one namespace,   *)
(* which may be created again after a deletion.                            *)
(*                                                                         *)
(* The screens read the API server; the webhooks that a create passes read *)
(* the manager's cache.  The Workspace controller is reduced to what the   *)
(* screens see of it (WorkspaceReconcile has the controller itself), and   *)
(* quota to a refusal that needs no model here (QuotaAdmission).           *)
(***************************************************************************)
EXTENDS Naturals

CONSTANTS Requests,  \* each creates, starts, stops or deletes once
          None       \* no such object, or nothing read

VARIABLES
  image,    \* the catalog entry: on offer, deprecated or gone
  profile,  \* whether the owner has default SSH keys
  known,    \* the image and profile in the manager's cache
  ws,       \* the Workspace
  sts,      \* its StatefulSet: for which Workspace, and whether it runs
  claim,    \* the home volume of that name
  pod,      \* whether the pod runs
  made,     \* how many Workspaces of this name there have been
  pc,       \* where each request is
  req,      \* what each request has read, and how it ended
  card,     \* the status card in a browser
  events    \* history: what has happened that a screen cannot know

vars == <<image, profile, known, ws, sts, claim, pod, made, pc, req, card, events>>

cluster == <<sts, claim, pod>>

States == {"", "Starting", "Running", "Suspended", "Failed"}

Workspaces == [id : Nat \ {0}, running : BOOLEAN, keys : BOOLEAN, state : States]

\* How the request that fills a form in ends.
Outcomes == {"created", "keyless", "taken", "refused"}

StatefulSets == [id : Nat, running : BOOLEAN]

NoneAssumption == None \notin Outcomes /\ None \notin StatefulSets

workspaceStateSettled(state) == state \in {"Running", "Suspended", "Failed"}

\* What markObserved publishes once the controller has caught up.
Target(w) == IF ~w.running THEN "Suspended" ELSE IF pod THEN "Running" ELSE "Starting"

\* The controller has reacted to the last change and the pods have followed.
AtRest == sts = [id |-> ws.id, running |-> ws.running] /\ ws.state = Target(ws)

Untouched == [saw |-> None, deleted |-> None, outcome |-> None, late |-> FALSE]

Init ==
  /\ image \in {"offered", "deprecated"}
  /\ profile \in BOOLEAN
  /\ known = [image |-> image, profile |-> profile]
  /\ ws \in {None, [id |-> 1, running |-> TRUE, keys |-> TRUE, state |-> "Running"]}
  /\ made = IF ws = None THEN 0 ELSE 1
  /\ sts = IF ws = None THEN None ELSE [id |-> 1, running |-> TRUE]
  /\ claim = IF ws = None THEN None ELSE "bound"
  /\ pod = (ws # None)
  /\ pc = [p \in Requests |-> "idle"]
  /\ req = [p \in Requests |-> Untouched]
  /\ card = None
  /\ events = {}

Happens(e) == events' = events \union {e}

-----------------------------------------------------------------------------
(* Creating *)

\* handleNewWorkspaceForm, behind CatalogGrid: a deprecated entry, or one
\* that is gone, is an error page.  The key is optional when the profile has one.
OpenCreate(p) ==
  /\ pc[p] = "idle"
  /\ IF image = "offered"
     THEN /\ pc' = [pc EXCEPT ![p] = "form"]
          /\ req' = [req EXCEPT ![p].saw = [image |-> image, profile |-> profile]]
     ELSE pc' = [pc EXCEPT ![p] = "done"] /\ UNCHANGED req
  /\ UNCHANGED <<image, profile, known, ws, cluster, made, card, events>>

\* WorkspaceMutator.Default: the owner's keys for a Workspace that names none.
Default(typed) == typed \/ known.profile

\* catalogEntry of the validating webhook.
OnOffer == known.image = "offered"

\* CreateWorkspace: the webhooks, then the write.
Create(p, typed) ==
  /\ pc' = [pc EXCEPT ![p] = "done"]
  /\ \/ /\ OnOffer /\ ws = None
        /\ ws' = [id |-> made + 1, running |-> TRUE, keys |-> Default(typed), state |-> ""]
        /\ made' = made + 1
        /\ req' = [req EXCEPT ![p].outcome = IF Default(typed) THEN "created" ELSE "keyless",
                              ![p].late = req[p].saw # known]
        /\ Happens("others")
     \/ /\ OnOffer /\ ws # None
        /\ req' = [req EXCEPT ![p].outcome = "taken"]
        /\ UNCHANGED <<ws, made, events>>
     \/ /\ ~OnOffer
        /\ req' = [req EXCEPT ![p].outcome = "refused", ![p].late = req[p].saw # known]
        /\ UNCHANGED <<ws, made, events>>
  /\ UNCHANGED <<image, profile, known, cluster, card>>

\* CreateWorkspacePage: what the key field takes, which the page requires of a
\* person without keys on the profile.
KeyField(p) == {typed \in BOOLEAN : typed \/ req[p].saw.profile}

\* handleCreateWorkspace.
Submit(p) == pc[p] = "form" /\ \E typed \in KeyField(p) : Create(p, typed)

\* handleAdminCreateWorkspace, whose dialog requires a key.
AdminCreate(p) == pc[p] = "idle" /\ Create(p, TRUE)

\* handleAPICreateWorkspace, whose body need not have one.
APICreate(p) == pc[p] = "idle" /\ \E typed \in BOOLEAN : Create(p, typed)

-----------------------------------------------------------------------------
(* Starting and stopping *)

\* PatchWorkspaceRunning, from another screen than the card.
SetRunning(p, running) ==
  /\ pc[p] = "idle" /\ ws # None
  /\ ws' = [ws EXCEPT !.running = running]
  /\ pc' = [pc EXCEPT ![p] = "done"]
  /\ Happens("others")
  /\ UNCHANGED <<image, profile, known, cluster, made, req, card>>

\* The dashboard's buttons and another tab (handleWorkspaceRunningPatch), the
\* switch of the administration table, and the API.
DashboardSetRunning(p) == \E running \in BOOLEAN : SetRunning(p, running)
AdminSetRunning(p)     == \E running \in BOOLEAN : SetRunning(p, running)
APISetRunning(p)       == \E running \in BOOLEAN : SetRunning(p, running)

\* The card's own button: the patch, and then the read PatchWorkspaceRunning
\* answers with.
Press(p, running) ==
  /\ pc[p] = "idle" /\ ws # None /\ card # None
  /\ ws' = [ws EXCEPT !.running = running]
  /\ pc' = [pc EXCEPT ![p] = "answering"]
  /\ UNCHANGED <<image, profile, known, cluster, made, req, card, events>>

\* WorkspaceStatusCard: what it shows, and whether it asks again.
StatusCard(settled) == [shown |-> ws.state, polling |-> ~settled]

\* Mutant of Answer: the card is rendered as its status says.
AnswerAsSettled(p) ==
  /\ pc[p] = "answering"
  /\ card' = IF ws = None THEN card ELSE StatusCard(workspaceStateSettled(ws.state))
  /\ pc' = [pc EXCEPT ![p] = "done"]
  /\ UNCHANGED <<image, profile, known, ws, cluster, made, req, events>>

\* The card is rendered as never settled: its state is still the old one.
Answer(p) ==
  /\ pc[p] = "answering"
  /\ card' = IF ws = None THEN card ELSE StatusCard(FALSE)
  /\ pc' = [pc EXCEPT ![p] = "done"]
  /\ UNCHANGED <<image, profile, known, ws, cluster, made, req, events>>

\* handleWorkspacePage.
OpenCard ==
  /\ card = None /\ ws # None
  /\ card' = StatusCard(workspaceStateSettled(ws.state))
  /\ events' = IF ~AtRest /\ workspaceStateSettled(ws.state)
               THEN events \union {"early"} ELSE events
  /\ UNCHANGED <<image, profile, known, ws, cluster, made, pc, req>>

\* handleWorkspaceStatus: a settled state is answered with 286, which ends the
\* polling.
Poll ==
  /\ card # None /\ card.polling /\ ws # None
  /\ card' = StatusCard(workspaceStateSettled(ws.state))
  /\ events' = IF ~AtRest /\ workspaceStateSettled(ws.state)
               THEN events \union {"early"} ELSE events
  /\ UNCHANGED <<image, profile, known, ws, cluster, made, pc, req>>

-----------------------------------------------------------------------------
(* Deleting *)

\* Mutant of DeleteWorkspace: a failure does not end the request.
DeleteWorkspaceIgnoringErrors(p, volume) ==
  /\ pc[p] = "idle" /\ ws # None
  /\ \/ ws' = None
     \/ UNCHANGED ws
  /\ req' = [req EXCEPT ![p].deleted = ws.id]
  /\ pc' = [pc EXCEPT ![p] = IF volume THEN "volume" ELSE "done"]
  /\ Happens("others")
  /\ UNCHANGED <<image, profile, known, cluster, made, card>>

\* What the three delete handlers share.  A failure, or a Workspace that is
\* already gone, ends the request.
DeleteWorkspace(p, volume) ==
  /\ pc[p] = "idle"
  /\ \/ /\ ws # None
        /\ ws' = None
        /\ req' = [req EXCEPT ![p].deleted = ws.id]
        /\ pc' = [pc EXCEPT ![p] = IF volume THEN "volume" ELSE "done"]
        /\ Happens("others")
     \/ /\ pc' = [pc EXCEPT ![p] = "done"]
        /\ UNCHANGED <<ws, req, events>>
  /\ UNCHANGED <<image, profile, known, cluster, made, card>>

\* handleDeleteWorkspace and handleAdminDeleteWorkspace, with the name typed
\* again, and handleAPIDeleteWorkspace.
DeleteOwn(p)   == \E volume \in BOOLEAN : DeleteWorkspace(p, volume)
AdminDelete(p) == \E volume \in BOOLEAN : DeleteWorkspace(p, volume)
APIDelete(p)   == \E volume \in BOOLEAN : DeleteWorkspace(p, volume)

\* DeleteClaim, by name.  A claim in use goes when its pod does.
DeleteClaim(p) ==
  /\ pc[p] = "volume"
  /\ claim' = IF claim # None /\ pod THEN "terminating" ELSE None
  /\ pc' = [pc EXCEPT ![p] = "done"]
  /\ UNCHANGED <<image, profile, known, ws, sts, pod, made, req, card, events>>

\* The second call fails, which the answer says, or the request is cut off.
DeleteClaimFails(p) ==
  /\ pc[p] = "volume"
  /\ pc' = [pc EXCEPT ![p] = "done"]
  /\ UNCHANGED <<image, profile, known, ws, cluster, made, req, card, events>>

-----------------------------------------------------------------------------
(* The cluster *)

\* The Workspace controller applies the StatefulSet.  One left by an earlier
\* Workspace of the name has to be collected first.
ApplyStatefulSet ==
  /\ ws # None /\ (sts # None => sts.id = ws.id)
  /\ sts # [id |-> ws.id, running |-> ws.running]
  /\ sts' = [id |-> ws.id, running |-> ws.running]
  /\ UNCHANGED <<image, profile, known, ws, claim, pod, made, pc, req, card, events>>

\* The controller publishes what it sees, or that a call failed.
Publish ==
  /\ ws # None /\ sts = [id |-> ws.id, running |-> ws.running]
  /\ ws.state # Target(ws)
  /\ ws' = [ws EXCEPT !.state = Target(ws)]
  /\ UNCHANGED <<image, profile, known, cluster, made, pc, req, card, events>>

PublishFailure ==
  /\ ws # None /\ ws.state # Target(ws) /\ ws.state # "Failed"
  /\ ws' = [ws EXCEPT !.state = "Failed"]
  /\ UNCHANGED <<image, profile, known, cluster, made, pc, req, card, events>>

CreateClaim ==
  /\ sts # None /\ sts.running /\ claim = None
  /\ claim' = "bound"
  /\ UNCHANGED <<image, profile, known, ws, sts, pod, made, pc, req, card, events>>

StartPod ==
  /\ sts # None /\ sts.running /\ claim = "bound" /\ ~pod
  /\ pod' = TRUE
  /\ UNCHANGED <<image, profile, known, ws, sts, claim, made, pc, req, card, events>>

StopPod ==
  /\ pod /\ (sts # None => ~sts.running)
  /\ pod' = FALSE
  /\ UNCHANGED <<image, profile, known, ws, sts, claim, made, pc, req, card, events>>

PodFails ==
  /\ pod /\ "podFailed" \notin events
  /\ pod' = FALSE
  /\ events' = events \union {"podFailed", "others"}
  /\ UNCHANGED <<image, profile, known, ws, sts, claim, made, pc, req, card>>

RemoveClaim ==
  /\ claim = "terminating" /\ ~pod
  /\ claim' = None
  /\ UNCHANGED <<image, profile, known, ws, sts, pod, made, pc, req, card, events>>

CollectStatefulSet ==
  /\ sts # None /\ (ws # None => ws.id # sts.id)
  /\ sts' = None
  /\ UNCHANGED <<image, profile, known, ws, claim, pod, made, pc, req, card, events>>

\* An administrator deprecates or removes the entry; the owner edits the profile.
CatalogOrProfileChanges ==
  /\ "changed" \notin events
  /\ \/ image' \in {"offered", "deprecated", None} \ {image} /\ UNCHANGED profile
     \/ profile' = ~profile /\ UNCHANGED image
  /\ Happens("changed")
  /\ UNCHANGED <<known, ws, cluster, made, pc, req, card>>

Deliver ==
  /\ known # [image |-> image, profile |-> profile]
  /\ known' = [image |-> image, profile |-> profile]
  /\ UNCHANGED <<image, profile, ws, cluster, made, pc, req, card, events>>

-----------------------------------------------------------------------------

Next ==
  \/ \E p \in Requests :
       \/ OpenCreate(p) \/ Submit(p) \/ AdminCreate(p) \/ APICreate(p)
       \/ DashboardSetRunning(p) \/ AdminSetRunning(p) \/ APISetRunning(p)
       \/ (\E running \in BOOLEAN : Press(p, running)) \/ Answer(p)
       \/ DeleteOwn(p) \/ AdminDelete(p) \/ APIDelete(p)
       \/ DeleteClaim(p) \/ DeleteClaimFails(p)
  \/ OpenCard \/ Poll
  \/ ApplyStatefulSet \/ Publish \/ PublishFailure \/ CreateClaim \/ StartPod \/ StopPod
  \/ PodFails \/ RemoveClaim \/ CollectStatefulSet
  \/ CatalogOrProfileChanges \/ Deliver

Spec == Init /\ [][Next]_vars

-----------------------------------------------------------------------------

TypeOK ==
  /\ image \in {"offered", "deprecated", None}
  /\ profile \in BOOLEAN /\ pod \in BOOLEAN
  /\ ws \in Workspaces \union {None}
  /\ claim \in {"bound", "terminating", None}
  /\ pc \in [Requests -> {"idle", "form", "answering", "volume", "done"}]
  /\ card \in [shown : States, polling : BOOLEAN] \union {None}

\* A form that was shown ends in a Workspace with a key, unless the catalog or
\* the profile has changed, or the name is taken.
FormKeepsItsPromise ==
  \A p \in Requests :
    req[p].saw # None /\ req[p].outcome \in {"keyless", "refused"} => req[p].late

\* A card that has stopped polling shows how it ended, unless a poll was answered
\* before the controller had reacted or somebody else moved the Workspace.
CardCatchesUp ==
  card # None /\ ~card.polling /\ ws # None /\ AtRest
    /\ (\A p \in Requests : pc[p] # "answering") =>
      card.shown = ws.state \/ events \intersect {"early", "others"} # {}

\* handleNewWorkspaceForm refuses a deprecated entry so that the user "finds
\* out before filling the form in", and asks for a key when the profile has
\* none; workspacePollTrigger polls while the Workspace is on its way elsewhere.
\* What the form and the card say of a Workspace is what becomes of it.
ScreensTellTheTruth == FormKeepsItsPromise /\ CardCatchesUp

\* handleDeleteWorkspace deletes the volume "only once the workspace deletion has
\* succeeded": a home volume goes from under a Workspace only if that Workspace
\* was created under the name while the deletion of an earlier one was under way.
HomesAreKept ==
  [][claim = "bound" /\ claim' # "bound" /\ ws # None =>
       \E p \in Requests : pc[p] = "volume" /\ pc'[p] = "done" /\ req[p].deleted # ws.id]_vars

=============================================================================
