---------------------------- MODULE ConsoleEdits ----------------------------
(***************************************************************************)
(* Edits of shared objects through the screens of internal/ui and its REST *)
(* API: a person's UserSpace, a catalog entry, an ImageRegistry, the       *)
(* platform settings and the resources of a Workspace.                     *)
(*                                                                         *)
(* Every edit is a read and a write with time in between: a form is filled *)
(* from the object as the page showed it and sends its fields back, and a  *)
(* PATCH handler reads the object, overlays the request and sends the      *)
(* result.  The writes are merge patches without a resourceVersion, so     *)
(* what an edit sends wins over whatever was written since it read.  Each  *)
(* form or handler sends its own subset of the fields.                     *)
(*                                                                         *)
(* A field is 0 when it holds its zero value (blank, unticked, empty).  A  *)
(* group of fields that every edit reads, converts and sends alike is one  *)
(* field here.  A behaviour is about one subject: edits of different       *)
(* objects do not meet, except that the settings name the GPU resource the *)
(* resource form of a Workspace is filled from.                            *)
(***************************************************************************)
EXTENDS Naturals

CONSTANTS Procs,   \* requests, each of which edits one object once
          Absent   \* no such object, or no request under way

VARIABLES
  about,    \* the subject of this behaviour
  obj,      \* the objects the API server holds
  pc,       \* where each request is
  req,      \* what each request has read: the form it will send back
  cache,    \* Server.platform: the settings, and whether they are within the TTL
  lapsed,   \* the catalog entry's scheduled deprecation date has come
  meant,    \* history: the value each field was last deliberately given
  excused   \* history: the ways an untouched field may have been lost

vars == <<about, obj, pc, req, cache, lapsed, meant, excused>>

Subjects == [people   |-> {"userspace"},
             catalog  |-> {"image"},
             registry |-> {"registry"},
             settings |-> {"platform", "workspace"}]

Kinds == UNION {Subjects[s] : s \in DOMAIN Subjects}

\* amounts: the workspaces, cpu, memory and storage of the quota; labels: the
\* names, descriptions, icon, tags, theme and support address; aws and sync:
\* the two halves of a registry's spec.  Of a Workspace, compute: the CPU request
\* and the memory limit; env: the variables with a plain value; unboxed: what the
\* form has no box for (a CPU limit, a memory request, a variable with a valueFrom);
\* gpu: 0 for none, n + 1 for one asked for under the name that gpuName = n selects.
Fields ==
  [userspace |-> {"role", "disabled", "amounts", "gpu", "key1", "key2", "onboarded"},
   image     |-> {"image", "labels", "deprecated", "deprecateAt", "allowRoot", "pullSecret"},
   registry  |-> {"aws", "sync", "pullSecret"},
   platform  |-> {"labels", "gpuName", "logo"},
   workspace |-> {"compute", "env", "unboxed", "gpu"}]

\* amounts: 0 for none at all, 1 for the default ones, 2 for others.  The schema
\* of a registry's sync refuses or defaults what is zero.
Values(k, f) ==
  CASE <<k, f>> \in {<<"userspace", "amounts">>, <<"workspace", "gpu">>} -> 0 .. 2
    [] <<k, f>> = <<"registry", "sync">> -> 1 .. 2
    [] OTHER -> 0 .. 1

\* What a form sends for a box that was left empty.
Emptied == 3

Blank(k) == [f \in Fields[k] |-> 0]
Filled(k) == [f \in Fields[k] |-> 1]

Keys == {"key1", "key2"}

\* What a field can hold in an object, and an object of each kind.
Stored(k) == IF k \in {"image", "platform"} THEN 0 .. 1 ELSE 0 .. 2
Objects(k) == [Fields[k] -> Stored(k)]

\* What a request can have read: some fields of an object, and the settings.
Readings ==
  UNION {[kind : {k}, form : UNION {[fields -> Stored(k)] : fields \in SUBSET Fields[k]},
          config : Objects("platform") \union {Absent}, stale : BOOLEAN] : k \in Kinds}

NoneAssumption == Absent \notin Readings /\ \A k \in Kinds : Absent \notin Objects(k)

\* Server.gpuResource: the platform's name for a GPU, or the default one.
GPUResource(config) == IF config = Absent THEN 0 ELSE config.gpuName

Excuses == {"overlap", "apiPatched", "renamed", "blankShown", "lateFetch", "unread"}

Init ==
  /\ about \in DOMAIN Subjects
  /\ obj \in {[userspace |-> [Filled("userspace") EXCEPT !.role = 0, !.disabled = 0, !.key2 = 0],
               image     |-> [Filled("image") EXCEPT !.deprecated = 0],
               registry  |-> Filled("registry"),
               platform  |-> config,
               workspace |-> [Filled("workspace") EXCEPT !.gpu = GPUResource(config) + 1]] :
                  config \in {Absent, Filled("platform")}}
  /\ obj.platform = Absent => about = "settings"
  /\ pc = [p \in Procs |-> "idle"]
  /\ req = [p \in Procs |-> Absent]
  /\ cache = [config |-> Absent, fresh |-> FALSE]
  /\ lapsed = FALSE
  /\ meant = [k \in Kinds |-> IF obj[k] = Absent THEN Blank(k) ELSE obj[k]]
  /\ excused = {}

-----------------------------------------------------------------------------
(* What a page or a handler reads *)

Only(record, fields) == [f \in fields |-> record[f]]

\* The row of AdminPeoplePage, and what the membership PATCH keeps of a field
\* its body omits.
MembershipForm == Only(obj.userspace, {"role", "disabled"})

\* The row of AdminQuotaPage, and the quota the quota PATCH overlays.
QuotaForm == Only(obj.userspace, {"amounts", "gpu"})

\* spec.sshAuthorizedKeys, as the profile's key handlers read it.
KeyList == Only(obj.userspace, Keys)

IsDeprecated(image) == image.deprecated = 1 \/ (image.deprecateAt = 1 /\ lapsed)

\* catalogEntry: the box is ticked when the entry counts as deprecated, whether
\* by its flag or by its date.
CatalogForm == [obj.image EXCEPT !.deprecated = IF IsDeprecated(obj.image) THEN 1 ELSE 0]

\* registryEntry, and what the registry PATCH overlays.
RegistryForm == obj.registry

\* AdminSettingsPage: a logo is uploaded or cleared, never sent back.
SettingsForm(config) == Only(config, {"labels", "gpuName"})

\* resourceValuesFromWorkspace and the rows of the environment: a GPU asked for
\* under another name than config's is not shown, what has no box is not either,
\* and what is not shown is not sent.
ResourcesForm(config) ==
  [obj.workspace EXCEPT
     !.unboxed = 0,
     !.gpu = IF obj.workspace.gpu = GPUResource(config) + 1 THEN @ ELSE 0]

\* The page is shown, or the handler has made its read.  config is the settings
\* that went into it.
Filling(p, k, form, config, next) ==
  /\ pc' = [pc EXCEPT ![p] = next]
  /\ req' = [req EXCEPT ![p] = [kind |-> k, form |-> form, config |-> config, stale |-> FALSE]]

Shown(p, k, form) == Filling(p, k, form, Absent, "editing")

Read(p, k, form) ==
  /\ pc[p] = "idle" /\ k \in Subjects[about] /\ obj[k] # Absent
  /\ Shown(p, k, form)
  /\ UNCHANGED <<about, obj, cache, lapsed, meant, excused>>

ReadMembership(p) == Read(p, "userspace", MembershipForm)
ReadQuota(p)      == Read(p, "userspace", QuotaForm)
ReadKeys(p)       == Read(p, "userspace", KeyList)
ReadCatalog(p)    == Read(p, "image", CatalogForm)
ReadRegistry(p)   == Read(p, "registry", RegistryForm)

\* renderSettings shows the defaults when there are no settings, and also when
\* they cannot be read.
ReadSettings(p) ==
  /\ pc[p] = "idle" /\ about = "settings"
  /\ \/ /\ Shown(p, "platform",
                 SettingsForm(IF obj.platform = Absent THEN Blank("platform") ELSE obj.platform))
        /\ UNCHANGED excused
     \/ /\ obj.platform # Absent
        /\ Shown(p, "platform", SettingsForm(Blank("platform")))
        /\ excused' = excused \union {"blankShown"}
  /\ UNCHANGED <<about, obj, cache, lapsed, meant>>

\* workspacePageData reads the Workspace, then platformConfig the settings: from
\* its cache within the TTL, and from the API server after it, where a Get that
\* fails counts as no settings.
ReadResources(p) ==
  /\ pc[p] = "idle" /\ about = "settings"
  /\ \/ /\ cache.fresh
        /\ Filling(p, "workspace", ResourcesForm(cache.config), cache.config, "editing")
        /\ UNCHANGED excused
     \/ \E config \in {obj.platform, Absent} :
          /\ ~cache.fresh
          /\ Filling(p, "workspace", ResourcesForm(config), config, "fetching")
          /\ excused' = excused \union {e \in {"unread"} : config # obj.platform}
  /\ UNCHANGED <<about, obj, cache, lapsed, meant>>

\* No settings are kept although there are some, for the Get failed.
Unread(config) == config = Absent /\ "unread" \in excused

\* platformConfig keeps what it read, or failed to, for another TTL, whatever has
\* been saved since.
StoreConfig(p) ==
  LET config == req[p].config IN
  /\ pc[p] = "fetching"
  /\ pc' = [pc EXCEPT ![p] = "editing"]
  /\ cache' = [config |-> config, fresh |-> TRUE]
  /\ excused' = excused \union {e \in {"lateFetch"} : config # obj.platform /\ ~Unread(config)}
  /\ UNCHANGED <<about, obj, req, lapsed, meant>>

\* platformConfigTTL runs out.
Expire ==
  /\ cache.fresh
  /\ cache' = [cache EXCEPT !.fresh = FALSE]
  /\ UNCHANGED <<about, obj, pc, req, lapsed, meant, excused>>

DatePasses ==
  /\ about = "catalog" /\ ~lapsed
  /\ lapsed' = TRUE
  /\ UNCHANGED <<about, obj, pc, req, cache, meant, excused>>

-----------------------------------------------------------------------------
(* What is written *)

\* The values a person can give a field: the box of a catalog entry's image is
\* required, and a GPU is asked for under the name the form carries.
Choices(p, f) ==
  CASE f = "image" -> {1}
    [] f = "unboxed" -> {0}
    [] req[p].kind = "workspace" /\ f = "gpu" -> {0, GPUResource(req[p].config) + 1}
    [] OTHER -> Values(req[p].kind, f)

\* The person leaves the form alone, or changes one field of it: boxes are the
\* fields that can be emptied.
Submissions(p, boxes) ==
  LET form == req[p].form
      Inputs(f) == Choices(p, f) \union {v \in {Emptied} : f \in boxes}
  IN  {form} \union UNION {{[form EXCEPT ![f] = v] : v \in Inputs(f)} : f \in DOMAIN form}

Changed(before, after) == {f \in DOMAIN after : after[f] # before[f]}

\* The other requests that have read the object have now read an old one.
Outdated(p, k) ==
  [q \in Procs |-> IF q # p /\ req[q] # Absent /\ req[q].kind = k
                   THEN [req[q] EXCEPT !.stale = TRUE] ELSE req[q]]

Finish(p, k, next) ==
  /\ pc' = [pc EXCEPT ![p] = next]
  /\ req' = [Outdated(p, k) EXCEPT ![p] = Absent]

\* A merge patch by name: it sets the fields it names, and fails when the
\* object is gone.  intended are the fields the person set.
MergePatch(p, k, patch, understood, intended, next) ==
  \/ /\ obj[k] # Absent
     /\ obj' = [obj EXCEPT ![k] = [f \in Fields[k] |-> IF f \in DOMAIN patch THEN patch[f] ELSE @[f]]]
     /\ meant' = [meant EXCEPT ![k] =
          [f \in Fields[k] |-> IF f \in intended THEN understood[f] ELSE @[f]]]
     /\ Finish(p, k, next)
  \/ /\ obj[k] = Absent
     /\ pc' = [pc EXCEPT ![p] = "done"]
     /\ req' = [req EXCEPT ![p] = Absent]
     /\ UNCHANGED <<obj, meant>>

Editing(p, k, fields) ==
  /\ pc[p] = "editing" /\ req[p].kind = k /\ DOMAIN req[p].form = fields

\* Sends back what the request read, with one field changed.
Save(p, k, fields, boxes, FromForm(_), Patch(_)) ==
  /\ Editing(p, k, fields)
  /\ \E form \in Submissions(p, boxes) :
       LET understood == FromForm(form)
       IN  MergePatch(p, k, Patch(understood), understood, Changed(req[p].form, form), "done")
  /\ excused' = IF req[p].stale THEN excused \union {"overlap"} ELSE excused
  /\ UNCHANGED <<about, cache, lapsed>>

Same(form) == form

Membership == {"role", "disabled"}
Quota      == {"amounts", "gpu"}

\* PatchUserSpaceMembership, from handleAdminUpdateMembership: a missing role is
\* the ordinary one, a missing box an unticked one.
SaveMembership(p) == Save(p, "userspace", Membership, {}, Same, Same)

\* The same from handleAPIAdminUpdateMembership, over what userSpaceByName found.
PatchMembership(p) == Save(p, "userspace", Membership, {}, Same, Same)

\* quotaFromForm: an empty amount is the default one.
QuotaFromForm(form) == [form EXCEPT !.amounts = IF @ = Emptied THEN 1 ELSE @]

\* UserSpaceQuota.GPU is omitempty: a count of zero is not in the patch.
QuotaPatch(quota) == Only(quota, {f \in DOMAIN quota : f = "gpu" => quota.gpu # 0})

\* PatchUserSpaceQuota, from handleAdminUpdateQuota.
SaveQuota(p) == Save(p, "userspace", Quota, {"amounts"}, QuotaFromForm, QuotaPatch)

\* The same from handleAPIPatchQuota, which takes its numbers as they are.
PatchQuota(p) == Save(p, "userspace", Quota, {}, Same, QuotaPatch)

\* handleProfileAddKey, handleProfileRemoveKey: PatchUserSpaceKeys sends the
\* whole list.  A key that is already there, or already gone, ends the request.
SaveKeys(p) == Save(p, "userspace", Keys, {}, Same, Same)

\* PatchUserSpaceOnboardingCompleted names one field and reads nothing.
CompleteOnboarding(p) ==
  /\ pc[p] = "idle" /\ about = "people"
  /\ MergePatch(p, "userspace", [onboarded |-> 1], [onboarded |-> 1], {"onboarded"}, "done")
  /\ UNCHANGED <<about, cache, lapsed, excused>>

\* workspaceImagePatchSpec: image is omitempty, every other field is sent.
ImagePatch(edit) == Only(edit, {f \in DOMAIN edit : f = "image" => edit.image # 0})

\* handleAdminUpdateWorkspaceImage.
SaveCatalog(p) == Save(p, "image", Fields.image, {}, Same, ImagePatch)

\* handleAPIPatchWorkspaceImage reads nothing: what the body does not name is
\* zero, and the fields that WorkspaceImageRequest lacks always are.
PatchImage(p) ==
  /\ pc[p] = "idle" /\ about = "catalog"
  /\ \E f \in {"image", "labels", "deprecated"} :
       LET edit == [Blank("image") EXCEPT ![f] = 1]
       IN  MergePatch(p, "image", ImagePatch(edit), edit, {f}, "done")
  /\ excused' = excused \union {"apiPatched"}
  /\ UNCHANGED <<about, cache, lapsed>>

\* syncFromForm: an empty interval, limit or mode is the default one.
RegistryFromForm(form) == [form EXCEPT !.sync = IF @ = Emptied THEN 1 ELSE @]

\* Mutant of RegistryPatch: an empty reference is left out, as omitempty would.
RegistryPatchOmittingEmpty(edit) == Only(edit, {f \in DOMAIN edit : f = "pullSecret" => edit[f] # 0})

\* imageRegistryMergePatch sends every editable field.
RegistryPatch(edit) == edit

\* handleAdminUpdateImageRegistry.
SaveRegistry(p) ==
  Save(p, "registry", Fields.registry, {"sync"}, RegistryFromForm, RegistryPatch)

\* handleAPIPatchImageRegistry, with imageRegistrySyncFromRequest.
PatchRegistry(p) == Save(p, "registry", Fields.registry, {}, Same, RegistryPatch)

\* ForceSyncImageRegistry touches an annotation only.
ForceSync(p) ==
  /\ pc[p] = "idle" /\ about = "registry"
  /\ pc' = [pc EXCEPT ![p] = "done"]
  /\ UNCHANGED <<about, obj, req, cache, lapsed, meant, excused>>

\* PatchWorkspaceResources replaces spec.resources and spec.env as a whole by what
\* ResourceValues.Requirements and envVarsFromForm make of the form.
SaveResources(p) == Save(p, "workspace", Fields.workspace, {}, Same, Same)

-----------------------------------------------------------------------------
(* The settings: patch, or create when there are none *)

Renaming(config) == config.gpuName # GPUResource(obj.platform)

\* PatchPlatformConfig tries the patch first.  The logo is in it when one is
\* uploaded or cleared.
SaveSettings(p) ==
  /\ Editing(p, "platform", {"labels", "gpuName"})
  /\ \E form \in Submissions(p, {}), logo \in {{}} \union {{v} : v \in 0 .. 1} :
       LET upload == {f \in {"logo"} : logo # {}}
           update == [f \in {"labels", "gpuName"} \union upload |->
                        IF f = "logo" THEN CHOOSE v \in logo : TRUE ELSE form[f]]
           set    == Changed(req[p].form, form) \union upload
       IN  \/ /\ obj.platform # Absent
              /\ MergePatch(p, "platform", update, update, set, "saved")
              /\ excused' = excused
                   \union {e \in {"overlap"} : req[p].stale}
                   \union {e \in {"renamed"} : Renaming(update)}
           \/ /\ obj.platform = Absent
              /\ pc' = [pc EXCEPT ![p] = "creating"]
              /\ req' = [req EXCEPT ![p].form = update]
              /\ UNCHANGED <<obj, meant, excused>>
  /\ UNCHANGED <<about, cache, lapsed>>

\* The create that follows a patch of nothing, which a concurrent first save
\* may have overtaken: that one stays, and this one ends in an error.
CreateSettings(p) ==
  /\ pc[p] = "creating"
  /\ \/ /\ obj.platform = Absent
        /\ LET fresh == [f \in Fields.platform |->
                           IF f \in DOMAIN req[p].form THEN req[p].form[f] ELSE 0]
           IN  /\ obj' = [obj EXCEPT !.platform = fresh]
               /\ meant' = [meant EXCEPT !.platform = fresh]
               /\ excused' = excused \union {e \in {"renamed"} : Renaming(fresh)}
        /\ Finish(p, "platform", "saved")
     \/ /\ obj.platform # Absent
        /\ pc' = [pc EXCEPT ![p] = "done"]
        /\ req' = [req EXCEPT ![p] = Absent]
        /\ UNCHANGED <<obj, meant, excused>>
  /\ UNCHANGED <<about, cache, lapsed>>

\* Mutant of Invalidate: the cache is left to its TTL.
InvalidateNothing(p) ==
  /\ pc[p] = "saved"
  /\ pc' = [pc EXCEPT ![p] = "done"]
  /\ UNCHANGED <<about, obj, req, cache, lapsed, meant, excused>>

\* invalidatePlatformConfig, after the write.
Invalidate(p) ==
  /\ pc[p] = "saved"
  /\ cache' = [cache EXCEPT !.fresh = FALSE]
  /\ pc' = [pc EXCEPT ![p] = "done"]
  /\ UNCHANGED <<about, obj, req, lapsed, meant, excused>>

-----------------------------------------------------------------------------
(* Objects come and go *)

\* The create by name of one of specs.  A taken name is an error, or for a
\* catalog entry another slug: what exists is never overwritten.
Created(p, k, specs) ==
  /\ pc[p] = "idle" /\ k \in Subjects[about]
  /\ \/ /\ obj[k] = Absent
        /\ \E spec \in specs :
             LET o == [f \in Fields[k] |-> IF f \in DOMAIN spec THEN spec[f] ELSE 0]
             IN  obj' = [obj EXCEPT ![k] = o] /\ meant' = [meant EXCEPT ![k] = o]
        /\ Finish(p, k, "done")
     \/ /\ obj[k] # Absent
        /\ pc' = [pc EXCEPT ![p] = "done"]
        /\ UNCHANGED <<obj, req, meant>>
  /\ UNCHANGED <<about, cache, lapsed, excused>>

\* handleAdminCreateUserSpace: userSpaceFromForm, which reads the quota as
\* quotaFromForm does.  (Its local login is a step of Accounts.)
CreateUserSpace(p) ==
  Created(p, "userspace",
          {QuotaFromForm(form) :
             form \in [role : 0 .. 1, amounts : {0, 2, Emptied}, gpu : 0 .. 1]})

\* handleAPICreateUserSpace: a name, an owner and a role, with a quota of zeros.
PostUserSpace(p) == Created(p, "userspace", [role : 0 .. 1])

\* handleAdminCreateWorkspaceImage: a name and an image, never deprecated yet.
CreateImage(p) ==
  Created(p, "image",
          [image : {1}, labels : {1}, deprecateAt : 0 .. 1, allowRoot : 0 .. 1,
           pullSecret : 0 .. 1])

\* handleAPICreateWorkspaceImage.
PostImage(p) == Created(p, "image", [image : {1}, labels : 0 .. 1, deprecated : 0 .. 1])

\* handleAdminCreateImageRegistry.
CreateRegistry(p) ==
  Created(p, "registry",
          {RegistryFromForm(form) :
             form \in [aws : 0 .. 1, sync : {2, Emptied}, pullSecret : 0 .. 1]})

\* handleAPICreateImageRegistry: a region is required, and the schema defaults
\* what the body leaves out of sync.
PostRegistry(p) ==
  Created(p, "registry", [aws : {1}, sync : 1 .. 2, pullSecret : 0 .. 1])

Deleted(p, k) ==
  /\ pc[p] = "idle" /\ k \in Subjects[about]
  /\ obj' = [obj EXCEPT ![k] = Absent]
  /\ Finish(p, k, "done")
  /\ UNCHANGED <<about, cache, lapsed, meant, excused>>

\* The delete buttons of the screens and the DELETE handlers.
DeleteUserSpace(p) == Deleted(p, "userspace")
DeleteImage(p)     == Deleted(p, "image")
DeleteRegistry(p)  == Deleted(p, "registry")

-----------------------------------------------------------------------------

Reads(p) ==
  \/ ReadMembership(p) \/ ReadQuota(p) \/ ReadKeys(p) \/ ReadCatalog(p)
  \/ ReadRegistry(p) \/ ReadSettings(p) \/ ReadResources(p) \/ StoreConfig(p)

Writes(p) ==
  \/ SaveMembership(p) \/ PatchMembership(p) \/ SaveQuota(p) \/ PatchQuota(p)
  \/ SaveKeys(p) \/ CompleteOnboarding(p)
  \/ SaveCatalog(p) \/ PatchImage(p)
  \/ SaveRegistry(p) \/ PatchRegistry(p) \/ ForceSync(p)
  \/ SaveResources(p)
  \/ SaveSettings(p) \/ CreateSettings(p) \/ Invalidate(p)

Creates(p) ==
  \/ CreateUserSpace(p) \/ CreateImage(p) \/ CreateRegistry(p)
  \/ PostUserSpace(p) \/ PostImage(p) \/ PostRegistry(p)

Deletes(p) == DeleteUserSpace(p) \/ DeleteImage(p) \/ DeleteRegistry(p)

Next ==
  \/ \E p \in Procs : Reads(p) \/ Writes(p) \/ Creates(p) \/ Deletes(p)
  \/ Expire \/ DatePasses

Spec == Init /\ [][Next]_vars

-----------------------------------------------------------------------------

TypeOK ==
  /\ about \in DOMAIN Subjects
  /\ \A k \in Kinds : obj[k] = Absent \/ (DOMAIN obj[k] = Fields[k] /\
                                          \A f \in Fields[k] : obj[k][f] \in Values(k, f))
  /\ pc \in [Procs -> {"idle", "fetching", "editing", "creating", "saved", "done"}]
  /\ cache.fresh \in BOOLEAN
  /\ lapsed \in BOOLEAN
  /\ excused \subseteq Excuses

\* Ways in which the code loses a field nobody touched although no other edit
\* overlapped: a GPU count of zero is never sent; the catalog PATCH resets what
\* its body omits; a form saved after the scheduled date turns the date into the
\* flag; the resource form has no box for some of what a Workspace may ask for, and
\* does not show a GPU under another name than the one it has from the settings (the
\* platform took a new one, or the settings could not be read); and settings that
\* could not be read are shown, and then saved, as blank.
KnownLoss(k, f) ==
  \/ k = "userspace" /\ f = "gpu" /\ meant.userspace.gpu = 0
  \/ k = "image" /\ "apiPatched" \in excused
  \/ k = "image" /\ f = "deprecated" /\ lapsed
  \/ k = "workspace" /\ f = "unboxed"
  \/ k = "workspace" /\ f = "gpu" /\ {"renamed", "unread"} \cap excused # {}
  \/ k = "platform" /\ "blankShown" \in excused

\* Every screen and handler that patches an object: a field holds what it was
\* last deliberately given, whatever other fields of the object were edited
\* since, unless two edits overlapped or the loss is a known one.
EditsKeepTheRest ==
  \A k \in Kinds : \A f \in Fields[k] :
    obj[k] # Absent /\ obj[k][f] # meant[k][f] => "overlap" \in excused \/ KnownLoss(k, f)

\* platformConfig and invalidatePlatformConfig: once every save has invalidated
\* the cache, what it still serves within the TTL is what is stored, unless a
\* read that was under way during a save was stored after it, or a Get failed and
\* "no settings" is what it serves.
CacheFollowsSaves ==
  cache.fresh /\ (\A p \in Procs : pc[p] # "saved") =>
    cache.config = obj.platform \/ "lateFetch" \in excused \/ Unread(cache.config)

=============================================================================
