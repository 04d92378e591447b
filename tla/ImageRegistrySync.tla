------------------------- MODULE ImageRegistrySync -------------------------
(***************************************************************************)
(* One ImageRegistry, the remote registry it names, the WorkspaceImages of *)
(* the catalog, and the single worker that keeps the catalog in step with  *)
(* the registry: internal/controller/imageregistry_controller.go.          *)
(*                                                                         *)
(* A remote registry cannot be watched, so a sync is started by a timer,   *)
(* by an event of the ImageRegistry (its own status patches among them),   *)
(* or by an event of a WorkspaceImage it owns.                             *)
(***************************************************************************)
EXTENDS WatchLog, RegistrySelection

CONSTANTS Images,      \* the images, [repo, tag], the registry may hold
          NameOf,      \* syncedImageName: the entry an image is synced to
          Syncs,       \* the values of spec.sync an administrator may set
          None,        \* no entry, no object
          Edited,      \* what an entry shows that was written by hand
          MaxGen,      \* bound on metadata.generation
          MaxLag,      \* bound on the events under way to one cache
          MaxPush,     \* bound on the push times
          Held,        \* what the registry may hold at first
          Allowed,     \* the kinds of trouble that may happen, each once
          MaxTrouble   \* bound on the trouble in one behaviour

Troubles == {"fault", "crash", "hand", "remote", "force"}

Names == {NameOf[i] : i \in Images}
Repos == {i.repo : i \in Images}
Tags  == {i.tag : i \in Images}

ASSUME BoundAssumption ==
  /\ MaxGen \in Nat \ {0} /\ MaxLag \in Nat \ {0} /\ MaxPush \in Nat \ {0}
  /\ Held \subseteq [Images -> 0 .. MaxPush]
  /\ Allowed \subseteq Troubles /\ MaxTrouble \in Nat
ASSUME SyncAssumption ==
  Syncs \subseteq [sel : Selections(Repos, Tags), prune : BOOLEAN,
                   compiles : BOOLEAN]
ASSUME EditedAssumption == Edited \notin Images

VARIABLES
  regLog,    \* the ImageRegistry, as a log of versions
  catLog,    \* the catalog: per name an entry or None, as a log of versions
  remote,    \* per image, when it was pushed; 0 when it is not there
  queued,    \* the workqueue holds the ImageRegistry's key
  timer,     \* a RequeueAfter is under way
  pc, snap,  \* the worker: where it is, and the ImageRegistry it read
  listed,    \* the remote registry as the worker last listed it
  selected,  \* what Select returned
  next,      \* the first of it that is not applied yet
  doomed,    \* the entries prune is going to delete
  failed,    \* this sync is to be reported as failed
  spent      \* the kinds of trouble there have been

worker == <<pc, snap, listed, selected, next, doomed, failed>>
vars == <<regLog, catLog, remote, queued, timer, worker, spent>>

Server == Current(regLog)
Catalog == Current(catLog)

Room(log) == Len(log) <= MaxLag

Spend(kind) ==
  /\ kind \in Allowed \ spent /\ Cardinality(spent) < MaxTrouble
  /\ spent' = spent \union {kind}

\* What a WorkspaceImage shows: a remote image, or what somebody wrote by hand.
\* An owned one carries the registry's ownerReference and label.
Entries == [image : Images \union {Edited}, owned : BOOLEAN]

Catalogs == [Names -> Entries \union {None}]

\* Of lastSyncTime only whether it changes is kept: 0 is unset, 1 and 2 alternate.
Statuses ==
  [og : 0 .. MaxGen, images : Nat, lastSync : 0 .. 2,
   cond : [reason : {"None", "Synced", "SyncFailed"}, og : 0 .. MaxGen]]

NoStatus == [og |-> 0, images |-> 0, lastSync |-> 0,
             cond |-> [reason |-> "None", og |-> 0]]

Registries ==
  [phase : {"live", "deleting", "gone"}, gen : 1 .. MaxGen, sync : Syncs,
   force : Nat, status : Statuses]

ASSUME NoneAssumption == None \notin Entries /\ None \notin Registries

\* Nothing is left of an object that is gone.
Gone == [phase |-> "gone", gen |-> 1, sync |-> CHOOSE s \in Syncs : TRUE,
         force |-> 0, status |-> NoStatus]

IsOwned(entry) == entry # None /\ entry.owned

OwnedNames(catalog) == {n \in Names : IsOwned(catalog[n])}

-----------------------------------------------------------------------------
(* Reconcile, cut where it calls the registry or the API server *)

ToMark(fails) == pc' = "mark" /\ failed' = fails

\* The worker lets go of the key.
ToIdle ==
  /\ pc' = "idle" /\ snap' = None
  /\ selected' = <<>> /\ next' = 1 /\ doomed' = {} /\ failed' = FALSE
  /\ UNCHANGED listed

Reconcile ==
  /\ pc = "idle" /\ queued
  /\ queued' = FALSE
  /\ \/ /\ Cached(regLog).phase = "live"
        /\ pc' = "list" /\ snap' = Cached(regLog)
     \/ /\ Cached(regLog).phase # "live"
        /\ UNCHANGED <<pc, snap>>
  /\ UNCHANGED <<regLog, catLog, remote, timer, listed, selected, next, doomed,
                 failed, spent>>

\* What Provider.List may return: every tagged image, in any order.
Listings(held) ==
  SetToSeqs({[repo |-> i.repo, tag |-> i.tag, pushed |-> held[i]] :
               i \in {j \in Images : held[j] > 0}})

ImageOf(listedImage) == [repo |-> listedImage.repo, tag |-> listedImage.tag]

\* Mutant of List: a registry that cannot be reached is taken to be empty.
ListOrNothing ==
  /\ pc = "list"
  /\ listed' = remote
  /\ \E images \in Listings(remote) \union {<<>>} :
       selected' = Select(images, snap.sync.sel)
  /\ \/ /\ snap.sync.compiles
        /\ pc' = "apply" /\ UNCHANGED failed
     \/ /\ ~snap.sync.compiles
        /\ ToMark(TRUE)
  /\ UNCHANGED <<regLog, catLog, remote, queued, timer, snap, next, doomed,
                 spent>>

\* provider.List, whose pages are one step here, CompileSelection and Select.
List ==
  /\ pc = "list"
  /\ listed' = remote
  /\ \/ /\ snap.sync.compiles
        /\ \E images \in Listings(remote) :
             selected' = Select(images, snap.sync.sel)
        /\ pc' = "apply" /\ UNCHANGED failed
     \/ /\ ~snap.sync.compiles
        /\ ToMark(TRUE) /\ UNCHANGED selected
  /\ UNCHANGED <<regLog, catLog, remote, queued, timer, snap, next, doomed,
                 spent>>

\* Different images may be given one name: lower case, and a dash for whatever
\* a name cannot hold.
syncedImageName(listedImage) == NameOf[ImageOf(listedImage)]

\* Mutant of SyncedEntry: the ownerReference and the label are left out.
SyncedEntryUnowned(listedImage) ==
  [image |-> ImageOf(listedImage), owned |-> FALSE]

\* applyOwned overwrites whatever has the name, and takes it over.
SyncedEntry(listedImage) == [image |-> ImageOf(listedImage), owned |-> TRUE]

ApplyNext ==
  /\ pc = "apply" /\ next <= Len(selected) /\ Room(catLog)
  /\ catLog' = Write(catLog, [Catalog EXCEPT
       ![syncedImageName(selected[next])] = SyncedEntry(selected[next])])
  /\ next' = next + 1
  /\ UNCHANGED <<regLog, remote, queued, timer, pc, snap, listed, selected,
                 doomed, failed, spent>>

desiredNames == {syncedImageName(s) : s \in Range(selected)}

\* Every image is applied; prune lists what the cache has of the registry's
\* entries.
StartPrune ==
  /\ pc = "apply" /\ next > Len(selected)
  /\ \/ /\ snap.sync.prune
        /\ doomed' = OwnedNames(Cached(catLog)) \ desiredNames
        /\ pc' = "prune"
     \/ /\ ~snap.sync.prune
        /\ pc' = "mark" /\ UNCHANGED doomed
  /\ next' = 1
  /\ UNCHANGED <<regLog, catLog, remote, queued, timer, snap, listed, selected,
                 failed, spent>>

\* One Delete; an entry that is not there is no error.
PruneNext ==
  /\ pc = "prune" /\ Room(catLog)
  /\ \/ \E n \in doomed :
          /\ catLog' = Write(catLog, [Catalog EXCEPT ![n] = None])
          /\ doomed' = doomed \ {n}
          /\ UNCHANGED pc
     \/ /\ doomed = {}
        /\ pc' = "mark"
        /\ UNCHANGED <<catLog, doomed>>
  /\ UNCHANGED <<regLog, remote, queued, timer, snap, listed, selected, next,
                 failed, spent>>

\* A call fails, before or after what it asked for was done.
ReconcileFails ==
  /\ pc \in {"list", "apply", "prune"}
  /\ Spend("fault")
  /\ ToMark(TRUE)
  /\ selected' = <<>> /\ next' = 1 /\ doomed' = {}
  /\ UNCHANGED <<regLog, catLog, remote, queued, timer, snap, listed>>

-----------------------------------------------------------------------------
(* patchStatus *)

\* metav1.Now() is written to the second: the second of the patch before this
\* one, or a later one, which is then later than what the worker has read too.
Now == ({Server.status.lastSync} \ {0})
         \union {IF Server.status.lastSync = 1 THEN 2 ELSE 1}

\* The status a sync computes from the object it read.
markReady(now) ==
  [og |-> snap.gen, images |-> Len(selected), lastSync |-> now,
   cond |-> [reason |-> "Synced", og |-> snap.gen]]

\* A failed sync keeps what the last one that succeeded has found.
markDegraded ==
  [snap.status EXCEPT !.og = snap.gen,
                      !.lastSync = Server.status.lastSync,
                      !.cond = [reason |-> "SyncFailed", og |-> snap.gen]]

\* A field the worker leaves as it read it is not in the patch.
MergePatch(new) ==
  [f \in DOMAIN new |->
     IF f = "lastSync" THEN new[f]
     ELSE Patched(Server.status[f], snap.status[f], new[f])]

\* What the API server may hold after the patch.
PatchedRegistries ==
  {[Server EXCEPT !.status = MergePatch(new)] :
     new \in IF failed THEN {markDegraded} ELSE {markReady(now) : now \in Now}}

\* Mutant of patchStatus: a sync that succeeds does not ask to be run again.
patchStatusWithoutTimer ==
  /\ pc = "mark" /\ Room(regLog)
  /\ \/ /\ Server.phase # "gone"
        /\ \E reg \in PatchedRegistries : regLog' = Write(regLog, reg)
        /\ queued' = (queued \/ failed)
     \/ /\ Server.phase = "gone"
        /\ queued' = TRUE
        /\ UNCHANGED regLog
  /\ ToIdle
  /\ UNCHANGED <<catLog, remote, timer, spent>>

\* The sync ends: RequeueAfter on success, the rate limiter on an error.
patchStatus ==
  /\ pc = "mark" /\ Room(regLog)
  /\ \/ /\ Server.phase # "gone"
        /\ \E reg \in PatchedRegistries : regLog' = Write(regLog, reg)
        /\ queued' = (queued \/ failed)
        /\ timer' = (timer \/ ~failed)
     \/ /\ Server.phase = "gone"
        /\ queued' = TRUE
        /\ UNCHANGED <<regLog, timer>>
  /\ ToIdle
  /\ UNCHANGED <<catLog, remote, spent>>

\* The patch fails, or its answer is lost after it was applied.
PatchStatusFails ==
  /\ pc = "mark" /\ Room(regLog) /\ Server.phase # "gone"
  /\ Spend("fault")
  /\ \/ UNCHANGED regLog
     \/ \E reg \in PatchedRegistries : regLog' = Write(regLog, reg)
  /\ queued' = TRUE
  /\ ToIdle
  /\ UNCHANGED <<catLog, remote, timer>>

-----------------------------------------------------------------------------
(* What enqueues the key *)

\* No predicate: any update of the ImageRegistry.
DeliverRegistry ==
  /\ Len(regLog) > 1
  /\ regLog' = Tail(regLog)
  /\ queued' = TRUE
  /\ UNCHANGED <<catLog, remote, timer, worker, spent>>

\* Mutant of DeliverEntry: the catalog is cached but not watched.
DeliverEntryUnwatched ==
  /\ Len(catLog) > 1
  /\ catLog' = Tail(catLog)
  /\ UNCHANGED <<regLog, remote, queued, timer, worker, spent>>

\* Owns: an entry that is or was the registry's has changed.
DeliverEntry ==
  /\ Len(catLog) > 1
  /\ catLog' = Tail(catLog)
  /\ queued' = (queued \/ \E n \in Names :
                  /\ catLog[1][n] # catLog[2][n]
                  /\ IsOwned(catLog[1][n]) \/ IsOwned(catLog[2][n]))
  /\ UNCHANGED <<regLog, remote, timer, worker, spent>>

TimerFires ==
  /\ timer
  /\ timer' = FALSE /\ queued' = TRUE
  /\ UNCHANGED <<regLog, catLog, remote, worker, spent>>

-----------------------------------------------------------------------------
(* The remote registry, administrators and Kubernetes *)

\* A tag is pushed, no earlier than any other, or removed.
RemoteChanges ==
  /\ Spend("remote")
  /\ \E i \in Images, t \in 0 .. MaxPush :
       /\ t # remote[i]
       /\ t # 0 => \A j \in Images : t >= remote[j]
       /\ remote' = [remote EXCEPT ![i] = t]
  /\ UNCHANGED <<regLog, catLog, queued, timer, worker>>

PatchImageRegistry ==
  /\ Server.phase = "live" /\ Server.gen < MaxGen /\ Room(regLog)
  /\ \E s \in Syncs \ {Server.sync} :
       regLog' = Append(regLog, [Server EXCEPT !.sync = s, !.gen = @ + 1])
  /\ UNCHANGED <<catLog, remote, queued, timer, worker, spent>>

\* The annotation is given a value it has not had.
ForceSyncImageRegistry ==
  /\ Server.phase # "gone" /\ Room(regLog)
  /\ Spend("force")
  /\ regLog' = Append(regLog, [Server EXCEPT !.force = @ + 1])
  /\ UNCHANGED <<catLog, remote, queued, timer, worker>>

\* In the background, or in the foreground, which is a new generation.
DeleteImageRegistry ==
  /\ Server.phase = "live" /\ Room(regLog)
  /\ \/ regLog' = Append(regLog, Gone)
     \/ /\ Server.gen < MaxGen
        /\ regLog' = Append(regLog, [Server EXCEPT !.phase = "deleting",
                                                   !.gen = @ + 1])
  /\ UNCHANGED <<catLog, remote, queued, timer, worker, spent>>

\* An administrator creates, edits or deletes an entry by hand.
HandChange(n) ==
  /\ Room(catLog) /\ Spend("hand")
  /\ \E e \in {None, [image |-> Edited, owned |-> IsOwned(Catalog[n])]} :
       /\ e # Catalog[n]
       /\ catLog' = Append(catLog, [Catalog EXCEPT ![n] = e])
  /\ UNCHANGED <<regLog, remote, queued, timer, worker>>

\* Garbage collection follows the ownerReferences.
CollectEntries ==
  /\ Server.phase # "live" /\ Room(catLog)
  /\ OwnedNames(Catalog) # {}
  /\ catLog' = Append(catLog,
       [n \in Names |-> IF IsOwned(Catalog[n]) THEN None ELSE Catalog[n]])
  /\ UNCHANGED <<regLog, remote, queued, timer, worker, spent>>

FinishDeletion ==
  /\ Server.phase = "deleting" /\ Room(regLog)
  /\ OwnedNames(Catalog) = {}
  /\ regLog' = Append(regLog, Gone)
  /\ UNCHANGED <<catLog, remote, queued, timer, worker, spent>>

\* The timers go with the process; the new one lists, and enqueues every
\* object it finds and the owner of every entry.
ManagerRestarts ==
  /\ Spend("crash")
  /\ regLog' = Relist(regLog)
  /\ catLog' = Relist(catLog)
  /\ queued' = (Server.phase # "gone" \/ OwnedNames(Catalog) # {})
  /\ timer' = FALSE
  /\ ToIdle
  /\ UNCHANGED remote

-----------------------------------------------------------------------------
\* A registry that has just been created, over a catalog without its entries.
Init ==
  /\ \E s \in Syncs :
       regLog = <<[phase |-> "live", gen |-> 1, sync |-> s, force |-> 0,
                   status |-> NoStatus]>>
  /\ catLog = <<[n \in Names |-> None]>>
  /\ remote \in Held
  /\ queued = TRUE /\ timer = FALSE
  /\ pc = "idle" /\ snap = None
  /\ listed = [i \in Images |-> 0]
  /\ selected = <<>> /\ next = 1 /\ doomed = {} /\ failed = FALSE
  /\ spent = {}

WorkerStep ==
  \/ Reconcile
  \/ List
  \/ ApplyNext
  \/ StartPrune
  \/ PruneNext
  \/ patchStatus

Outside ==
  \/ RemoteChanges
  \/ PatchImageRegistry
  \/ ForceSyncImageRegistry
  \/ DeleteImageRegistry
  \/ \E n \in Names : HandChange(n)
  \/ CollectEntries
  \/ FinishDeletion

Trouble ==
  \/ ReconcileFails
  \/ PatchStatusFails
  \/ ManagerRestarts

Next == WorkerStep \/ DeliverRegistry \/ DeliverEntry \/ TimerFires \/ Outside
          \/ Trouble

Spec == Init /\ [][Next]_vars

\* The worker keeps running, the watches keep delivering, and the garbage
\* collector keeps collecting.
SyncFairness ==
  /\ WF_vars(WorkerStep)
  /\ WF_vars(DeliverRegistry)
  /\ WF_vars(DeliverEntry)
  /\ WF_vars(CollectEntries)

\* An interval is long beside a sync: the timer need not fire yet.
PatientSpec == Spec /\ SyncFairness

\* A timer that is under way fires.
FairSpec == PatientSpec /\ WF_vars(TimerFires)

-----------------------------------------------------------------------------
(* Properties *)

ListedImages == [repo : Repos, tag : Tags, pushed : 1 .. MaxPush]

\* Every variable holds a value the program can give it.
TypeOK ==
  /\ regLog \in Seq(Registries) /\ Len(regLog) > 0
  /\ catLog \in Seq(Catalogs) /\ Len(catLog) > 0
  /\ remote \in [Images -> 0 .. MaxPush] /\ listed \in [Images -> 0 .. MaxPush]
  /\ queued \in BOOLEAN /\ timer \in BOOLEAN /\ failed \in BOOLEAN
  /\ pc \in {"idle", "list", "apply", "prune", "mark"}
  /\ snap \in Registries \union {None} /\ (pc # "idle" => snap # None)
  /\ selected \in Seq(ListedImages) /\ next \in 1 .. Len(selected) + 1
  /\ doomed \subseteq Names
  /\ spent \subseteq Allowed

\* The images that the selection lets through.
Candidates(held, sel) ==
  {i \in Images :
     /\ held[i] > 0
     /\ ~\E p \in sel.exclude : i.repo \in p
     /\ sel.include = {} \/ i.repo \in UNION sel.include
     /\ sel.latest \/ i.tag \in UNION sel.patterns}

\* The sets of images a sync may choose: of each repository as many candidates
\* as the limit allows, none of them older than one that is left out.
Outcomes(held, sel) ==
  LET all == Candidates(held, sel)
      Of(images, repo) == {i \in images : i.repo = repo}
      Capped(n) == Min({n, Max({1, sel.limit})})
  IN  {kept \in SUBSET all :
         \A repo \in Repos :
           /\ Cardinality(Of(kept, repo)) = Capped(Cardinality(Of(all, repo)))
           /\ \A i \in Of(kept, repo), j \in Of(all \ kept, repo) :
                held[i] >= held[j]}

\* Each image once, and together one of the outcomes there are.
RightlySelected ==
  /\ selected \in Seq(ListedImages)
  /\ \A j, k \in DOMAIN selected :
       ImageOf(selected[j]) = ImageOf(selected[k]) => j = k
  /\ {ImageOf(s) : s \in Range(selected)} \in Outcomes(listed, snap.sync.sel)

\* "newest first within a repository, capped at TagLimit", and an exclusion
\* beats an include: so it is with whatever Select returns.
SelectsTheNewest == pc = "apply" => RightlySelected

NamesOf(images) == {NameOf[i] : i \in images}

\* The catalog shows one outcome of a sync of these images: an entry for every
\* image chosen and, when the registry prunes, none besides.
InSync(held, sync) ==
  \E chosen \in Outcomes(held, sync.sel) :
    /\ \A n \in NamesOf(chosen) :
         \E i \in chosen : /\ NameOf[i] = n
                           /\ Catalog[n] = [image |-> i, owned |-> TRUE]
    /\ sync.prune => OwnedNames(Catalog) \subseteq NamesOf(chosen)

\* Nothing is queued, under way or on its way to a cache; the timer may run.
Quiet == ~queued /\ pc = "idle" /\ Len(regLog) = 1 /\ Len(catLog) = 1

\* Between two syncs the catalog is what the last one listed, under the current
\* spec, whatever failed, was pruned from a stale list or was changed by hand
\* before; and the status says so, although each patch is computed on an object
\* that may be old.
RestIsInSync ==
  Quiet /\ Server.phase = "live" =>
    /\ Server.sync.compiles
    /\ InSync(listed, Server.sync)
    /\ Server.status.cond = [reason |-> "Synced", og |-> Server.gen]
    /\ \E chosen \in Outcomes(listed, Server.sync.sel) :
         Server.status.images = Cardinality(chosen)

\* However the registry is listed, an image is selected for this name.
Wanted(n, held, sync) ==
  \A chosen \in Outcomes(held, sync.sel) : n \in NamesOf(chosen)

\* prune's comment: "an unreachable registry or a briefly-short list should not
\* delete a catalog entry somebody may be using".  No step but one by hand
\* takes away an entry of a registry that lives and that is wanted by the spec
\* which was read, of what the registry held when it was listed.
KeptEntriesStay ==
  [][\A n \in Names :
       (/\ IsOwned(Catalog[n]) /\ Catalog'[n] = None
        /\ Server.phase = "live" /\ spent' = spent)
         => ~Wanted(n, listed, snap.sync)]_vars

\* What is pushed to the registry, and stays, reaches the catalog, and what is
\* removed leaves it when the registry prunes: by the timer alone, as nothing
\* announces it.
CatalogFollowsRemote ==
  []<>(Server.phase = "live" /\ Server.sync.compiles
         => InSync(remote, Server.sync))

\* "Deleting an ImageRegistry deletes every WorkspaceImage it synced": also what
\* a stale sync puts back after the registry was deleted, and what it has taken
\* over; only what was written by hand stays.
NothingIsLeftBehind ==
  [](Server.phase = "gone" => <>[](\A n \in Names :
       Catalog[n] \in {None, [image |-> Edited, owned |-> FALSE]}))

\* What Reconcile's comment says: "On success it requeues after the configured
\* interval".  While the timer of a registry nobody touches is under way, the
\* worker has, again and again, nothing to do.
WaitsForTheInterval ==
  <>[](timer /\ Server.phase = "live") => []<>Quiet

=============================================================================
