----------------------- MODULE ImageRegistrySyncProofs -----------------------
(***************************************************************************)
(* Proofs about ImageRegistrySync.  Select sorts and flattens sequences by *)
(* recursion over data, which cannot be reasoned about here: what is said  *)
(* of a sync is said on the condition that it SelectsTheNewest.            *)
(***************************************************************************)
EXTENDS ImageRegistrySync, FiniteSetTheorems, TLAPS

(* What the operations on a WatchLog leave at its two ends and in between. *)

\* A log with a version appended.
LEMMA AppendFacts ==
  ASSUME NEW S, NEW log \in Seq(S), Len(log) > 0, NEW v \in S
  PROVE  /\ Append(log, v) \in Seq(S)
         /\ Len(Append(log, v)) = Len(log) + 1
         /\ Len(Append(log, v)) > 0
         /\ Current(Append(log, v)) = v
         /\ Cached(Append(log, v)) = Cached(log)
         /\ \A i \in 1 .. Len(log) : Append(log, v)[i] = log[i]
  BY DEF Current, Cached

\* An event under way.
LEMMA AppendGrows ==
  ASSUME NEW S, NEW log \in Seq(S), Len(log) > 0, NEW v
  PROVE  Len(Append(log, v)) # 1
  OBVIOUS

\* A delivery: the server's version stays and the cache moves on.
LEMMA TailFacts ==
  ASSUME NEW S, NEW log \in Seq(S), Len(log) > 1
  PROVE  /\ Tail(log) \in Seq(S)
         /\ Len(Tail(log)) = Len(log) - 1
         /\ Len(Tail(log)) > 0
         /\ Current(Tail(log)) = Current(log)
         /\ \A i \in 1 .. Len(Tail(log)) : Tail(log)[i] = log[i + 1]
  BY DEF Current, Cached

\* A restart: the cache holds what the server does.
LEMMA RelistFacts ==
  ASSUME NEW S, NEW log \in Seq(S), Len(log) > 0
  PROVE  /\ Relist(log) \in Seq(S)
         /\ Len(Relist(log)) = 1
         /\ Current(Relist(log)) = Current(log)
  BY DEF Current, Cached, Relist

\* Both ends of a log are versions of the object.
LEMMA EndsFacts ==
  ASSUME NEW S, NEW log \in Seq(S), Len(log) > 0
  PROVE  /\ Current(log) \in S
         /\ Cached(log) \in S
         /\ Cached(log) = log[1]
         /\ Current(log) = log[Len(log)]
         /\ Len(log) \in Nat
  BY DEF Current, Cached

\* A write: as appending, or nothing when the version is the server's own.
LEMMA WriteFacts ==
  ASSUME NEW S, NEW log \in Seq(S), Len(log) > 0, NEW v \in S
  PROVE  /\ Write(log, v) \in Seq(S)
         /\ Len(Write(log, v)) > 0
         /\ Current(Write(log, v)) = v
  BY AppendFacts DEF Write

-----------------------------------------------------------------------------
(* Type correctness *)

\* A sync applies what is selected from the first of it on.
FromTheFirst == pc \in {"idle", "list"} => next = 1

\* What the two logs hold at their ends.
LEMMA VersionTypes ==
  ASSUME TypeOK
  PROVE  /\ Server \in Registries /\ Cached(regLog) \in Registries
         /\ Catalog \in Catalogs /\ Cached(catLog) \in Catalogs
         /\ pc # "idle" => snap \in Registries
  BY EndsFacts DEF TypeOK, Server, Catalog

\* An object that is gone is one too.
LEMMA GoneType == ASSUME TypeOK PROVE Gone \in Registries
  <1>1. Server.sync \in Syncs
    BY VersionTypes DEF Registries
  <1>2. (CHOOSE s \in Syncs : TRUE) \in Syncs
    BY <1>1
  <1> QED BY <1>2, BoundAssumption DEF Gone, Registries, NoStatus, Statuses

\* An entry the registry has synced is its own.
LEMMA SyncedIsOwned ==
  ASSUME NEW i \in Images
  PROVE  LET e == [image |-> i, owned |-> TRUE] IN e \in Entries /\ IsOwned(e)
  <1> DEFINE e == [image |-> i, owned |-> TRUE]
  <1>1. e \in Entries /\ e.owned = TRUE
    BY DEF Entries
  <1> HIDE DEF e
  <1>2. e # None
    BY <1>1, NoneAssumption
  <1>3. IsOwned(e)
    BY <1>1, <1>2 DEF IsOwned
  <1> QED BY <1>1, <1>3 DEF e

\* The image an entry of a listing names, and its entry in the catalog.
LEMMA ImageTypes ==
  ASSUME RightlySelected, NEW k \in 1 .. Len(selected)
  PROVE  /\ ImageOf(selected[k]) \in Images
         /\ syncedImageName(selected[k]) \in Names
         /\ SyncedEntry(selected[k]) \in Entries
         /\ IsOwned(SyncedEntry(selected[k]))
  <1>1. selected[k] \in Range(selected)
    BY DEF RightlySelected, Range
  <1>2. ImageOf(selected[k]) \in Images
    BY <1>1 DEF RightlySelected, Outcomes, Candidates
  <1> QED BY <1>2, SyncedIsOwned DEF syncedImageName, Names, SyncedEntry

\* A catalog with another entry under one name.
LEMMA CatalogWith ==
  ASSUME NEW c \in Catalogs, NEW n, NEW e \in Entries \union {None}
  PROVE  [c EXCEPT ![n] = e] \in Catalogs
  BY DEF Catalogs

\* What somebody leaves under a name by hand.
LEMMA HandTypes ==
  ASSUME TypeOK, NEW n \in Names,
         NEW e \in {None, [image |-> Edited, owned |-> IsOwned(Catalog[n])]}
  PROVE  [Catalog EXCEPT ![n] = e] \in Catalogs
  <1>1. Catalog \in Catalogs
    BY VersionTypes
  <1>2. IsOwned(Catalog[n]) \in BOOLEAN
    BY <1>1 DEF IsOwned, Catalogs, Entries
  <1>3. e \in Entries \union {None}
    BY <1>2 DEF Entries
  <1> QED BY <1>1, <1>3, CatalogWith

\* What a status patch leaves is a status.
LEMMA PatchTypes ==
  ASSUME TypeOK, pc # "idle", NEW reg \in PatchedRegistries
  PROVE  /\ reg \in Registries
         /\ reg.phase = Server.phase /\ reg.gen = Server.gen
         /\ reg.sync = Server.sync
  <1>1. Server \in Registries /\ snap \in Registries
    BY VersionTypes
  <1>2. /\ Server.status \in Statuses /\ snap.status \in Statuses
        /\ snap.gen \in 0 .. MaxGen
    BY <1>1, BoundAssumption DEF Registries
  <1>3. PICK new \in {markDegraded} \union {markReady(now) : now \in Now} :
          reg = [Server EXCEPT !.status = MergePatch(new)]
    BY DEF PatchedRegistries
  <1>4. Now \subseteq 0 .. 2
    BY <1>2 DEF Now, Statuses
  <1>5. Len(selected) \in Nat
    BY DEF TypeOK
  <1>6. new \in Statuses
    <2>1. CASE new = markDegraded
      BY <1>2, <2>1 DEF markDegraded, Statuses
    <2>2. CASE new \in {markReady(now) : now \in Now}
      BY <1>2, <1>4, <1>5, <2>2 DEF markReady, Statuses
    <2> QED BY <1>3, <2>1, <2>2
  <1>7. MergePatch(new) \in Statuses
    <2>1. DOMAIN new = {"og", "images", "lastSync", "cond"}
      BY <1>6 DEF Statuses
    <2>2. MergePatch(new) =
            [og |-> Patched(Server.status.og, snap.status.og, new.og),
             images |-> Patched(Server.status.images, snap.status.images,
                                new.images),
             lastSync |-> new.lastSync,
             cond |-> Patched(Server.status.cond, snap.status.cond, new.cond)]
      BY <2>1 DEF MergePatch
    <2> QED BY <1>2, <1>6, <2>2 DEF Statuses, Patched
  <1> QED BY <1>1, <1>3, <1>7 DEF Registries

LEMMA TypeInit == Init => TypeOK
  <1> SUFFICES ASSUME Init PROVE TypeOK
    OBVIOUS
  <1>1. PICK s \in Syncs :
          regLog = <<[phase |-> "live", gen |-> 1, sync |-> s, force |-> 0,
                      status |-> NoStatus]>>
    BY DEF Init
  <1>2. regLog \in Seq(Registries) /\ Len(regLog) > 0
    BY <1>1, BoundAssumption DEF Registries, NoStatus, Statuses
  <1>3. catLog \in Seq(Catalogs) /\ Len(catLog) > 0
    BY DEF Init, Catalogs
  <1>4. /\ remote \in [Images -> 0 .. MaxPush]
        /\ listed \in [Images -> 0 .. MaxPush]
    BY BoundAssumption DEF Init
  <1>5. selected \in Seq(ListedImages) /\ next \in 1 .. Len(selected) + 1
    BY DEF Init
  <1>6. /\ queued \in BOOLEAN /\ timer \in BOOLEAN /\ failed \in BOOLEAN
        /\ pc = "idle" /\ snap = None /\ doomed = {} /\ spent = {}
    BY DEF Init
  <1> QED BY <1>2, <1>3, <1>4, <1>5, <1>6 DEF TypeOK

\* Letting go of the key leaves nothing selected.
LEMMA IdleTypes ==
  ASSUME ToIdle
  PROVE  /\ selected' \in Seq(ListedImages)
         /\ next' \in 1 .. Len(selected') + 1
         /\ pc' = "idle" /\ snap' = None /\ doomed' = {} /\ failed' = FALSE
         /\ listed' = listed
  BY DEF ToIdle

\* The steps that write the catalog.
LEMMA TypeCatalog ==
  ASSUME TypeOK, SelectsTheNewest,
         ApplyNext \/ PruneNext \/ CollectEntries \/ \E n \in Names : HandChange(n)
  PROVE  TypeOK'
  <1>0. Catalog \in Catalogs /\ catLog \in Seq(Catalogs) /\ Len(catLog) > 0
    BY VersionTypes DEF TypeOK
  <1>1. CASE ApplyNext
    <2>1. next \in 1 .. Len(selected) /\ pc = "apply"
      BY <1>1 DEF ApplyNext, TypeOK
    <2>2. [Catalog EXCEPT ![syncedImageName(selected[next])] =
              SyncedEntry(selected[next])] \in Catalogs
      BY <1>0, <2>1, ImageTypes, CatalogWith DEF SelectsTheNewest
    <2>3. catLog' \in Seq(Catalogs) /\ Len(catLog') > 0
      BY <1>0, <1>1, <2>2, WriteFacts DEF ApplyNext
    <2>4. next' \in 1 .. Len(selected) + 1
      BY <1>1, <2>1 DEF ApplyNext, TypeOK
    <2> QED BY <1>1, <2>3, <2>4 DEF ApplyNext, TypeOK
  <1>2. CASE PruneNext
    <2>1. \A n : [Catalog EXCEPT ![n] = None] \in Catalogs
      BY <1>0, CatalogWith
    <2>2. catLog' \in Seq(Catalogs) /\ Len(catLog') > 0
      <3>1. \/ catLog' = catLog
            \/ \E n \in doomed :
                 catLog' = Write(catLog, [Catalog EXCEPT ![n] = None])
        BY <1>2 DEF PruneNext
      <3>2. ASSUME NEW n PROVE LET c == [Catalog EXCEPT ![n] = None] IN
              Write(catLog, c) \in Seq(Catalogs) /\ Len(Write(catLog, c)) > 0
        <4> DEFINE c == [Catalog EXCEPT ![n] = None]
        <4>1. c \in Catalogs
          BY <2>1
        <4> HIDE DEF c
        <4>2. Write(catLog, c) \in Seq(Catalogs) /\ Len(Write(catLog, c)) > 0
          BY <1>0, <4>1, WriteFacts
        <4> QED BY <4>2 DEF c
      <3> QED BY <1>0, <3>1, <3>2
    <2> QED BY <1>2, <2>2 DEF PruneNext, TypeOK
  <1>3. CASE CollectEntries
    <2>1. [n \in Names |-> IF IsOwned(Catalog[n]) THEN None ELSE Catalog[n]]
            \in Catalogs
      BY <1>0 DEF Catalogs
    <2>2. catLog' \in Seq(Catalogs) /\ Len(catLog') > 0
      BY <1>0, <1>3, <2>1, AppendFacts DEF CollectEntries
    <2> QED BY <1>3, <2>2 DEF CollectEntries, worker, TypeOK
  <1>4. ASSUME NEW n \in Names, HandChange(n) PROVE TypeOK'
    <2>1. PICK e \in {None, [image |-> Edited, owned |-> IsOwned(Catalog[n])]} :
            catLog' = Append(catLog, [Catalog EXCEPT ![n] = e])
      BY <1>4 DEF HandChange
    <2>2. catLog' \in Seq(Catalogs) /\ Len(catLog') > 0
      BY <1>0, <2>1, HandTypes, AppendFacts
    <2> QED BY <1>4, <2>2 DEF HandChange, Spend, worker, TypeOK
  <1> QED BY <1>1, <1>2, <1>3, <1>4

\* The steps that write the ImageRegistry.
LEMMA TypeRegistry ==
  ASSUME TypeOK,
         \/ patchStatus \/ PatchStatusFails \/ PatchImageRegistry
         \/ ForceSyncImageRegistry \/ DeleteImageRegistry \/ FinishDeletion
  PROVE  TypeOK'
  <1>0. /\ Server \in Registries /\ Gone \in Registries
        /\ regLog \in Seq(Registries) /\ Len(regLog) > 0
    BY VersionTypes, GoneType DEF TypeOK
  <1>1. CASE patchStatus \/ PatchStatusFails
    <2>1. pc # "idle"
      BY <1>1 DEF patchStatus, PatchStatusFails
    <2>2. regLog' \in Seq(Registries) /\ Len(regLog') > 0
      BY <1>0, <1>1, <2>1, PatchTypes, WriteFacts
         DEF patchStatus, PatchStatusFails
    <2>3. spent' \subseteq Allowed /\ queued' \in BOOLEAN /\ timer' \in BOOLEAN
      BY <1>1 DEF patchStatus, PatchStatusFails, Spend, TypeOK
    <2>4. ToIdle /\ UNCHANGED <<catLog, remote>>
      BY <1>1 DEF patchStatus, PatchStatusFails
    <2> QED BY <2>2, <2>3, <2>4, IdleTypes DEF TypeOK
  <1>2. CASE PatchImageRegistry
    <2>1. PICK s \in Syncs :
            regLog' = Append(regLog, [Server EXCEPT !.sync = s, !.gen = @ + 1])
      BY <1>2 DEF PatchImageRegistry
    <2>2. [Server EXCEPT !.sync = s, !.gen = @ + 1] \in Registries
      <3>1. Server.gen + 1 \in 1 .. MaxGen
        <4>1. Server.gen < MaxGen
          BY <1>2 DEF PatchImageRegistry
        <4> QED BY <1>0, <4>1, BoundAssumption DEF Registries
      <3>2. s \in Syncs
        BY <2>1
      <3> QED BY <1>0, <3>1, <3>2 DEF Registries
    <2>3. regLog' \in Seq(Registries) /\ Len(regLog') > 0
      BY <1>0, <2>1, <2>2, AppendFacts
    <2> QED BY <1>2, <2>3 DEF PatchImageRegistry, worker, TypeOK
  <1>3. CASE ForceSyncImageRegistry
    <2>1. [Server EXCEPT !.force = @ + 1] \in Registries
      <3>1. Server.force + 1 \in Nat
        BY <1>0 DEF Registries
      <3> QED BY <1>0, <3>1 DEF Registries
    <2>2. regLog' \in Seq(Registries) /\ Len(regLog') > 0
      BY <1>0, <1>3, <2>1, AppendFacts DEF ForceSyncImageRegistry
    <2> QED BY <1>3, <2>2 DEF ForceSyncImageRegistry, Spend, worker, TypeOK
  <1>4. CASE DeleteImageRegistry
    <2>1. Server.gen < MaxGen =>
            [Server EXCEPT !.phase = "deleting", !.gen = @ + 1] \in Registries
      <3>1. Server.gen < MaxGen => Server.gen + 1 \in 1 .. MaxGen
        BY <1>0, BoundAssumption DEF Registries
      <3> QED BY <1>0, <3>1 DEF Registries
    <2>2. regLog' \in Seq(Registries) /\ Len(regLog') > 0
      BY <1>0, <1>4, <2>1, AppendFacts DEF DeleteImageRegistry
    <2> QED BY <1>4, <2>2 DEF DeleteImageRegistry, worker, TypeOK
  <1>5. CASE FinishDeletion
    <2>1. regLog' \in Seq(Registries) /\ Len(regLog') > 0
      BY <1>0, <1>5, AppendFacts DEF FinishDeletion
    <2> QED BY <1>5, <2>1 DEF FinishDeletion, worker, TypeOK
  <1> QED BY <1>1, <1>2, <1>3, <1>4, <1>5

\* The steps that write neither, and those that move a cache on.
LEMMA TypeOthers ==
  ASSUME TypeOK, FromTheFirst, SelectsTheNewest',
         \/ Reconcile \/ List \/ StartPrune \/ ReconcileFails \/ TimerFires
         \/ DeliverRegistry \/ DeliverEntry \/ RemoteChanges \/ ManagerRestarts
  PROVE  TypeOK'
  <1>1. CASE Reconcile
    <2>1. Cached(regLog) \in Registries
      BY VersionTypes
    <2> QED BY <1>1, <2>1, NoneAssumption DEF Reconcile, TypeOK
  <1>2. CASE List
    <2>1. CASE pc' = "apply"
      <3>1. selected' \in Seq(ListedImages) /\ next' = 1
        BY <1>2, <2>1 DEF List, FromTheFirst, SelectsTheNewest,
             RightlySelected
      <3>2. next' \in 1 .. Len(selected') + 1
        BY <3>1
      <3>3. /\ listed' = remote /\ pc = "list"
            /\ UNCHANGED <<regLog, catLog, remote, queued, timer, snap, doomed,
                          failed, spent>>
        BY <1>2, <2>1 DEF List, ToMark
      <3> QED BY <2>1, <3>1, <3>2, <3>3 DEF TypeOK
    <2>2. CASE pc' # "apply"
      BY <1>2, <2>2 DEF List, ToMark, TypeOK
    <2> QED BY <2>1, <2>2
  <1>3. CASE StartPrune
    <2>1. OwnedNames(Cached(catLog)) \subseteq Names
      BY DEF OwnedNames
    <2> QED BY <1>3, <2>1 DEF StartPrune, TypeOK
  <1>4. CASE ReconcileFails
    BY <1>4 DEF ReconcileFails, ToMark, Spend, TypeOK
  <1>5. CASE TimerFires
    BY <1>5 DEF TimerFires, worker, TypeOK
  <1>6. CASE DeliverRegistry
    BY <1>6, TailFacts DEF DeliverRegistry, worker, TypeOK
  <1>7. CASE DeliverEntry
    BY <1>7, TailFacts DEF DeliverEntry, worker, TypeOK
  <1>8. CASE RemoteChanges
    BY <1>8 DEF RemoteChanges, Spend, worker, TypeOK
  <1>9. CASE ManagerRestarts
    <2>1. /\ regLog' \in Seq(Registries) /\ Len(regLog') > 0
          /\ catLog' \in Seq(Catalogs) /\ Len(catLog') > 0
      <3>1. regLog' = Relist(regLog) /\ catLog' = Relist(catLog)
        BY <1>9 DEF ManagerRestarts
      <3>2. /\ Relist(regLog) \in Seq(Registries) /\ Len(Relist(regLog)) = 1
            /\ Relist(catLog) \in Seq(Catalogs) /\ Len(Relist(catLog)) = 1
        BY RelistFacts DEF TypeOK
      <3> QED BY <3>1, <3>2
    <2>2. /\ spent' \subseteq Allowed /\ queued' \in BOOLEAN
          /\ timer' \in BOOLEAN /\ remote' = remote /\ ToIdle
      BY <1>9 DEF ManagerRestarts, Spend, TypeOK
    <2> QED BY <2>1, <2>2, IdleTypes DEF TypeOK
  <1> QED BY <1>1, <1>2, <1>3, <1>4, <1>5, <1>6, <1>7, <1>8, <1>9

LEMMA TypeStep ==
  /\ TypeOK /\ FromTheFirst /\ SelectsTheNewest /\ SelectsTheNewest'
  /\ [Next]_vars
  => TypeOK' /\ FromTheFirst'
  <1> SUFFICES ASSUME TypeOK, FromTheFirst, SelectsTheNewest, SelectsTheNewest',
                      [Next]_vars
               PROVE  TypeOK' /\ FromTheFirst'
    OBVIOUS
  <1>1. UNCHANGED vars => TypeOK'
    BY DEF vars, worker, TypeOK
  <1>2. TypeOK'
    BY <1>1, TypeCatalog, TypeRegistry, TypeOthers
       DEF Next, WorkerStep, Outside, Trouble
  <1>3. \/ UNCHANGED <<pc, next>>
        \/ pc' \notin {"idle", "list"}
        \/ next' = 1
        \/ Reconcile
    BY DEF Next, WorkerStep, Outside, Trouble, vars, worker, List, ToMark,
           ApplyNext, StartPrune, PruneNext, ReconcileFails, patchStatus, ToIdle,
           PatchStatusFails, DeliverRegistry, DeliverEntry, TimerFires,
           RemoteChanges, PatchImageRegistry, ForceSyncImageRegistry,
           DeleteImageRegistry, HandChange, CollectEntries, FinishDeletion,
           ManagerRestarts
  <1>4. FromTheFirst'
    BY <1>3 DEF FromTheFirst, Reconcile
  <1> QED BY <1>2, <1>4

\* Every variable holds a value the program can give it, as long as Select does
\* what it is for.
THEOREM TypeCorrect == Spec /\ []SelectsTheNewest => []TypeOK
  <1>1. Init => FromTheFirst
    BY DEF Init, FromTheFirst
  <1> QED BY <1>1, TypeInit, TypeStep, PTL DEF Spec

-----------------------------------------------------------------------------
(* What a sync works with *)

\* From its choice to its status patch, a sync that has not failed keeps to what
\* the registry was listed with and to the spec it has read.
SelectionStands ==
  pc \in {"apply", "prune"} \/ (pc = "mark" /\ ~failed) =>
    snap.sync.compiles /\ RightlySelected

\* What is going to be deleted is not what has been applied.
PruneSpares ==
  pc = "prune" => snap.sync.prune /\ doomed \cap desiredNames = {}

\* An administrator, a cache and the collector leave the worker where it is.
LEMMA WorkerStays ==
  ASSUME \/ DeliverRegistry \/ DeliverEntry \/ TimerFires \/ Outside
         \/ UNCHANGED vars
  PROVE  UNCHANGED <<pc, snap, listed, selected, next, doomed, failed>>
  BY DEF DeliverRegistry, DeliverEntry, TimerFires, Outside, RemoteChanges,
         PatchImageRegistry, ForceSyncImageRegistry, DeleteImageRegistry,
         HandChange, CollectEntries, FinishDeletion, vars, worker

LEMMA WorkStep ==
  SelectionStands /\ PruneSpares /\ SelectsTheNewest' /\ [Next]_vars
  => SelectionStands' /\ PruneSpares'
  <1> SUFFICES ASSUME SelectionStands, PruneSpares, SelectsTheNewest', [Next]_vars
               PROVE  SelectionStands' /\ PruneSpares'
    OBVIOUS
  <1>1. CASE \/ DeliverRegistry \/ DeliverEntry \/ TimerFires \/ Outside
             \/ UNCHANGED vars
    <2>1. UNCHANGED <<pc, snap, listed, selected, doomed, failed>>
      BY <1>1, WorkerStays
    <2> QED BY <2>1 DEF SelectionStands, PruneSpares, RightlySelected, desiredNames
  <1>2. CASE Reconcile
    BY <1>2 DEF Reconcile, SelectionStands, PruneSpares
  <1>3. CASE List
    BY <1>3 DEF List, ToMark, SelectionStands, PruneSpares, SelectsTheNewest
  <1>4. CASE ApplyNext
    <2>1. pc = "apply" /\ UNCHANGED <<pc, snap, listed, selected>>
      BY <1>4 DEF ApplyNext
    <2> QED BY <2>1 DEF SelectionStands, PruneSpares, RightlySelected
  <1>5. CASE StartPrune
    <2>1. /\ pc = "apply" /\ UNCHANGED <<snap, listed, selected>>
          /\ \/ /\ snap.sync.prune
                /\ doomed' = OwnedNames(Cached(catLog)) \ desiredNames
             \/ pc' = "mark"
      BY <1>5 DEF StartPrune
    <2> QED BY <2>1 DEF SelectionStands, PruneSpares, RightlySelected, desiredNames
  <1>6. CASE PruneNext
    <2>1. /\ pc = "prune" /\ doomed' \subseteq doomed
          /\ UNCHANGED <<snap, listed, selected>>
      BY <1>6 DEF PruneNext
    <2> QED BY <2>1 DEF SelectionStands, PruneSpares, RightlySelected, desiredNames
  <1>7. CASE patchStatus \/ PatchStatusFails \/ ManagerRestarts
    BY <1>7 DEF patchStatus, PatchStatusFails, ManagerRestarts, ToIdle,
                SelectionStands, PruneSpares
  <1>8. CASE ReconcileFails
    BY <1>8 DEF ReconcileFails, ToMark, SelectionStands, PruneSpares
  <1> QED BY <1>1, <1>2, <1>3, <1>4, <1>5, <1>6, <1>7, <1>8
          DEF Next, WorkerStep, Trouble

\* All there is to know of a sync under way, as long as Select does what it is
\* for.
SyncInv == TypeOK /\ FromTheFirst /\ SelectionStands /\ PruneSpares

THEOREM SyncInvariant == Spec /\ []SelectsTheNewest => []SyncInv
  <1>1. Init => FromTheFirst /\ SelectionStands /\ PruneSpares
    BY DEF Init, FromTheFirst, SelectionStands, PruneSpares
  <1> QED BY <1>1, TypeInit, TypeStep, WorkStep, PTL DEF Spec, SyncInv

\* The names of what is selected are those of an outcome.
LEMMA DesiredFacts ==
  ASSUME RightlySelected
  PROVE  LET chosen == {ImageOf(s) : s \in Range(selected)} IN
         /\ chosen \in Outcomes(listed, snap.sync.sel)
         /\ chosen \subseteq Images
         /\ desiredNames = NamesOf(chosen)
  <1> DEFINE chosen == {ImageOf(s) : s \in Range(selected)}
  <1>1. chosen \in Outcomes(listed, snap.sync.sel)
    BY DEF RightlySelected
  <1>2. chosen \subseteq Images
    BY <1>1 DEF Outcomes, Candidates
  <1>3. desiredNames = NamesOf(chosen)
    BY DEF desiredNames, NamesOf, syncedImageName
  <1> QED BY <1>1, <1>2, <1>3

\* What the steps that write the catalog leave in it.
LEMMA CatalogAfter ==
  ASSUME SyncInv, [Next]_vars
  PROVE  \/ Catalog' = Catalog
         \/ ApplyNext /\ Catalog' = [Catalog EXCEPT
               ![syncedImageName(selected[next])] = SyncedEntry(selected[next])]
         \/ PruneNext /\ \E n \in doomed : Catalog' = [Catalog EXCEPT ![n] = None]
         \/ CollectEntries
         \/ \E n \in Names : HandChange(n)
  <1>0. /\ TypeOK /\ Catalog \in Catalogs
        /\ catLog \in Seq(Catalogs) /\ Len(catLog) > 0
    BY VersionTypes DEF SyncInv, TypeOK
  <1>1. CASE ApplyNext
    <2> DEFINE c == [Catalog EXCEPT ![syncedImageName(selected[next])] =
                       SyncedEntry(selected[next])]
    <2>1. pc = "apply" /\ next \in 1 .. Len(selected)
      BY <1>0, <1>1 DEF ApplyNext, TypeOK
    <2>2. RightlySelected
      BY <2>1 DEF SyncInv, SelectionStands
    <2>3. c \in Catalogs /\ catLog' = Write(catLog, c)
      BY <1>0, <1>1, <2>1, <2>2, ImageTypes, CatalogWith DEF ApplyNext
    <2> HIDE DEF c
    <2>4. Catalog' = c
      BY <1>0, <2>3, WriteFacts DEF Catalog, Current
    <2> QED BY <1>1, <2>4 DEF c
  <1>2. CASE PruneNext
    <2>1. CASE catLog' = catLog
      BY <2>1 DEF Catalog, Current
    <2>2. ASSUME NEW n \in doomed,
                 catLog' = Write(catLog, [Catalog EXCEPT ![n] = None])
          PROVE  Catalog' = [Catalog EXCEPT ![n] = None]
      <3> DEFINE c == [Catalog EXCEPT ![n] = None]
      <3>1. c \in Catalogs /\ catLog' = Write(catLog, c)
        BY <1>0, <2>2, CatalogWith
      <3> HIDE DEF c
      <3>2. Catalog' = c
        BY <1>0, <3>1, WriteFacts DEF Catalog, Current
      <3> QED BY <3>2 DEF c
    <2> QED BY <1>2, <2>1, <2>2 DEF PruneNext
  <1>3. CASE DeliverEntry \/ ManagerRestarts
    <2>1. \/ Len(catLog) > 1 /\ catLog' = Tail(catLog)
          \/ catLog' = Relist(catLog)
      BY <1>3 DEF DeliverEntry, ManagerRestarts
    <2> QED BY <1>0, <2>1, TailFacts, RelistFacts DEF Catalog, Current
  <1>4. catLog' = catLog => Catalog' = Catalog
    BY DEF Catalog, Current
  <1>5. \/ catLog' = catLog \/ ApplyNext \/ PruneNext \/ CollectEntries
        \/ DeliverEntry \/ ManagerRestarts \/ \E n \in Names : HandChange(n)
    BY DEF Next, WorkerStep, Outside, Trouble, Reconcile, List, StartPrune,
           patchStatus, ReconcileFails, PatchStatusFails, DeliverRegistry,
           TimerFires, RemoteChanges, PatchImageRegistry, FinishDeletion,
           ForceSyncImageRegistry, DeleteImageRegistry, vars
  <1> QED BY <1>1, <1>2, <1>3, <1>4, <1>5

\* prune, for every bound and every set of images and names: an entry that is
\* there, and that every outcome of the sync under way would keep, is deleted by
\* nobody but an administrator or, with its registry, the garbage collector.
THEOREM KeptEntries == Spec /\ []SelectsTheNewest => KeptEntriesStay
  <1> DEFINE Gives(n) == /\ IsOwned(Catalog[n]) /\ Catalog'[n] = None
                         /\ Server.phase = "live" /\ spent' = spent
             A == \A n \in Names : Gives(n) => ~Wanted(n, listed, snap.sync)
  <1>1. SyncInv /\ [Next]_vars => A
    <2> SUFFICES ASSUME SyncInv, [Next]_vars, NEW n \in Names, Gives(n)
                 PROVE  ~Wanted(n, listed, snap.sync)
      OBVIOUS
    <2>0. Catalog \in Catalogs /\ Catalog[n] # None
      BY VersionTypes DEF SyncInv, IsOwned
    <2>1. ~CollectEntries /\ Catalog' # Catalog
      BY <2>0 DEF CollectEntries
    <2>2. \A m \in Names : ~HandChange(m)
      BY DEF HandChange, Spend
    <2>3. ~ApplyNext
      <3> SUFFICES ASSUME ApplyNext PROVE FALSE
        OBVIOUS
      <3>1. pc = "apply" /\ next \in 1 .. Len(selected) /\ ~PruneNext
        BY DEF ApplyNext, PruneNext, SyncInv, TypeOK
      <3>2. RightlySelected
        BY <3>1 DEF SyncInv, SelectionStands
      <3>3. SyncedEntry(selected[next]) # None
        BY <3>1, <3>2, ImageTypes, NoneAssumption
      <3>4. Catalog' = [Catalog EXCEPT ![syncedImageName(selected[next])] =
                          SyncedEntry(selected[next])]
        BY <2>1, <2>2, <3>1, CatalogAfter
      <3> QED BY <2>0, <3>3, <3>4 DEF Catalogs
    <2>4. n \in doomed /\ pc = "prune"
      <3>1. PruneNext
        BY <2>1, <2>2, <2>3, CatalogAfter
      <3>2. PICK m \in doomed : Catalog' = [Catalog EXCEPT ![m] = None]
        BY <2>1, <2>2, <2>3, CatalogAfter
      <3> QED BY <2>0, <3>1, <3>2 DEF PruneNext, Catalogs
    <2>5. RightlySelected /\ n \notin desiredNames
      BY <2>4 DEF SyncInv, SelectionStands, PruneSpares
    <2> QED BY <2>5, DesiredFacts DEF Wanted
  <1> HIDE DEF A
  <1>2. SyncInv /\ [Next]_vars => [A]_vars
    BY <1>1
  <1>3. Spec /\ []SelectsTheNewest => [][A]_vars
    BY <1>2, SyncInvariant, PTL DEF Spec
  <1> QED BY <1>3 DEF KeptEntriesStay, A

-----------------------------------------------------------------------------
(* What there is at rest *)

\* Two catalogs with the same entries of the registry: a change from one to the
\* other enqueues nothing.
OwnedAlike(c, d) ==
  \A n \in Names : IsOwned(c[n]) \/ IsOwned(d[n]) => c[n] = d[n]

\* Nothing is queued, and nothing on its way to a cache would enqueue.
Still ==
  /\ Server.phase = "live" /\ ~queued
  /\ Len(regLog) = 1
  /\ \A i \in 1 .. Len(catLog) : OwnedAlike(catLog[i], Catalog)

\* The first m of the images have their entries: under each name there is that
\* of one of them.
Shown(images, m, catalog) ==
  \A k \in 1 .. m : \E j \in 1 .. m :
    /\ syncedImageName(images[j]) = syncedImageName(images[k])
    /\ catalog[syncedImageName(images[k])] = SyncedEntry(images[j])

\* What RestIsInSync says of a registry that lives.
SyncIsReported ==
  /\ Server.sync.compiles
  /\ InSync(listed, Server.sync)
  /\ Server.status.cond = [reason |-> "Synced", og |-> Server.gen]
  /\ \E chosen \in Outcomes(listed, Server.sync.sel) :
       Server.status.images = Cardinality(chosen)

\* What the worker has established by the time it has got this far.
WorkerIsUpToDate ==
  /\ pc # "idle" => snap = Server
  /\ pc = "apply" => Shown(selected, next - 1, Catalog)
  /\ pc = "prune" =>
       /\ Shown(selected, Len(selected), Catalog)
       /\ OwnedNames(Catalog) \subseteq desiredNames \union doomed
  /\ pc = "mark" /\ ~failed =>
       /\ Shown(selected, Len(selected), Catalog)
       /\ snap.sync.prune => OwnedNames(Catalog) \subseteq desiredNames
  /\ pc = "idle" => SyncIsReported

\* The last sync, if it is not to be repeated, acts on what is there.
RestInv == Still => WorkerIsUpToDate

LEMMA OwnedNamesAlike ==
  ASSUME NEW c, NEW d, OwnedAlike(c, d)
  PROVE  OwnedNames(c) = OwnedNames(d)
  BY DEF OwnedAlike, OwnedNames

\* What is shown stays so in a catalog with the same entries of the registry.
LEMMA ShownAlike ==
  ASSUME RightlySelected, NEW m \in 0 .. Len(selected), NEW c, NEW d,
         OwnedAlike(c, d), Shown(selected, m, c)
  PROVE  Shown(selected, m, d)
  <1> SUFFICES ASSUME NEW k \in 1 .. m
               PROVE  \E j \in 1 .. m :
                 /\ syncedImageName(selected[j]) = syncedImageName(selected[k])
                 /\ d[syncedImageName(selected[k])] = SyncedEntry(selected[j])
    BY DEF Shown
  <1>1. PICK j \in 1 .. m :
          /\ syncedImageName(selected[j]) = syncedImageName(selected[k])
          /\ c[syncedImageName(selected[k])] = SyncedEntry(selected[j])
    BY DEF Shown
  <1>2. j \in 1 .. Len(selected) /\ k \in 1 .. Len(selected)
    BY DEF RightlySelected
  <1>3. /\ syncedImageName(selected[k]) \in Names
        /\ IsOwned(SyncedEntry(selected[j]))
    BY <1>2, ImageTypes
  <1> QED BY <1>1, <1>3 DEF OwnedAlike

\* So does the sync that was reported.
LEMMA InSyncAlike ==
  ASSUME OwnedAlike(Catalog, Catalog'), NEW held, NEW sync, InSync(held, sync)
  PROVE  InSync(held, sync)'
  <1>1. PICK chosen \in Outcomes(held, sync.sel) :
          /\ \A n \in NamesOf(chosen) :
               \E i \in chosen : /\ NameOf[i] = n
                                 /\ Catalog[n] = [image |-> i, owned |-> TRUE]
          /\ sync.prune => OwnedNames(Catalog) \subseteq NamesOf(chosen)
    BY DEF InSync
  <1>2. chosen \subseteq Images
    BY DEF Outcomes, Candidates
  <1>3. ASSUME NEW n \in NamesOf(chosen)
        PROVE  \E i \in chosen : /\ NameOf[i] = n
                                 /\ Catalog'[n] = [image |-> i, owned |-> TRUE]
    <2>1. PICK i \in chosen : /\ NameOf[i] = n
                              /\ Catalog[n] = [image |-> i, owned |-> TRUE]
      BY <1>1
    <2>2. n \in Names
      BY <1>2, <2>1 DEF Names
    <2>3. IsOwned(Catalog[n])
      BY <1>2, <2>1, SyncedIsOwned
    <2> QED BY <2>1, <2>2, <2>3 DEF OwnedAlike
  <1>4. OwnedNames(Catalog') = OwnedNames(Catalog)
    BY OwnedNamesAlike
  <1> QED BY <1>1, <1>3, <1>4 DEF InSync, Outcomes, Candidates, OwnedNames

\* An end of the log of the catalog is one of its versions.
LEMMA CatalogIsLast ==
  ASSUME TypeOK
  PROVE  /\ Len(catLog) \in Nat /\ Len(catLog) > 0
         /\ Catalog = catLog[Len(catLog)] /\ Len(catLog) \in 1 .. Len(catLog)
         /\ Cached(catLog) = catLog[1] /\ 1 \in 1 .. Len(catLog)
  BY DEF TypeOK, Catalog, Current, Cached

\* A write of the catalog that leaves nothing to enqueue has changed no entry of
\* the registry, and there was nothing to enqueue before.
LEMMA StillBefore ==
  ASSUME SyncInv, Still', regLog' = regLog, queued' = queued,
         NEW c \in Catalogs,
         catLog' = Append(catLog, c) \/ catLog' = Write(catLog, c)
  PROVE  /\ Still /\ Server' = Server
         /\ Catalog' = c /\ OwnedAlike(Catalog, Catalog')
  <1>1. Server' = Server
    BY DEF Server
  <1>2. CASE catLog' = Append(catLog, c)
    <2>1. /\ Catalog' = c /\ Len(catLog') = Len(catLog) + 1
          /\ \A i \in 1 .. Len(catLog) : catLog'[i] = catLog[i]
      BY <1>2, AppendFacts DEF SyncInv, TypeOK, Catalog, Current
    <2>2. \A i \in 1 .. Len(catLog) : OwnedAlike(catLog[i], Catalog')
      BY <2>1, CatalogIsLast DEF Still, SyncInv
    <2>3. OwnedAlike(Catalog, Catalog')
      BY <2>2, CatalogIsLast DEF SyncInv
    <2>4. \A i \in 1 .. Len(catLog) : OwnedAlike(catLog[i], Catalog)
      BY <2>2, <2>3 DEF OwnedAlike
    <2> QED BY <1>1, <2>1, <2>3, <2>4 DEF Still
  <1>3. CASE catLog' = catLog /\ c = Catalog
    <2>1. Catalog' = Catalog
      BY <1>3 DEF Catalog, Current
    <2> QED BY <1>1, <1>3, <2>1 DEF Still, OwnedAlike
  <1> QED BY <1>2, <1>3 DEF Write, Catalog

\* A step that touches neither log nor the queue.
LEMMA StillKept ==
  ASSUME Still', UNCHANGED <<regLog, catLog, queued>>
  PROVE  Still /\ Server' = Server /\ Catalog' = Catalog
  BY DEF Still, Server, Catalog, Current, OwnedAlike, IsOwned

\* What the worker has established stays so while it waits and the entries of
\* the registry are the same.
LEMMA UpToDateKept ==
  ASSUME SyncInv, WorkerIsUpToDate, Server' = Server,
         OwnedAlike(Catalog, Catalog'),
         UNCHANGED <<pc, snap, listed, selected, next, doomed, failed>>
  PROVE  WorkerIsUpToDate'
  <1>1. OwnedNames(Catalog') = OwnedNames(Catalog)
    BY OwnedNamesAlike
  <1>2. desiredNames' = desiredNames
    BY DEF desiredNames
  <1>3. ASSUME pc \in {"apply", "prune"} \/ (pc = "mark" /\ ~failed)
        PROVE  \A m \in 0 .. Len(selected) :
                 Shown(selected, m, Catalog) => Shown(selected, m, Catalog')
    BY <1>3, ShownAlike DEF SyncInv, SelectionStands
  <1>4. next - 1 \in 0 .. Len(selected) /\ Len(selected) \in 0 .. Len(selected)
    BY DEF SyncInv, TypeOK
  <1>5. SyncIsReported => SyncIsReported'
    <2>1. SyncIsReported => InSync(listed, Server.sync)'
      BY InSyncAlike DEF SyncIsReported
    <2> QED BY <2>1 DEF SyncIsReported
  <1> QED BY <1>1, <1>2, <1>3, <1>4, <1>5 DEF WorkerIsUpToDate

\* A sync begins with the ImageRegistry there is, and lists.
LEMMA RestBegin ==
  ASSUME SyncInv, RestInv, Still', Reconcile \/ List
  PROVE  WorkerIsUpToDate'
  <1>1. CASE Reconcile
    <2>1. /\ UNCHANGED <<regLog, catLog>> /\ Server' = Server
          /\ Server.phase = "live" /\ Len(regLog) = 1
      BY <1>1 DEF Reconcile, Still, Server
    <2>2. Cached(regLog) = Server
      BY <2>1, EndsFacts DEF SyncInv, TypeOK, Server
    <2>3. pc' = "list" /\ snap' = Server
      BY <1>1, <2>1, <2>2 DEF Reconcile
    <2> QED BY <2>1, <2>3 DEF WorkerIsUpToDate
  <1>2. CASE List
    <2>1. /\ UNCHANGED <<regLog, catLog, queued, snap, next>> /\ pc = "list"
          /\ pc' = "apply" \/ (pc' = "mark" /\ failed')
      BY <1>2 DEF List, ToMark
    <2>2. Still /\ Server' = Server
      BY <2>1, StillKept
    <2>3. next' = 1
      BY <2>1 DEF SyncInv, FromTheFirst
    <2>4. Shown(selected', next' - 1, Catalog')
      BY <2>3 DEF Shown
    <2> QED BY <2>1, <2>2, <2>4 DEF RestInv, WorkerIsUpToDate
  <1> QED BY <1>1, <1>2

\* An entry that has been applied without leaving an event to enqueue was
\* already the one wanted.
LEMMA RestApply ==
  ASSUME SyncInv, RestInv, Still', ApplyNext
  PROVE  WorkerIsUpToDate'
  <1> DEFINE n == syncedImageName(selected[next])
             e == SyncedEntry(selected[next])
             c == [Catalog EXCEPT ![n] = e]
  <1>1. /\ pc = "apply" /\ next \in 1 .. Len(selected) /\ next' = next + 1
        /\ UNCHANGED <<regLog, queued, pc, snap, selected>>
        /\ catLog' = Write(catLog, c)
    BY DEF ApplyNext, SyncInv, TypeOK
  <1>2. RightlySelected /\ Catalog \in Catalogs
    BY <1>1, VersionTypes DEF SyncInv, SelectionStands
  <1>3. n \in Names /\ e \in Entries /\ IsOwned(e)
    BY <1>1, <1>2, ImageTypes
  <1>4. c \in Catalogs /\ c[n] = e
    BY <1>2, <1>3, CatalogWith DEF Catalogs
  <1> HIDE DEF c
  <1>5. Still /\ Server' = Server /\ Catalog' = c /\ OwnedAlike(Catalog, Catalog')
    BY <1>1, <1>4, StillBefore
  <1>6. snap = Server /\ Shown(selected, next - 1, Catalog)
    BY <1>1, <1>5 DEF RestInv, WorkerIsUpToDate
  <1>7. Shown(selected, next - 1, Catalog')
    BY <1>1, <1>2, <1>5, <1>6, ShownAlike
  <1>8. Shown(selected, next, Catalog')
    <2> SUFFICES ASSUME NEW k \in 1 .. next
                 PROVE  \E j \in 1 .. next :
                   /\ syncedImageName(selected[j]) = syncedImageName(selected[k])
                   /\ Catalog'[syncedImageName(selected[k])] =
                        SyncedEntry(selected[j])
      BY DEF Shown
    <2>1. CASE k = next
      BY <1>1, <1>4, <1>5, <2>1
    <2>2. CASE k # next
      <3>1. k \in 1 .. next - 1 /\ 1 .. next - 1 \subseteq 1 .. next
        BY <1>1, <2>2
      <3> QED BY <1>7, <3>1 DEF Shown
    <2> QED BY <2>1, <2>2
  <1>9. next' - 1 = next
    BY <1>1
  <1> QED BY <1>1, <1>5, <1>6, <1>8, <1>9 DEF WorkerIsUpToDate

\* What prune lists from the cache is what there is.
LEMMA RestStartPrune ==
  ASSUME SyncInv, RestInv, Still', StartPrune
  PROVE  WorkerIsUpToDate'
  <1>1. /\ UNCHANGED <<regLog, catLog, queued, snap, selected>>
        /\ pc = "apply" /\ next > Len(selected)
        /\ \/ /\ pc' = "prune"
              /\ doomed' = OwnedNames(Cached(catLog)) \ desiredNames
           \/ pc' = "mark" /\ ~snap.sync.prune
    BY DEF StartPrune
  <1>2. Still /\ Server' = Server /\ Catalog' = Catalog
    BY <1>1, StillKept
  <1>3. next - 1 = Len(selected)
    <2>1. next \in 1 .. Len(selected) + 1 /\ Len(selected) \in Nat
      BY DEF SyncInv, TypeOK
    <2> QED BY <1>1, <2>1
  <1>4. snap = Server /\ Shown(selected, Len(selected), Catalog)
    BY <1>1, <1>2, <1>3 DEF RestInv, WorkerIsUpToDate
  <1>5. OwnedNames(Cached(catLog)) = OwnedNames(Catalog)
    BY <1>2, CatalogIsLast, OwnedNamesAlike DEF Still, SyncInv
  <1>6. desiredNames' = desiredNames
    BY <1>1 DEF desiredNames
  <1> QED BY <1>1, <1>2, <1>4, <1>5, <1>6 DEF WorkerIsUpToDate

\* A deletion that leaves no event to enqueue was of something else.
LEMMA RestPrune ==
  ASSUME SyncInv, RestInv, Still', PruneNext
  PROVE  WorkerIsUpToDate'
  <1>1. /\ UNCHANGED <<regLog, queued, snap, selected>> /\ pc = "prune"
        /\ desiredNames' = desiredNames
    BY DEF PruneNext, desiredNames
  <1>2. RightlySelected /\ Catalog \in Catalogs
    BY <1>1, VersionTypes DEF SyncInv, SelectionStands
  <1>3. ASSUME NEW n \in doomed,
               catLog' = Write(catLog, [Catalog EXCEPT ![n] = None]),
               doomed' = doomed \ {n}, pc' = pc
        PROVE  WorkerIsUpToDate'
    <2> DEFINE c == [Catalog EXCEPT ![n] = None]
    <2>1. c \in Catalogs /\ n \in Names /\ c[n] = None
      BY <1>2, CatalogWith DEF SyncInv, TypeOK, Catalogs
    <2>2. catLog' = Write(catLog, c)
      BY <1>3
    <2> HIDE DEF c
    <2>3. /\ Still /\ Server' = Server /\ Catalog' = c
          /\ OwnedAlike(Catalog, Catalog')
      BY <1>1, <2>1, <2>2, StillBefore
    <2>4. /\ snap = Server /\ Shown(selected, Len(selected), Catalog)
          /\ OwnedNames(Catalog) \subseteq desiredNames \union doomed
      BY <1>1, <2>3 DEF RestInv, WorkerIsUpToDate
    <2>5. Shown(selected, Len(selected), Catalog')
      BY <1>2, <2>3, <2>4, ShownAlike DEF RightlySelected
    <2>6. OwnedNames(Catalog') = OwnedNames(Catalog)
      BY <2>3, OwnedNamesAlike
    <2>7. n \notin OwnedNames(Catalog')
      BY <2>1, <2>3 DEF OwnedNames, IsOwned
    <2> QED BY <1>1, <1>3, <2>3, <2>4, <2>5, <2>6, <2>7 DEF WorkerIsUpToDate
  <1>4. CASE doomed = {} /\ pc' = "mark" /\ UNCHANGED catLog
    <2>1. Still /\ Server' = Server /\ Catalog' = Catalog
      BY <1>1, <1>4, StillKept
    <2> QED BY <1>1, <1>4, <2>1 DEF RestInv, WorkerIsUpToDate
  <1> QED BY <1>3, <1>4 DEF PruneNext

\* As many images are selected as there are in the outcome.
LEMMA SelectedAreCounted ==
  ASSUME RightlySelected
  PROVE  Len(selected) = Cardinality({ImageOf(s) : s \in Range(selected)})
  <1> DEFINE chosen == {ImageOf(s) : s \in Range(selected)}
             f == [k \in 1 .. Len(selected) |-> ImageOf(selected[k])]
  <1>1. Len(selected) \in Nat /\ DOMAIN selected = 1 .. Len(selected)
    BY DEF RightlySelected
  <1>2. chosen = {f[k] : k \in 1 .. Len(selected)}
    BY <1>1 DEF Range
  <1>3. \A j, k \in 1 .. Len(selected) : f[j] = f[k] => j = k
    BY <1>1 DEF RightlySelected
  <1>4. f \in Bijection(1 .. Len(selected), chosen)
    <2>1. f \in [1 .. Len(selected) -> chosen]
      BY <1>2
    <2> QED BY <1>2, <1>3, <2>1 DEF Bijection, Injection, Surjection, IsInjective
  <1>5. ExistsBijection(1 .. Len(selected), chosen)
    BY <1>4 DEF ExistsBijection
  <1> QED BY <1>1, <1>5, FS_CountingElements

\* A catalog that shows what is selected, and nothing besides when the registry
\* prunes, is in step.
LEMMA ShownIsInSync ==
  ASSUME RightlySelected, Shown(selected, Len(selected), Catalog),
         snap.sync.prune => OwnedNames(Catalog) \subseteq desiredNames
  PROVE  InSync(listed, snap.sync)
  <1> DEFINE chosen == {ImageOf(s) : s \in Range(selected)}
  <1>1. chosen \in Outcomes(listed, snap.sync.sel) /\ desiredNames = NamesOf(chosen)
    BY DesiredFacts
  <1>2. DOMAIN selected = 1 .. Len(selected)
    BY DEF RightlySelected
  <1>3. ASSUME NEW n \in NamesOf(chosen)
        PROVE  \E i \in chosen : /\ NameOf[i] = n
                                 /\ Catalog[n] = [image |-> i, owned |-> TRUE]
    <2>1. PICK k \in 1 .. Len(selected) : syncedImageName(selected[k]) = n
      BY <1>2 DEF NamesOf, Range, syncedImageName
    <2>2. PICK j \in 1 .. Len(selected) :
            /\ syncedImageName(selected[j]) = n
            /\ Catalog[n] = SyncedEntry(selected[j])
      BY <2>1 DEF Shown
    <2>3. ImageOf(selected[j]) \in chosen
      BY <1>2 DEF Range
    <2> QED BY <2>2, <2>3 DEF syncedImageName, SyncedEntry
  <1> QED BY <1>1, <1>3 DEF InSync

\* A status patch that has left no event: the status already said so.
LEMMA RestPatch ==
  ASSUME SyncInv, RestInv, Still', patchStatus
  PROVE  WorkerIsUpToDate'
  <1>1. /\ UNCHANGED catLog /\ pc = "mark" /\ pc' = "idle" /\ listed' = listed
        /\ \/ /\ \E reg \in PatchedRegistries : regLog' = Write(regLog, reg)
              /\ queued' = (queued \/ failed)
           \/ queued' = TRUE
    BY DEF patchStatus, ToIdle
  <1>2. ~queued' /\ Len(regLog') = 1
    BY DEF Still
  <1>3. ~queued /\ ~failed
    <2>1. queued' # TRUE
      BY <1>2
    <2> QED BY <1>1, <1>2, <2>1
  <1>4. PICK reg \in PatchedRegistries : regLog' = Write(regLog, reg)
    <2>1. queued' # TRUE
      BY <1>2
    <2> QED BY <1>1, <2>1
  <1>5. regLog' = regLog /\ reg = Server
    <2>1. regLog \in Seq(Registries) /\ Len(regLog) > 0 /\ reg \in Registries
      BY <1>1, <1>4, PatchTypes DEF SyncInv, TypeOK
    <2>2. CASE reg # Current(regLog)
      <3>1. regLog' = Append(regLog, reg) /\ Len(regLog') = Len(regLog) + 1
        BY <1>4, <2>1, <2>2, AppendFacts DEF Write
      <3> QED BY <1>2, <2>1, <3>1
    <2> QED BY <1>4, <2>2 DEF Write, Server
  <1>6. Still /\ Server' = Server /\ Catalog' = Catalog
    BY <1>1, <1>2, <1>3, <1>5 DEF Still, Server, Catalog, Current, OwnedAlike
  <1>7. /\ snap = Server /\ Shown(selected, Len(selected), Catalog)
        /\ snap.sync.prune => OwnedNames(Catalog) \subseteq desiredNames
    BY <1>1, <1>3, <1>6 DEF RestInv, WorkerIsUpToDate
  <1>8. RightlySelected /\ snap.sync.compiles
    BY <1>1, <1>3 DEF SyncInv, SelectionStands
  <1>9. PICK now \in Now : reg = [Server EXCEPT !.status = MergePatch(markReady(now))]
    BY <1>3 DEF PatchedRegistries
  <1>10. /\ Server.status.cond = [reason |-> "Synced", og |-> Server.gen]
         /\ Server.status.images = Len(selected)
    <2>1. Server \in Registries
      BY VersionTypes DEF SyncInv
    <2>2. Server.status = MergePatch(markReady(now))
      BY <1>5, <1>9, <2>1 DEF Registries
    <2>3. \A f \in {"cond", "images"} :
            MergePatch(markReady(now))[f] = markReady(now)[f]
      BY <1>7 DEF MergePatch, Patched, markReady
    <2> QED BY <1>7, <2>2, <2>3 DEF markReady
  <1>11. InSync(listed, Server.sync)
    BY <1>7, <1>8, ShownIsInSync
  <1>12. SyncIsReported
    BY <1>7, <1>8, <1>10, <1>11, SelectedAreCounted, DesiredFacts
       DEF SyncIsReported
  <1>13. OwnedAlike(Catalog, Catalog')
    BY <1>6 DEF OwnedAlike
  <1>14. InSync(listed, Server.sync)'
    <2>1. InSync(listed, Server.sync)'
            <=> InSync(listed, Server.sync)
      BY <1>1, <1>6 DEF InSync, Outcomes, Candidates, OwnedNames
    <2> QED BY <1>11, <2>1
  <1>15. SyncIsReported'
    BY <1>1, <1>6, <1>12, <1>14 DEF SyncIsReported
  <1> QED BY <1>1, <1>15 DEF WorkerIsUpToDate

\* A delivery that enqueues nothing is of a catalog with the same entries of the
\* registry.
LEMMA RestDeliver ==
  ASSUME SyncInv, RestInv, Still', DeliverEntry
  PROVE  WorkerIsUpToDate'
  <1>1. /\ Len(catLog) > 1 /\ catLog' = Tail(catLog) /\ regLog' = regLog
        /\ UNCHANGED <<pc, snap, listed, selected, next, doomed, failed>>
    BY DEF DeliverEntry, worker
  <1>2. ~queued /\ OwnedAlike(catLog[1], catLog[2])
    <2>1. ~queued'
      BY DEF Still
    <2>2. queued' = (queued \/ \E n \in Names :
                       /\ catLog[1][n] # catLog[2][n]
                       /\ IsOwned(catLog[1][n]) \/ IsOwned(catLog[2][n]))
      BY DEF DeliverEntry
    <2> QED BY <2>1, <2>2 DEF OwnedAlike
  <1>3. /\ Catalog' = Catalog /\ Len(catLog') = Len(catLog) - 1
        /\ Len(catLog) \in Nat
        /\ \A i \in 1 .. Len(catLog') : catLog'[i] = catLog[i + 1]
    BY <1>1, TailFacts DEF SyncInv, TypeOK, Catalog, Current
  <1>4. \A i \in 2 .. Len(catLog) : OwnedAlike(catLog[i], Catalog)
    <2> SUFFICES ASSUME NEW i \in 2 .. Len(catLog)
                 PROVE  OwnedAlike(catLog[i], Catalog)
      OBVIOUS
    <2>1. i - 1 \in 1 .. Len(catLog') /\ (i - 1) + 1 = i
      BY <1>3
    <2>2. OwnedAlike(catLog'[i - 1], Catalog')
      BY <2>1 DEF Still
    <2> QED BY <1>3, <2>1, <2>2
  <1>5. OwnedAlike(catLog[1], Catalog)
    <2>1. OwnedAlike(catLog[2], Catalog)
      BY <1>1, <1>3, <1>4
    <2> QED BY <1>2, <2>1 DEF OwnedAlike
  <1>6. Still /\ Server' = Server
    BY <1>1, <1>2, <1>4, <1>5 DEF Still, Server
  <1>7. OwnedAlike(Catalog, Catalog')
    BY <1>3 DEF OwnedAlike
  <1> QED BY <1>1, <1>6, <1>7, UpToDateKept DEF RestInv

\* What others do to a registry that lives is an event under way, or no change
\* of its entries.
LEMMA RestOutside ==
  ASSUME SyncInv, RestInv, Still', Outside
  PROVE  WorkerIsUpToDate'
  <1>0. /\ UNCHANGED <<pc, snap, listed, selected, next, doomed, failed, queued>>
        /\ Len(regLog') = 1 /\ Server'.phase = "live"
        /\ regLog \in Seq(Registries) /\ Len(regLog) > 0
    BY WorkerStays DEF Still, SyncInv, TypeOK, Outside, RemoteChanges,
       PatchImageRegistry, ForceSyncImageRegistry, DeleteImageRegistry,
       HandChange, CollectEntries, FinishDeletion
  <1>1. CASE \/ PatchImageRegistry \/ ForceSyncImageRegistry
             \/ DeleteImageRegistry \/ FinishDeletion
    <2>1. PICK v : regLog' = Append(regLog, v)
      BY <1>1 DEF PatchImageRegistry, ForceSyncImageRegistry,
                  DeleteImageRegistry, FinishDeletion
    <2> QED BY <1>0, <2>1, AppendGrows
  <1>2. CASE CollectEntries
    BY <1>0, <1>2 DEF CollectEntries, Server
  <1>3. CASE RemoteChanges
    <2>1. UNCHANGED <<regLog, catLog, queued>>
      BY <1>3 DEF RemoteChanges
    <2>2. Still /\ Server' = Server /\ Catalog' = Catalog
      BY <2>1, StillKept
    <2>3. OwnedAlike(Catalog, Catalog')
      BY <2>2 DEF OwnedAlike
    <2> QED BY <1>0, <2>2, <2>3, UpToDateKept DEF RestInv
  <1>4. ASSUME NEW n \in Names, HandChange(n) PROVE WorkerIsUpToDate'
    <2>1. PICK e \in {None, [image |-> Edited, owned |-> IsOwned(Catalog[n])]} :
            catLog' = Append(catLog, [Catalog EXCEPT ![n] = e])
      BY <1>4 DEF HandChange
    <2>2. [Catalog EXCEPT ![n] = e] \in Catalogs
      BY <2>1, HandTypes DEF SyncInv
    <2>3. Still /\ Server' = Server /\ OwnedAlike(Catalog, Catalog')
      BY <1>0, <1>4, <2>1, <2>2, StillBefore DEF HandChange
    <2> QED BY <1>0, <2>3, UpToDateKept DEF RestInv
  <1> QED BY <1>1, <1>2, <1>3, <1>4 DEF Outside

\* What fails is tried again, and a manager that restarts looks at everything.
LEMMA RestTrouble ==
  ASSUME SyncInv, RestInv, Still', Trouble
  PROVE  WorkerIsUpToDate'
  <1>1. CASE ReconcileFails
    <2>1. /\ UNCHANGED <<regLog, catLog, queued, snap>>
          /\ pc # "idle" /\ pc' = "mark" /\ failed'
      BY <1>1 DEF ReconcileFails, ToMark
    <2>2. Still /\ Server' = Server
      BY <2>1, StillKept
    <2> QED BY <2>1, <2>2 DEF RestInv, WorkerIsUpToDate
  <1>2. CASE PatchStatusFails
    BY <1>2 DEF PatchStatusFails, Still
  <1>3. CASE ManagerRestarts
    <2>1. Server' = Server
      BY <1>3, RelistFacts DEF ManagerRestarts, SyncInv, TypeOK, Server
    <2>2. queued'
      BY <1>3, <2>1 DEF ManagerRestarts, Still
    <2> QED BY <2>2 DEF Still
  <1> QED BY <1>1, <1>2, <1>3 DEF Trouble

LEMMA RestStep == SyncInv /\ RestInv /\ [Next]_vars => RestInv'
  <1> SUFFICES ASSUME SyncInv, RestInv, [Next]_vars, Still'
               PROVE  WorkerIsUpToDate'
    BY DEF RestInv
  <1>1. CASE UNCHANGED vars
    <2>1. /\ UNCHANGED <<regLog, catLog, queued>>
          /\ UNCHANGED <<pc, snap, listed, selected, next, doomed, failed>>
      BY <1>1 DEF vars, worker
    <2>2. Still /\ Server' = Server /\ Catalog' = Catalog
      BY <2>1, StillKept
    <2>3. OwnedAlike(Catalog, Catalog')
      BY <2>2 DEF OwnedAlike
    <2> QED BY <2>1, <2>2, <2>3, UpToDateKept DEF RestInv
  <1>2. CASE WorkerStep
    BY <1>2, RestBegin, RestApply, RestStartPrune, RestPrune, RestPatch
       DEF WorkerStep
  <1>3. CASE DeliverRegistry \/ TimerFires
    BY <1>3 DEF DeliverRegistry, TimerFires, Still
  <1> QED BY <1>1, <1>2, <1>3, RestDeliver, RestOutside, RestTrouble DEF Next

\* Reconcile and SetupWithManager's watches, for every bound and every set of
\* images, names and selections: whenever there is nothing left to do before the
\* timer, the catalog and the status are what the last listing gives under the
\* current spec.
THEOREM RestsInSync == Spec /\ []SelectsTheNewest => []RestIsInSync
  <1>1. Init => RestInv
    BY DEF Init, RestInv, Still
  <1>2. SyncInv /\ RestInv => RestIsInSync
    <2> SUFFICES ASSUME SyncInv, RestInv, Quiet, Server.phase = "live"
                 PROVE  SyncIsReported
      BY DEF RestIsInSync, SyncIsReported
    <2>1. Still /\ pc = "idle"
      BY CatalogIsLast DEF Quiet, Still, OwnedAlike, SyncInv
    <2> QED BY <2>1 DEF RestInv, WorkerIsUpToDate
  <1> QED BY <1>1, <1>2, RestStep, SyncInvariant, PTL DEF Spec

=============================================================================
