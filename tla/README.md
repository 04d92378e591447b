# A TLA+ model of dwpk

dwpk is an operator that gives each person a namespace (a `UserSpace`) and
persistent development environments in it (a `Workspace` each), a web UI, and an
SSH gateway. All of its state lives in Kubernetes objects, and every component is a
reader of informer caches that trail the API server and a writer to that API server.
That is where the difficulty is: decisions taken on an old copy, patches computed
against it, steps that fail or whose process dies in the middle, and progress that
rests entirely on the right watch firing.

## 1. Inventory

| Component (source) | State | Operations | Interacts through | Hard part | What makes it correct |
|---|---|---|---|---|---|
| Workspace controller (`internal/controller/workspace_controller.go`, `internal/workspace`) | status of the Workspace, its Service, StatefulSet and runtime git-ssh Secret | `Reconcile`, `ensureGitSSHRuntimeSecret`, `applyWorkload`, `mark*`, `patchStatus`, watch handlers | caches of five kinds, server-side apply, merge patches | stale reads, merge patches without a precondition, partial failure, restart, self-triggering | the status tells the truth about the generation it names; at rest it is converged |
| Workspace webhook (`internal/webhook/workspace_validator.go`, `quota_usage.go`) | none; reads caches | `ValidateCreate`, `ValidateUpdate`, `validateQuota` | review before the API server persists | two reviews under way, unseen quota edits | only a race or a cut exceeds the quota; shrinking is always possible; where the two measure alike, the ResourceQuota agrees |
| UserSpace controller (`userspace_controller.go`, `userspace_objects.go`, `role_objects.go`) | namespace, quota, access objects, mirrored pull Secrets, cluster-wide bindings, status | `Reconcile`, `applyChildren`, `reconcileRoleGrants`, `patchStatus` | as above, and the manager's flags | withdrawal from a stale list, fourteen applies in a row, unwatched inputs | bindings are exactly those of the role; everything is of the current spec |
| ImageRegistry controller (`imageregistry_controller.go`, `internal/registry`) | catalog entries of one registry, status | `Reconcile`, `prune`, `Select` | remote registry, timer, force-sync annotation | status patch retriggers, prune on a stale list | a sync per interval or request; prune deletes only what is gone |
| UserSpace webhook (`internal/webhook/userspace_validator.go`) | none; reads caches and asks RBAC | `ValidateCreate`, `ValidateUpdate` | review before the API server persists | uniqueness on a cached list, a namespace that is fixed only by the first status patch | one login, one UserSpace; one namespace for each; nobody raises their own entitlements |
| Workspace mutator (`workspace_mutator.go`) | none; reads caches | `Default` | as above | a profile the cache has not seen | a Workspace from a form has a key |
| SSH gateway (`internal/gateway`) | connection slots, channels, a size queue per session | accept, `serve`, `session`, `exec`, `directTCPIP`, `touchWorkspaceActivity` | goroutines and Go channels, Workspace status | a channel closed while another goroutine sends, early returns, clients that go away | slots and stamps are given back; no goroutine is left behind |
| Browser terminal (`internal/ui/terminal.go`, `internal/gateway/terminal.go`) | a websocket, a pipe, a size queue | read, write, open, stream | three goroutines | a pipe without a buffer | everything ends when the page goes |
| Bootstrap (`internal/bootstrap`) | administrator's UserSpace, account, token, the Secret with the first credentials | `AdminAccount`, `AdminToken` | run again by Helm hooks, and together | a stop between two writes | what is published is what works |
| Local accounts, reset links, tokens (`internal/auth`) | Secrets | create, change, reset, issue, remove | concurrent requests, list-then-write | two lists before either write | one account per name; a link works once |
| Sessions and login (`internal/auth/session.go`, `internal/ui/auth_handlers.go`, `login.go`, `middleware.go`, `challenges.go`, `csrf.go`) | four maps in memory, each under its own lock | login, mint, onboarding, logout, expiry | concurrent requests | no lock spans two maps; an end that meets a mint | an ended session stays ended; a challenge opens one session; the maps agree |
| Web console and REST API (`internal/ui`) | a cache of the settings | forms, PATCH handlers, create, delete, status card | the API server, with the caller's token | read-then-write without a precondition, pages that are old when sent back | an edit keeps what it did not touch; the screens say what becomes of a Workspace |
| Entry points, rendering (`cmd`, `layout_templ.go`, ...) | none | wiring, output | | | |

`PROJECT.json` lists the same parts with their status, and the hazards line by line.

## 2. Modules

| Module | Models |
|---|---|
| `WatchLog` | one object as a controller sees it: a sequence of versions whose first is the cache's and whose last is the API server's; `Write` (a write that changes nothing is no event), `Relist` (a restart), `Patched` (one field of `client.MergeFrom`) |
| `WorkspaceReconcile` | one Workspace, its children, catalog entry and Secrets, and the single worker of its controller |
| `QuotaAdmission` | the Workspaces of one namespace, the webhook's cache, reviews under way, the allowance, and the pods and claims admitted against the ResourceQuota |
| `UserSpaceReconcile` | one UserSpace, its children and bindings, and the worker of its controller |
| `RegistrySelection` | `Select` and its helpers as operators on listings |
| `ImageRegistrySync` | one ImageRegistry, the remote registry, the catalog, and the worker of its controller |
| `SSHGateway` | the gateway process: connections in slots, their channels, every goroutine of a channel |
| `BrowserTerminal` | the websocket handler, the terminal and the stream's copy |
| `Logins`, `Sessions` | what signing in promises, and the four maps that implement it |
| `Accounts` | local accounts, reset links, the administrator token, and the two install hooks |
| `UserSpaceAdmission` | UserSpaces, the reviews of their webhook over a cached list, and the controller as far as namespaces, bindings and `status.namespace` go |
| `ConsoleEdits` | the edits of shared objects by form and by PATCH, and the cached settings |
| `GitKeys` | the Secret of git-ssh keys under concurrent requests |
| `WorkspaceConsole` | a Workspace as the screens create, show, start, stop and delete it |
| `MCWorkspaceReconcile`, `MCQuotaAdmission`, `MCUserSpaceReconcile`, `MCImageRegistrySync` | constants for TLC |
| `MCWorkspaces`, `MCTerminals`, `MCIdentity`, `MCConsole` | instances of several components, side by side |
| `WorkspaceReconcileProofs`, `UserSpaceReconcileProofs`, `ImageRegistrySyncProofs`, `QuotaAdmissionProofs`, `SSHGatewayProofs`, `AccountsProofs` | theorems about the module each is named after, with their invariants and lemmas; the first three begin with the same lemmas about logs |
| `IdentityProofs` | theorems about `Sessions`, and about the accounts where `MCIdentity` puts the two side by side |
| `ConsoleProofs` | theorems about the four components `MCConsole` puts side by side: `UserSpaceAdmission`, `GitKeys`, `WorkspaceConsole` and `ConsoleEdits` |

### WorkspaceReconcile

State: a log per kind of object (`wsLog`, `stsLog`, `svcLog`, `imgLog`, `secLog`), the
workqueue's bit for this Workspace (`queued`; controller-runtime keeps at most one
entry per key), and the worker: `pc`, the Workspace it read (`snap`), whether the
git-ssh Secret is mounted (`keysRef`) and the status it decided on (`mark`, `failed`).

`Reconcile` is cut at each call that reaches the API server, which is where other
actors can move: `Reconcile` (take the key, read Workspace and catalog entry, the three
early returns) → `ensureGitSSHRuntimeSecret` → `ApplyService` → `ApplyStatefulSet` →
`Observe` (the StatefulSet read back through the cache) → `patchStatus`. Any call may
fail (`ReconcileFails` → Degraded, `ObserveFails`, `PatchStatusFails`); a write whose
answer is lost was made, which the model has as a failure at the step after it. A
cached read of the Workspace or the catalog entry that fails returns the error and is
tried again: nothing changes, so it is a stutter. `Deliver*` advance a cache
and apply the handlers of `SetupWithManager`: the watch on Secrets ignores every name
but the user's own. Users start, stop and delete (background and foreground), the
validating webhook refuses an update when its cache has no catalog entry
(`UpdateAdmitted`), pods become ready and fail, the garbage collector follows
ownerReferences, and the manager restarts.

Abstractions: conditions keep their reason and observedGeneration (status and message
follow from the reason); a key Secret is one value; `status.endpoint` and the
pod template beyond replicas and the mount are left out.

### QuotaAdmission

`Review` is a whole webhook call: read the cache, measure, answer. `Commit` is the API
server persisting what was admitted, some time later, or reporting a conflict. `excused`
is a history variable: a write whose review did not see the other Workspaces or the
quota as they were when it was persisted, or a quota cut below what was there. CPU,
memory and GPU are measured by the same rule and are one quantity, `compute`. The
other checks of the webhook look at one object only: they refuse writes, which in the
model is the writer not making them. `CreateClaim`, `CreatePod` and `StopPod` are the
StatefulSet controller against the ResourceQuota.

A `Shape` is what a Workspace asks for (a request and a limit, 0 for none) and whether its
image runs as root. The webhook counts the request. Kubernetes charges a container its
request, without one its limit, and without either the LimitRange's default
(`ContainerRequest`); a pod that does not run as root has the init container of
`applyPasswdFix` besides, which asks for nothing, and the greater of the two counts
(`RequestOf`). That holds of CPU and memory; a GPU has no default, so for it every shape is
one in which what is stated is what is charged. An image is taken to keep its user while
there are pods of it.

### UserSpaceReconcile

Children the reconciler writes without reading are kept as the API server's value and
one bit, `kidsChanged`, for an event of any of them; the objects between the
ResourceQuota and the pull Secrets are applied in a row from the same input and are
one child, `Access`. What is built is identified by the generation it was built from,
the GPU name and the Secret's value. The first status patch replaces the worker's
UserSpace by the API server's answer, as `Status().Patch` does, so the rest of that
reconcile works on the newer object (`MarkPending`). A write into a namespace that
garbage collection has removed fails. `GrantRoles` and `WithdrawRoles` are the two
halves of `reconcileRoleGrants`, the second on the cached list; either may stop half
way (`ReconcileFails`). A manager may restart with other `AdminClusterRoles`.
`overtook` is a history variable: the answer to a first status patch was ahead of a
version that the cache has yet to be given and that will be reconciled.

### ImageRegistrySync

`Reconcile` is cut at the call to the registry (`List`, with `CompileSelection` and
`Select`), at each apply (`ApplyNext`), at the cached list prune starts from
(`StartPrune`), at each delete (`PruneNext`) and at the status patch. A success leaves
`timer`, a failure puts the key back. The catalog is one log of versions, as one watch
delivers it, and an entry carries whether the registry owns it; administrators create,
edit and delete entries by hand. A pattern is the set of names it matches, a selection
that does not compile is a value of `spec.sync`, and listings come in every order, so
images pushed at one time are chosen between arbitrarily. Of `lastSyncTime`, written to
the second, only whether a patch changes it is kept: a sync may end in the second of the
last one or in a later one. `Outcomes` is a reference definition of the selection (of
each repository as many candidates as the limit allows, none older than one left out);
`SelectsTheNewest` compares `Select` with it, and the other properties are stated with it.

### SSHGateway and BrowserTerminal

A connection goes through `Accept` (a slot is taken, or the connection is refused),
authentication against the keys of the Workspace its user name stands for, `Reload`
(the Workspace is read again, and an error ends the connection; the copy it finds
serves every channel) and its channels, each of which is refused unless that copy is
ready and the pod, looked up afresh, is the Workspace's. A session channel has a request loop and an exec
goroutine that share the size queue; a forward has a goroutine per direction. A send on
a closed Go channel is the action that takes `process` to `panicked`. Users' names are
kept as sequences of parts, so that "a-b" with "c" and "a" with "b-c" are one user name,
as `SSHUser` makes them; a connection is let in when exactly one Workspace of that name
trusts its key.

In `BrowserTerminal` the pipe has no buffer, as `io.Pipe` has none: the handler's write
and the stream's read are one step of two goroutines, and either may be missing.

### Sessions, Logins and Accounts

`Sessions` has a step for every lock a request takes, so two requests interleave between
any two maps. A mint fails at the API server (`MintFails`) or in `Refresh`, which turns down
an empty token or an expiry that is not to come before it looks at the session (`usable`),
and else finds the session gone; `turnedDown` is a history variable, the live sessions a
token was turned down for. An identifier is random and is a fresh model value; an expiry is the time
left. `Logins` is the abstract specification: a session is open once and, once ended,
never again, and a challenge opens at most one. The refinement maps `open` to the
sessions that exist and have time left and `ended` to the issued ones that have not.

`Accounts` cuts every request and hook at its API calls; `Dies` stops one anywhere. What
nobody can undo is kept as history (`died`, `raced`, `overlap`, `removed`, and `hooked`,
the usernames the hooks were configured with), and the properties say that the bad
outcome needs one of them. Its parameters are assumed to meet `AccountsAssumption`, which
`MCIdentity`, where it is an instance, has TLC evaluate and the theorems have as a
hypothesis.

### UserSpaceAdmission, ConsoleEdits, GitKeys, WorkspaceConsole

`UserSpaceAdmission` separates the review from the write it admits, with the cache
between them; RBAC (`MayCreate`, `MayPatch`) decides who gets to the webhook. The
controller is there because the immutability of `spec.namespace` starts with what its first
patch records. That patch is computed on the spec the reconcile read (`MarkPending`), but
the reconcile goes on from the server's answer: namespace and bindings are of the spec as it
is then (`Provision`, which may fail half-way), and `MarkReady` puts its namespace into the
status, after a failure too.

In `ConsoleEdits` an edit is a read and a write with time in between. A definition named
`...Form` is what a page shows and will send back, `...FromForm` what the handler makes
of an empty box, `...Patch` what its merge patch names. A field is 0 for its zero value,
and fields that all edits treat alike are one: of a Workspace's resources `compute` is what
the form has boxes for (the CPU request, the memory limit), `env` the variables with a plain
value, and `unboxed` what it has none for (a CPU limit, a memory request, a variable with a
`valueFrom`). The resource form is filled under the GPU name of the cached settings, and a
`Get` of them that fails is cached as none (`ReadResources`, `StoreConfig`). `meant` is a history variable: the value
each field was last deliberately given. `EditsKeepTheRest` compares it with what is
stored; two overlapping edits and the known losses of section 4 are excused, by name.

`WorkspaceConsole` reduces the controller to what a screen sees of it. `events` records
what a screen cannot know.

### Composition

Components that share no object are checked together, in one run each for terminals,
identity and console: a variable
`part`, chosen in `Init`, says which component the behaviour is of, and the others stay
as they are. The reachable states are the sum of the components', not the product; no
interaction is lost because there is none (a session keeps no reference to an account;
the four console modules edit different objects). `MCWorkspaces` puts the reconciler of
Workspaces beside their quota in the same way. Those two do meet in the objects, but in one
direction that both models cover: the webhook decides which writes are stored, and
`WorkspaceReconcile` has users make any write; a pod that the ResourceQuota refuses is there
one that never becomes ready. The webhook reads nothing the reconciler writes. Components
that do interact are
modelled together: the webhook with the ResourceQuota and the controller that writes it
(`QuotaAdmission`), the UserSpace webhook with the controller's first patch
(`UserSpaceAdmission`), the screens with the controller and the volume
(`WorkspaceConsole`), settings with the resource form (`ConsoleEdits`).

## 3. Runs

Every run disables TLC's deadlock check: a controller with nothing to do, a user who
does not come back and a bound that is used up all stop legitimately.

| Run | Shows | Bounds |
|---|---|---|
| `Workspaces` | reconciler: convergence, which includes that the key Secret is mounted exactly when the user has a key. Quota: only a race or a cut exceeds it; shrinking is admitted; of what was admitted the ResourceQuota stops no volume, and no pod where what is stated is what is charged | reconciler: 2 generations, lag 1, two of a failed call, a catalog change, a key change and an edit. Quota: 2 Workspaces, a request of 1 under an image that runs as root and of 2, the default, under one that does not, two tight allowances and one edit; behaviours stop when `excused` becomes true, after which the two properties it guards say nothing |
| `WorkspaceLive` | a Ready of the current generation speaks of the current spec and is backed by an applied workload; Service before StatefulSet; observedGeneration never regresses; the reconciler comes to rest, and at rest status and objects agree; children re-created after a deletion are collected | fairness, 2 generations, lag 1, an edit and one each of failed call, pod failure and restart, together; with a key, or a change of key or catalog, one event alone |
| `WorkspaceKeys`* | at rest the mounted keys differ from the stored ones | 2 key changes, lag 2 |
| `QuotaCharge`* | two Workspaces that state their requests are admitted, and the pod of one is refused | as the quota of `Workspaces`, with requests of 1, below the default, under either image |
| `UserSpaceLive` | a current Ready is backed by children; provisioned at rest, with exactly the role's bindings; comes to rest; nothing is left behind | fairness, 2 generations, lag 1, 1 ClusterRole, one of: a failed call, a restart with another flag, a child removed by hand, a settings or Secret change |
| `UserSpaceStale`* | a Ready of the current generation over children of an older one, with no fault | 2 generations, lag 5: the cache is still at the object's creation when a whole reconcile has published |
| `ImageRegistryCatalog` | what `Select` returns is newest and allowed; the catalog follows the registry and at rest shows what was listed; nothing still wanted is pruned; nothing outlives the registry | fairness, 2 generations of 3 specs, lag 1, 3 images of which 2 share a name, one of: a failed call, a restart, a change by hand, a push or removal, a forced sync |
| `Terminals` | slots and activity stamps are given back however a connection ends; a push on a closed queue needs a resize after the exec ended; channels whose client has gone end; of a closed browser terminal only a blocked write stays | fairness, 2 connections and slots, 2 Workspaces of one user name, 1 channel, a queue of 1, 2 requests, 1 change of the cluster; browser: size queue of 2, 4 messages |
| `Identity` | sessions implement `Logins`; the maps agree and logout ends the session, unless a minted token was turned down for it; one account per name; credentials are not lost without a crash; links are not abused without a race | 2 sessions, 1 challenge, 2 concurrent requests, windows of 1 and 2 ticks, a token turned down for one session at most; accounts: 1 username, 2 Secret names, 3 concurrent hooks or requests, 2 links, 2 tokens |
| `BootstrapRename`* | a hook with a second username generates a password that is written nowhere | 2 usernames, 2 hooks |
| `Console` | logins clash only through a race; a UserSpace has the one namespace of its spec; entitlements need an administrator; edits keep the rest; the settings cache follows saves; git-ssh keys are kept; screens tell the truth; homes are kept | 3 UserSpaces; 3 overlapping edits of one object; 3 requests over 2 hosts; 2 requests on one Workspace |
| `ImageRegistryLoop`* | a sync starts the next one without waiting for the interval | 1 image, nothing changes |

Runs marked * state what a comment, message or document says and are violated by the
code; `PROJECT.json` quotes the line and explains the counterexample.

Why the bounds suffice: the properties of the reconcilers relate the server's object,
the cached one and the one a worker has read. Two generations and one event of lag make
any two of them differ, in every order. What three generations, longer lag, more
ClusterRoles and several troubles at once would add is covered by the theorems of
section 5, which hold for all of them; the runs are there to have every action taken, to
show the liveness properties, and to show what a mutation of the code breaks. One
trouble of each kind is placed by TLC at every step, and where a run has several, in
every order; two Workspaces and two allowances are enough for one write to invalidate
another's review. Two requests are enough to interleave the maps of `Sessions`, since
each property is of one session and one other request; the accounts and the edits get
three, so that a third can undo what two agreed on. One channel with a queue of one and
two requests fills the queue and still has one to send.

**Fairness.** `WF` of the worker's next step (one goroutine per controller, always
running), of each watch (client-go's reflector resumes and delivers every event) and of
the garbage collector. No fairness of users, pods, faults or the catalog. A failed
reconcile is requeued with back-off, which is a delay and not a refusal. `FairSpec` of
`ImageRegistrySync` adds the workqueue's timer; `PatientSpec`, used by
`ImageRegistryLoop`, does not, as that run is about what happens before the timer fires.
The action constraint of `WorkspaceLive` bounds what users and faults do; it is met by every
step that fairness is about, so no behaviour is cut off where one of them is due.
`SSHGateway` has `WF` of each goroutine that is not waiting for the network: the request
loop, the exec goroutine, the copies of a forward and `serve`. Nothing makes a client act,
a pod's process end or a handshake finish. The safety runs need none.

Each module has a `TypeOK`. Those of the modules of section 5 are proved, as a theorem or as
part of an invariant; the one of `WorkspaceReconcile` is a property of a run too.

## 4. Disagreements between the code and what is said of it

Five have runs that are violated: `ImageRegistryLoop`, `WorkspaceKeys`, `QuotaCharge`,
`UserSpaceStale` and `BootstrapRename`. The last two were found by proof attempts:
`ReadyBackedByChildren` and `NoLockoutWithoutCrash` had no inductive strengthening as
they stood, and what stood in the way was a behaviour that the runs' bounds had kept
out. The others were met while modelling. Where a property would be false without it,
the model names the case in an excuse (`KnownLoss`, `excused`, `events`, `spent`,
`raced`, `died`, `turnedDown`, `rebound`) instead of leaving it out.

Controllers and webhooks:

- `status.state` "is a coarse summary of the conditions" (`workspace_types.go:160`). A merge
  patch computed on a status one event old leaves the state out, because it equals the
  stale value, and sends the conditions: the two contradict one another until the next
  event (`workspace_controller.go:346`).
- The quota refusal says "stop one first" (`quota_usage.go:91`), but the update that stops
  one is measured by the same absolute totals and refused too once the running Workspaces
  exceed the allowance by two.
- `spec.quota.workspaces` is the "Maximum number of `Workspace` objects in the namespace"
  (`docs/API_REFERENCE.md:195`), while `quotaUsage.add` counts the running ones only; the
  create form counts all of them and says "The two must agree" (`helpers.go:118`).
- The webhook's number and "the number that stops their pod agree" (`quota_usage.go:52-53`),
  but the webhook counts what a Workspace states. The `fix-passwd` container of every image
  that does not run as root states nothing and is given the LimitRange's default, so a
  request below 100m or 128Mi is charged as that (`QuotaCharge`). A container without a
  request is charged its limit or the default, and counted as nothing: among them is the
  memory of every Workspace made with the console's form, which sets a memory limit and no
  request (`resources.go:66-76`). `BackstopAgrees` therefore speaks of pods only where every
  running Workspace `StatesWhatIsCharged`; of volumes it has no such condition.
- The quota "names the resource the cluster actually has"
  (`userspace_controller.go:60-61`), but PlatformConfig is not watched: a renamed GPU
  resource reaches a ResourceQuota only when its UserSpace is touched.
- A UserSpace reconcile that reads an object from before its first status patch patches
  `Pending` over a published `Ready`; `RestIsProvisioned` shows that Ready comes back. After
  a status patch whose answer was lost, a Ready of the current generation can be unbacked
  for a while, which is why `ReadyBackedByChildren` excuses a fault.
- "observedGeneration is set from the generation actually acted on, so a stale Ready is
  detectable" (`userspace_controller.go:345-346`). The first status patch reads its answer
  back, so a reconcile may act on a generation the cache does not have yet; the next one
  reads an older generation and builds its quota under the Ready of the newer one, until the
  cache catches up (`UserSpaceStale`). This is why `ReadyBackedByChildren` asks that no
  patch `overtook` the cache; the theorem shows that nothing else is needed.
- `status.images` "is how many WorkspaceImages this registry currently owns"
  (`imageregistry_types.go:173`), while `markReady` writes how many the last sync selected.
- Two remote images may be given one WorkspaceImage name; the comment at
  `imageregistry_objects.go:49` speaks of two registries only. Either may end up in the entry.
- A stop admitted before the catalog entry is deleted is not carried out: `Reconcile`
  returns early and the pod stays.
- "status.namespace is what the controller actually provisioned"
  (`userspace_validator.go:96`) is not so for a while when `spec.namespace` is changed between
  the controller's read and its first status patch: the patch records the earlier one, while
  the reconcile goes on from the answer and builds the later one. `NamespaceIsFixed` says
  that nothing else puts the two apart and that only one namespace is ever built.

Gateway and terminal:

- `SSHUser` is "Still unique" (`statefulset.go:77-79`), but "a-b" with "c" and "a" with
  "b-c" give one user name.
- A window size that arrives after the exec has ended ends the gateway process
  (`gateway/server.go:316`).
- "Closing the websocket is what kills the shell" (`assets/app.js:265-268`) is not so while
  the handler is blocked in `stdinWriter.Write` (`ui/terminal.go:127`).
- "anything running in the foreground of that shell dies with it"
  (`docs/GATEWAY_AWS.md:101-102`), but nothing cancels the exec of a dropped connection.

Accounts and sessions:

- A reset link is single-use and "Any token already outstanding ... is removed first"
  (`reset.go:75`, for that person): two redeems that list before either deletes both succeed, two concurrent
  issues leave two links, and links survive the removal of their account.
- A hook that dies after creating the account and before publishing the password leaves a
  password nobody has; the next run finds the account and stops.
- AdminAccount creates "when the password was generated - a Secret holding that password
  once" (`account.go:45-47`). The Secret has one name and keeps the keys it has
  (`initial.go:86`): when `DWPK__ADMIN_USERNAME` has been changed while it is still there, or
  the login was removed and is created again, the new password is written nowhere
  (`BootstrapRename`). `NoLockoutWithoutCrash` therefore speaks of passwords only where all
  hooks had one username and nothing was removed.
- A minted token that is empty or already expired (by the clock of the UI) makes
  `MintTokenForSession` drop the identity of a session that is still there
  (`auth_handlers.go:369-371`). Nothing gives it back: pages ask for a new login, and a logout
  of that session finds no identity, shows an error page and leaves the session until it
  expires. `SessionMapsAgree` and `LogoutEnds` leave such sessions (`turnedDown`) out.
- An account disabled while signed in stays signed in; the maps of sessions, challenges
  and CSRF tokens are never swept, and a request under way during a logout leaves a CSRF
  token behind.
- A group mapping "never takes admin access away" from a UserSpace flagged as admin
  (`docs/INSTALLATION.md:266-268`), but a match of the user groups overrides `spec.role`
  for the session (`auth_handlers.go:79-80`, `521-524`).

Console:

- A GPU quota of zero is never sent (`userspace_types.go:49`, `omitempty`), and the page says
  "Quota updated."; a UserSpace created through the API has a quota of zeros.
- The catalog PATCH resets every field its body omits, although `api_resources.go:18-21`
  says otherwise; the catalog form turns a lapsed `deprecateAt` into the flag.
- Settings that cannot be read are shown as blank, and a save then writes the blanks
  (`settings.go:67`).
- "there is nothing a caller could do about a failed read except render the defaults"
  (`platform.go:45-50`), but the resource form sends the default back: when the settings
  could not be read, which the cache keeps as none for a TTL, a GPU under another name is
  not shown, and a save of anything else drops it.
- The resource form drops a GPU that was asked for under an earlier resource name, and
  whatever it has no box for: a CPU limit, a memory request, a variable with a `valueFrom`.
- Deleting a UserSpace through the API leaves its local login behind; through the screens
  it is removed.
- The git-ssh config and keys "can never drift apart" (`gitssh.go`), and the last delete
  removes the Secret "rather than leaving an empty one behind" (`k8s.go`): neither holds for
  overlapping requests.
- "The next poll gets the real state" (`workspace.go:121`), but a poll that arrives before the
  controller has reacted sees the old settled state and ends the polling.
- A volume whose deletion failed cannot be deleted from the console any more, as its
  Workspace is gone.

## 5. Proofs

Every theorem is about a whole specification and holds for every value of the module's
constants that meets its named assumptions. `PROJECT.json` lists them with the property of
a run that each states. A proof has one lemma per action (or group of alike actions) and one
step per part of the invariant the action can disturb; every invariant was checked by TLC on
small instances before it was proved.

| Module | Theorems | For every |
|---|---|---|
| `WorkspaceReconcileProofs` | `TypeCorrect`, `InvariantHolds`, `ReadyIsOfCurrentSpec`, `StatusIsBacked`, `ServiceIsFirst`, `ObservedGenerationNeverRegresses`, `RestInvariant`, `RestsConverged` | generation, lag, number of troubles, set of keys |
| `UserSpaceReconcileProofs` | `TypeCorrect`, `ReadyIsBacked`, `RestInvariant`, `GrantsMatchRole`, `IsProvisioned` | generation, lag, number of troubles, set of ClusterRoles, pull Secrets and GPU names |
| `QuotaAdmissionProofs` | `TypeCorrect`, `WithinQuota`, `ShrinkingIsAdmitted`, `BackstopHolds` | finite set of Workspaces, quotas, requests |
| `ImageRegistrySyncProofs` | `TypeCorrect`, `SyncInvariant`, `KeptEntries`, `RestsInSync` | set of images, names they are given and selections, push time, generation, lag, number of troubles |
| `ConsoleProofs` | `AdmissionInvariant`, `LoginsAreUnique`, `NamespacesAreImmutable`, `AdministratorsAreMade` | number of people, UserSpaces and requests under way |
| | `KeysSafe` | number of requests and hosts |
| | `ScreensSafe`, `HomesSafe` | number of requests |
| | `EditsSafe`, `CacheSafe` | number of requests |
| `IdentityProofs` | `MapsInvariant`, `TypeCorrect`, `MapsAgree`, `LogoutWorks`, `SessionsImplementLogins` | number of sessions, challenges and requests under way, and windows |
| | `UsernamesAreUnique`, `NobodyIsShutOut`, `LinksAreRaced` | as `AccountsProofs` |
| `SSHGatewayProofs` | `GatewayInvariant`, `TypeCorrect`, `ConnectionsAccounted`, `PanicIsLateResize` | number of connections, channels, slots and Workspaces, and queue sizes |
| `AccountsProofs` | `AccountsInvariant`, `TypeCorrect`, `AccountsAreUnique`, `LinksNeedARace`, `NobodyIsLockedOut` | number of requests and hooks, accounts, links and tokens |

**Reconcilers: what a status says.** Each property speaks of the server's object only, while
a step may publish from an older copy, so none is inductive. `IndInv` of `WorkspaceReconcile`
adds what makes them stable. *History*: versions under way are in order of generation, and
one with the current generation has the current spec. *Read*: the worker's copy is no newer
than the cache's. *Published*: no generation newer than the cached or the read one has been
published, which is why a late patch cannot take observedGeneration back. *Decided* and
*Applied*: the status about to be published follows from the spec that was read, and when it
speaks of the workload, that workload is applied, which holds because the worker is the only
writer of replicas and of the Service of a live Workspace. `ReadyInv` of `UserSpaceReconcile`
has the same shape (`VersionsOrdered`, `SnapshotIsOlder`, `ConditionsAreOlder`,
`WrittenSoFar`) and one part that needs the excuse `overtook`: under a Ready of the current
generation, no version that is still to be reconciled is of an older one (`ReadyStays`).

**Reconcilers: what holds at rest.** A property of rest says nothing of the states before it,
so the invariant has to say what is *about* to be true. `RestInv` (one in each module) is: if
nothing would make the controller look again (`Still`: no event under way of anything it
watches, the key not queued), then what the worker has read is what is there and what it has
passed is as it left it. Every write of an object that is watched either changes nothing or
puts an event into a log, which makes `Still` false; so an action needs a look only when it
writes what is there already, or delivers the last event, which queues the key. The proof
finds where that argument ends: a change that is not watched must not matter to the rest
property, as with the PlatformConfig (section 4) and the runtime Secret (`WorkspaceKeys`).

**Quota.** `QuotaInv` adds to `OverQuotaNeedsRace` that what a review has let through was
measured (`ReviewsAreMeasured`). `Usage` is a sum over a finite set. What is needed of sums
(that they are natural numbers, monotone, and change by what one element changes) cannot be
proved with the library's induction on finite sets, as that takes an operator; it is proved
instead for a smallest exception, which exists because strict inclusion of finite sets is well
founded. `BackstopHolds` has no hypothesis: volumes are refused by the same sum as at the
webhook, and for pods the property itself asks that what is stated is what is charged, which
makes the two sums one (`ChargedAsCounted`).

**UserSpace admission.** `AdmissionInv` says of each admitted write that it still stands by
what its review compared (`ReviewsHold`), and of every UserSpace that there is one namespace
that what is built, the recorded versions of its spec and a reconcile past its first patch
all say (`OneNamespace`, `Settled`). The status says it too, or was left behind by that
patch (`rebound`); the spec cannot move then either, for the webhook compares it with the
spec of the old object once a status is recorded. `AdministratorsAreMade` is an action property: its guard `Powerless` includes the
writes under way.

**Sessions.** `MapsInv` says who puts right what is out of step: a session lacks its identity
or its token only while the login that made it is on its way to store it, and an identity
without a session has a request about to forget it. A session in `turnedDown` lacks its
identity for good, or has a request about to drop it. `SessionsImplementLogins` is the
refinement: `Init` implies the initial state of `Logins`, and every step is a `SignIn`, an
`End` or a stutter of it. It needs in addition that a challenge is in one place
(`ChallengeIsOnce`: pending, held by one request, or behind one session) and that an
identifier is issued once, which is what keeps a mint from bringing an ended session back.

**Gateway.** Slots are counted by cardinality: those in use are as many as the connections
past `Accept`. `OnlyExecClosesEarly` is what `PanicNeedsLateResize` lacks: while the request
loop runs, the queue is closed only by an exec goroutine that has ended.

**Accounts.** `SecretsAreNamed` (an account is in the Secret named after its username) is all
that one account per username rests on. `SpendersAreAlone` and `IssuersAreAlone` say which
two requests must meet for a link to be abused. `PublishInv` follows a generated credential
from the hook that made it up, through the account, to the Secret: with one username and
nothing removed there is one hook that has still to write a password, and the key it will
write is free. `NobodyIsLockedOut` therefore has no bound on the number of hooks. The
theorems state these of `Accounts` itself, under `AccountsAssumption`. `IdentityProofs` takes
them over for `IdentitySpec`, the specification the run checks: it instantiates
`AccountsProofs` and shows (`AccountsWithin`) that the accounts' part of every behaviour of
`IdentitySpec` is a behaviour of `Accounts`.

**Catalog of images.** The theorems have the hypothesis `[]SelectsTheNewest`, which
`ImageRegistryCatalog` checks: that what `Select` returns is, each image once, one of the
`Outcomes`. `Select` itself cannot be reasoned about here (below). `SyncInv` says of a sync
under way that it keeps to the list and the spec it started with (`SelectionStands`) and
deletes nothing it has applied (`PruneSpares`), from which `KeptEntries` follows. `RestsInSync`
is by `RestInv` as in the other reconcilers, with one difference: the catalog is one log, in
which changes of entries the registry does not own are under way and enqueue nothing. `Still`
therefore allows a log with several versions as long as they have the same owned entries
(`OwnedAlike`), and each step is shown to preserve what the worker has established
for any such change. Names may collide, so what is applied is stated per name (`Shown`): under
each there is the entry of *one* of the images that were given it.

**Keys, Workspaces and shared objects on the console.** The specification is `ConsoleSpec`,
where a behaviour is one component's and the others stand still (`part`); each has an
invariant of its own, conditional on `part`. `KeyRequestsHold` says what each request
goes by once it has read the Secret: a key is added for a host that had none in what was
read, one is taken from a host that had one, and only the last key takes the Secret with it.
The write itself is not conditional on what was read, so `KeysSafe` blames what is lost on
the request that wrote over a Secret it had not seen. `WorkInv` says
that the name in a deletion under way is of a Workspace that was there before
(`DeletionsAreEarlier`), what each form holds (`FormsHold`), and that a card that has stopped
polling is at rest with what it shows (`CardAtRest`). `EditInv` says what a save under way
compares and will write (`EditTypes`, `StagesHaveTheirKind`), that a cache that is out of date
has a request about to drop it, or a failed or late read behind it (`CacheIsDue`), and, *unless two edits overlapped*, that forms
show what is stored, that no field has been lost other than in the ways section 4 lists, and
that the GPU goes by one name, this as long as no settings renamed it and none could not be
read (`FormsMatch`, `FieldsKept`, `NamesAgree` with `OneName`). The assumptions
(`NoneAssumption` of each module, evaluated by TLC in `MCConsole`) are that the value for "no
object" is not an object.

Only model-checked:

- the liveness properties, as fairness is out of the prover's reach;
- `OnlyTypingHoldsTheShell`, which speaks of `ENABLED`;
- `SelectsTheNewest`: the prover has no definition of `SelectSeq` and `SortSeq`, and what
  they compute for every listing is an induction over data. TLC compares `Select` with the
  reference definition at every listing the run reaches, in every order;
- what a violated run shows.

## 6. Not modelled

The components with status `not_modelled` in `PROJECT.json`: entry points and rendering keep
no state. Of the modelled ones, what `PROJECT.json` notes under each: application API tokens
(single Secrets that are created and deleted in one call), the protocols of the identity
providers, listings, filters, logs and events (one read each), checks of a single object,
bytes, wording and layout. `status.endpoint` depends on one read of the gateway Service and
nothing reads it back.

## 7. Plan

What a next version would add:

1. A second registry beside the one of `ImageRegistrySync`, and the catalog it keeps
   composed with `WorkspaceReconcile`'s image.
2. Application tokens and the role an identity carries, composed with `UserSpaceAdmission`.
3. A refinement of an abstract reconciler, which all three controllers implement: the
   invariants of rest have one shape, and today each is proved on its own.

## 8. Running

`tlc -config <run>.cfg MC<module>` for a run, `tlapm <module>.tla` for the proofs.
