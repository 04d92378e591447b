------------------------- MODULE UserSpaceAdmission -------------------------
(***************************************************************************)
(* The UserSpace validating webhook, with the two things it decides on:    *)
(* the list of UserSpaces in the manager's cache and the rights RBAC gives *)
(* the requester, which the UserSpace controller derives from spec.role    *)
(* some time after it changes.  A request is authorised and reviewed in    *)
(* one step and stored in a later one.                                     *)
(*                                                                         *)
(* Every person owns the UserSpace of their name.  A deleted name is not   *)
(* used again, and a request changes one field.                            *)
(***************************************************************************)
EXTENDS Naturals, FiniteSets

CONSTANTS Names,     \* UserSpaces, and the people who own them
          Requests,  \* each creates or edits one UserSpace
          First,     \* the administrator at the start
          Second,    \* somebody whose namespace is not provisioned yet
          None       \* no such object, field or request

ASSUME PeopleAssumption == {First, Second} \subseteq Names /\ First # Second

VARIABLES
  us,       \* the UserSpaces the API server holds
  cached,   \* the manager's cache of them
  gone,     \* names that have been deleted
  pc,       \* where each request is
  req,      \* the request, what it is based on and the list its review read
  ctl,      \* the UserSpace a reconcile under way has read, and its next step
  grants,   \* people who hold the administrator bindings
  spaces,   \* the namespaces created for each UserSpace
  late,     \* history: names stored on a review whose list was out of date
  rebound   \* history: names whose status recorded a namespace the spec had left

vars == <<us, cached, gone, pc, req, ctl, grants, spaces, late, rebound>>

Specs == [username : Names \union {None}, role : {"user", "admin"},
          namespace : {None, "ns1", "ns2"}, quota : 0 .. 1, keys : {0, 1}]

UserSpaces == [spec : Specs, status : {None, "default", "ns1", "ns2"}]

\* What a request holds once it is admitted, and a reconcile once it has read.
Reviews == [name : Names, old : UserSpaces \union {None}, spec : Specs,
            list : [Names -> UserSpaces \union {None}]]
Reconciles == [read : UserSpaces, step : {"pending", "apply", "ready"}]

ASSUME NoneAssumption ==
  /\ None \notin Names /\ None \notin {"default", "ns1", "ns2"}
  /\ None \notin UserSpaces /\ None \notin Reviews /\ None \notin Reconciles

NewSpec(role) == [username |-> None, role |-> role, namespace |-> None, quota |-> 0, keys |-> 0]

LoginName(n, u) == IF u.spec.username = None THEN n ELSE u.spec.username

NamespaceName(u) == IF u.spec.namespace = None THEN "default" ELSE u.spec.namespace

Init ==
  /\ us = [n \in Names |->
             CASE n = First  -> [spec |-> NewSpec("admin"), status |-> "default"]
               [] n = Second -> [spec |-> NewSpec("user"), status |-> None]
               [] OTHER      -> None]
  /\ cached = us
  /\ gone = {}
  /\ pc = [p \in Requests |-> "idle"]
  /\ req = [p \in Requests |-> None]
  /\ ctl = [n \in Names |-> None]
  /\ grants = {First}
  /\ spaces = [n \in Names |-> IF n = First THEN {"default"} ELSE {}]
  /\ late = {}
  /\ rebound = {}

-----------------------------------------------------------------------------
(* The review *)

\* requesterIsAdministrator: what a SubjectAccessReview answers now.
requesterIsAdministrator(who) == who \in grants

validateRoleGrant(who, spec, previous) ==
  spec.role = "admin" /\ previous # "admin" => requesterIsAdministrator(who)

\* Mutant of validateNamespaceImmutable: the rule of the CRD alone, which lets
\* an unset namespace be set.
NamespaceRuleOnly(old, spec) ==
  old.spec.namespace # None /\ spec.namespace # None => spec.namespace = old.spec.namespace

\* validateNamespaceImmutable, and the CRD's rule that a set namespace cannot be
\* set to another.
validateNamespaceImmutable(old, spec) ==
  /\ old.status # None => spec.namespace = old.spec.namespace
  /\ old.spec.namespace # None /\ spec.namespace # None => spec.namespace = old.spec.namespace

\* Mutant of validateSelfEdit: the quota is taken for one of the person's own
\* fields.
SelfEditWithQuota(who, old, spec) ==
  requesterIsAdministrator(who) \/
    [old.spec EXCEPT !.keys = spec.keys, !.quota = spec.quota] = spec

\* spec.sshAuthorizedKeys and spec.onboardingCompletedAt are a person's own.
validateSelfEdit(who, old, spec) ==
  requesterIsAdministrator(who) \/ [old.spec EXCEPT !.keys = spec.keys] = spec

\* validateUserSpaceKeys: a list with a line that is no key is refused.
validateUserSpaceKeys(spec) == spec.keys \in {0, 1}

\* Mutant of validateUniqueLogin: only explicit usernames are compared.
UniqueUsernames(n, spec) ==
  \A o \in Names \ {n} : cached[o] # None =>
    spec.username = None \/ cached[o].spec.username # spec.username

validateUniqueLogin(n, spec) ==
  \A o \in Names \ {n} : cached[o] # None =>
    LoginName(o, cached[o]) # LoginName(n, [spec |-> spec])

\* An administrator's Role creates UserSpaces, anybody's own Role patches theirs.
MayCreate(who) == who \in grants
MayPatch(who, n) == who \in grants \/ (who = n /\ us[n] # None)

Admitted(p, n, old, spec) ==
  /\ pc' = [pc EXCEPT ![p] = "admitted"]
  /\ req' = [req EXCEPT ![p] = [name |-> n, old |-> old, spec |-> spec, list |-> cached]]
  /\ UNCHANGED <<us, cached, gone, ctl, grants, spaces, late, rebound>>

ValidateCreate(p, who, n) ==
  /\ pc[p] = "idle" /\ us[n] = None /\ n \notin gone
  /\ MayCreate(who)
  /\ \E role \in {"user", "admin"}, username \in Names \union {None} :
       LET spec == [NewSpec(role) EXCEPT !.username = username]
       IN  /\ validateRoleGrant(who, spec, None)
           /\ validateUserSpaceKeys(spec)
           /\ validateUniqueLogin(n, spec)
           /\ Admitted(p, n, None, spec)

\* keys = 2 is a list with a line that is no key.
Edits(spec) ==
  {[spec EXCEPT !.username = u] : u \in Names \union {None}}
    \union {[spec EXCEPT !.role = r] : r \in {"user", "admin"}}
    \union {[spec EXCEPT !.namespace = s] : s \in {None, "ns1", "ns2"}}
    \union {[spec EXCEPT !.quota = 1 - @], [spec EXCEPT !.keys = 1 - @], [spec EXCEPT !.keys = 2]}

ValidateUpdate(p, who, n) ==
  /\ pc[p] = "idle" /\ us[n] # None
  /\ MayPatch(who, n)
  /\ \E spec \in Edits(us[n].spec) \ {us[n].spec} :
       /\ validateRoleGrant(who, spec, us[n].spec.role)
       /\ validateNamespaceImmutable(us[n], spec)
       /\ validateSelfEdit(who, us[n], spec)
       /\ validateUserSpaceKeys(spec)
       /\ validateUniqueLogin(n, spec)
       /\ Admitted(p, n, us[n], spec)

-----------------------------------------------------------------------------
(* The write *)

LoginIn(list, o) == IF list[o] = None THEN None ELSE LoginName(o, list[o])

\* Stores what was admitted if the object is still the one it was admitted for.
\* Otherwise a create is refused and a patch is reviewed again.
Commit(p) ==
  LET r == req[p]  n == req[p].name
  IN  /\ pc[p] = "admitted"
      /\ \/ /\ us[n] = r.old /\ n \notin gone
            /\ us' = [us EXCEPT ![n] = [spec |-> r.spec, status |-> IF r.old = None THEN None ELSE @.status]]
            /\ late' = late \union
                 {m \in {n} : \E o \in Names \ {n} : LoginIn(us, o) # LoginIn(r.list, o)}
            /\ pc' = [pc EXCEPT ![p] = "done"]
         \/ /\ us[n] # r.old \/ n \in gone
            /\ pc' = [pc EXCEPT ![p] = IF r.old = None THEN "done" ELSE "idle"]
            /\ UNCHANGED <<us, late>>
      /\ req' = [req EXCEPT ![p] = None]
      /\ UNCHANGED <<cached, gone, ctl, grants, spaces, rebound>>

\* DeleteUserSpace, which the webhook does not review.
Delete(p, who, n) ==
  /\ pc[p] = "idle" /\ us[n] # None /\ who \in grants
  /\ us' = [us EXCEPT ![n] = None]
  /\ gone' = gone \union {n}
  /\ pc' = [pc EXCEPT ![p] = "done"]
  /\ UNCHANGED <<cached, req, ctl, grants, spaces, late, rebound>>

\* An event of UserSpace n reaches the manager's cache.
Deliver(n) ==
  /\ cached[n] # us[n]
  /\ cached' = [cached EXCEPT ![n] = us[n]]
  /\ UNCHANGED <<us, gone, pc, req, ctl, grants, spaces, late, rebound>>

-----------------------------------------------------------------------------
(* The UserSpace controller *)

\* A reconcile that would find everything in place changes nothing and is left
\* out.
InPlace(n) ==
  /\ cached[n].status = NamespaceName(cached[n])
  /\ NamespaceName(cached[n]) \in spaces[n]
  /\ (n \in grants) = (cached[n].spec.role = "admin")

Reconcile(n) ==
  /\ ctl[n] = None /\ cached[n] # None /\ ~InPlace(n)
  /\ ctl' = [ctl EXCEPT ![n] = [read |-> cached[n],
                               step |-> IF cached[n].status = None THEN "pending" ELSE "apply"]]
  /\ UNCHANGED <<us, cached, gone, pc, req, grants, spaces, late, rebound>>

\* patchStatus: a merge patch against what was read, so the namespace is in it
\* only when it differs.  A UserSpace that is gone is an error.
PatchStatus(n, step) ==
  /\ ctl[n] # None /\ ctl[n].step = step /\ us[n] # None
  /\ us' = IF ctl[n].read.status = NamespaceName(ctl[n].read) THEN us
           ELSE [us EXCEPT ![n].status = NamespaceName(ctl[n].read)]
  /\ UNCHANGED <<cached, gone, pc, req, grants, spaces, late>>

\* A UserSpace without a state is marked Pending before anything is created.  The
\* reconcile goes on from the server's answer, which may have another namespace
\* than the one it has just recorded.
MarkPending(n) ==
  /\ PatchStatus(n, "pending")
  /\ ctl' = [ctl EXCEPT ![n] = [read |-> us'[n], step |-> "apply"]]
  /\ rebound' = rebound \union {m \in {n} : NamespaceName(us[n]) # NamespaceName(ctl[n].read)}

\* applyChildren and reconcileRoleGrants, either of which may fail half-way.
Provision(n, built, granted) ==
  /\ ctl[n] # None /\ ctl[n].step = "apply" /\ (granted => built)
  /\ spaces' = IF built THEN [spaces EXCEPT ![n] = @ \union {NamespaceName(ctl[n].read)}] ELSE spaces
  /\ grants' = IF ~granted THEN grants
               ELSE IF ctl[n].read.spec.role = "admin" THEN grants \union {n} ELSE grants \ {n}
  /\ ctl' = [ctl EXCEPT ![n].step = "ready"]
  /\ UNCHANGED <<us, cached, gone, pc, req, late, rebound>>

\* markReady, and markDegraded after a failure: the same namespace in the status.
MarkReady(n) ==
  /\ PatchStatus(n, "ready")
  /\ ctl' = [ctl EXCEPT ![n] = None]
  /\ UNCHANGED rebound

\* A call fails, or the manager is restarted.
ReconcileFails(n) ==
  /\ ctl[n] # None
  /\ ctl' = [ctl EXCEPT ![n] = None]
  /\ UNCHANGED <<us, cached, gone, pc, req, grants, spaces, late, rebound>>

\* The garbage collector removes what a deleted UserSpace owned.
Collect(n) ==
  /\ n \in gone /\ (n \in grants \/ spaces[n] # {})
  /\ grants' = grants \ {n}
  /\ spaces' = [spaces EXCEPT ![n] = {}]
  /\ UNCHANGED <<us, cached, gone, pc, req, ctl, late, rebound>>

-----------------------------------------------------------------------------

Next ==
  \/ \E p \in Requests, who \in Names, n \in Names :
       ValidateCreate(p, who, n) \/ ValidateUpdate(p, who, n) \/ Delete(p, who, n)
  \/ \E p \in Requests : Commit(p)
  \/ \E n \in Names : Deliver(n) \/ Reconcile(n) \/ MarkPending(n)
                        \/ (\E built, granted \in BOOLEAN : Provision(n, built, granted))
                        \/ MarkReady(n) \/ ReconcileFails(n) \/ Collect(n)

Spec == Init /\ [][Next]_vars

-----------------------------------------------------------------------------

TypeOK ==
  /\ us \in [Names -> UserSpaces \union {None}]
  /\ cached \in [Names -> UserSpaces \union {None}]
  /\ gone \subseteq Names
  /\ pc \in [Requests -> {"idle", "admitted", "done"}]
  /\ req \in [Requests -> Reviews \union {None}]
  /\ \A p \in Requests : pc[p] = "admitted" <=> req[p] # None
  /\ ctl \in [Names -> Reconciles \union {None}]
  /\ grants \subseteq Names
  /\ spaces \in [Names -> SUBSET {"default", "ns1", "ns2"}]
  /\ late \subseteq Names /\ rebound \subseteq Names

\* validateUniqueLogin: two UserSpaces answer to one login only if one of them
\* was stored on a review that had not seen the other's login.
LoginClashNeedsRace ==
  \A a, b \in Names :
    a # b /\ us[a] # None /\ us[b] # None /\ LoginName(a, us[a]) = LoginName(b, us[b]) =>
      a \in late \/ b \in late

\* What only an administrator may set.
Entitlements(u) == <<u.spec.role, u.spec.quota, u.spec.namespace, u.spec.username>>

\* Nobody is an administrator, or is about to be: not by spec, not by binding,
\* not in the cache a reconcile will read, not in a request already admitted.
Powerless ==
  /\ grants = {}
  /\ \A n \in Names : \A u \in {us[n], cached[n]} : u # None => u.spec.role # "admin"
  /\ \A n \in Names : ctl[n] # None => ctl[n].read.spec.role # "admin"
  /\ \A p \in Requests : req[p] # None =>
       req[p].old # None /\ Entitlements(req[p].old) = Entitlements(req[p])

\* validateRoleGrant and validateSelfEdit: once nobody is an administrator nobody
\* becomes one, and nobody's role, quota, namespace or username changes.
EntitlementsNeedAnAdministrator ==
  [][Powerless =>
       /\ Powerless'
       /\ \A n \in Names : us[n] # None /\ us'[n] # None => Entitlements(us'[n]) = Entitlements(us[n])]_vars

\* validateNamespaceImmutable: however edits, a lagging cache and reconciles meet,
\* the one namespace that was built for a UserSpace is the one its spec names, so no
\* workspaces are left behind in another.  Its status names another only if the spec
\* was changed between the controller's read and its first status patch.
NamespaceIsFixed ==
  \A n \in Names : us[n] # None =>
    /\ spaces[n] \subseteq {NamespaceName(us[n])}
    /\ us[n].status \in {None, NamespaceName(us[n])} \/ n \in rebound

=============================================================================
