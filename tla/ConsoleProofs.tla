--------------------------- MODULE ConsoleProofs ---------------------------
(***************************************************************************)
(* What holds of the four parts behind the console, for every number of    *)
(* people, of requests under way and of hosts.                             *)
(*                                                                         *)
(*   - The admission of UserSpaces: a login is shared only after the race  *)
(*     the webhook cannot close, the one namespace of a UserSpace is the   *)
(*     one its spec names, and without an administrator nobody becomes     *)
(*     one.                                                                *)
(*   - The git-ssh keys: no request loses a key that it has seen.          *)
(*   - The life of a Workspace: what a form or a card shows comes true, and *)
(*     a home volume is not taken from under a later Workspace.            *)
(*   - The shared objects: an edit keeps what it does not change, and the  *)
(*     cache of the settings follows their saves.                          *)
(*                                                                         *)
(* Each part has an inductive invariant of its own.  The first is stated   *)
(* of the steps of UserSpaceAdmission, the others of those of MCConsole,   *)
(* where a part's variables are its own.                                   *)
(***************************************************************************)
EXTENDS MCConsole, FiniteSetTheorems, TLAPS

-----------------------------------------------------------------------------
(* The admission of UserSpaces: the inductive invariant *)

\* An admitted request still stands by what its review compared: its login with
\* those on the list it read, its namespace with that of the object it is for.
ReviewsHold ==
  \A p \in Requests : req[p] # None =>
    /\ \A o \in Names \ {req[p].name} : req[p].list[o] # None =>
         LoginName(o, req[p].list[o]) # LoginName(req[p].name, [spec |-> req[p].spec])
    /\ req[p].old # None => validateNamespaceImmutable(req[p].old, req[p].spec)

\* A UserSpace that was never there has left no trace.
NothingBeforeTheFirst ==
  \A n \in Names : us[n] = None /\ n \notin gone =>
    cached[n] = None /\ ctl[n] = None /\ spaces[n] = {}

\* The controller has read, or has recorded, a namespace for UserSpace n.
Recorded(n) ==
  \/ spaces[n] # {}
  \/ cached[n] # None /\ cached[n].status # None
  \/ ctl[n] # None /\ ctl[n].step # "pending"

\* The namespace ns is the only one that anything recorded of n can lead to.  The
\* status itself may be behind the spec, once, and the spec then stays as it is.
Settled(n, ns) ==
  /\ spaces[n] \subseteq {ns}
  /\ \A u \in {us[n], cached[n]} : u # None /\ u.status # None =>
       NamespaceName(u) = ns /\ (u.status = ns \/ n \in rebound)
  /\ ctl[n] # None /\ ctl[n].step # "pending" => NamespaceName(ctl[n].read) = ns
  /\ ctl[n] # None /\ ctl[n].step = "pending" => ctl[n].read.status = None
  /\ Recorded(n) /\ us[n] # None => us[n].status # None

\* There is one such namespace for each UserSpace.
OneNamespace == \A n \in Names : \E ns \in {"default", "ns1", "ns2"} : Settled(n, ns)

\* The inductive invariant of the admission.
AdmissionInv ==
  /\ ReviewsHold
  /\ NothingBeforeTheFirst
  /\ LoginClashNeedsRace
  /\ OneNamespace

-----------------------------------------------------------------------------
(* Types *)

\* An object's namespace is a namespace.
LEMMA NamespaceNameType ==
  ASSUME NEW u \in UserSpaces
  PROVE  NamespaceName(u) \in {"default", "ns1", "ns2"} /\ NamespaceName(u) # None
  BY NoneAssumption DEF UserSpaces, Specs, NamespaceName

\* What a review admits can be stored.
LEMMA ReviewType ==
  ASSUME TypeOK, NEW p \in Requests, NEW n \in Names, NEW old \in UserSpaces \union {None},
         NEW spec \in Specs, Admitted(p, n, old, spec)
  PROVE  /\ req'[p] = [name |-> n, old |-> old, spec |-> spec, list |-> cached]
         /\ req'[p] \in Reviews /\ req'[p] # None
         /\ \A q \in Requests \ {p} : req'[q] = req[q]
         /\ TypeOK'
  <1> DEFINE v == [name |-> n, old |-> old, spec |-> spec, list |-> cached]
  <1>1. v \in Reviews /\ v # None
    BY NoneAssumption DEF Reviews, TypeOK
  <1>2. /\ req' = [req EXCEPT ![p] = v] /\ pc' = [pc EXCEPT ![p] = "admitted"]
        /\ UNCHANGED <<us, cached, gone, ctl, grants, spaces, late, rebound>>
    BY DEF Admitted
  <1> HIDE DEF v
  <1>3. /\ req'[p] = v /\ \A q \in Requests \ {p} : req'[q] = req[q]
        /\ req' \in [Requests -> Reviews \union {None}]
        /\ pc' \in [Requests -> {"idle", "admitted", "done"}]
        /\ \A q \in Requests : pc'[q] = "admitted" <=> req'[q] # None
    BY <1>1, <1>2 DEF TypeOK
  <1>4. TypeOK'
    BY <1>2, <1>3 DEF TypeOK
  <1> QED BY <1>1, <1>3, <1>4 DEF v

\* An edit that keeps the keys well formed is a spec.
LEMMA EditType ==
  ASSUME NEW old \in Specs, NEW spec \in Edits(old), validateUserSpaceKeys(spec)
  PROVE  spec \in Specs
  BY DEF Edits, validateUserSpaceKeys, Specs

\* A new UserSpace has a spec.
LEMMA NewSpecType ==
  ASSUME NEW role \in {"user", "admin"}, NEW username \in Names \union {None}
  PROVE  [NewSpec(role) EXCEPT !.username = username] \in Specs
  BY DEF NewSpec, Specs

\* A create that is admitted: the review compared the login with the cache.
LEMMA CreateFacts ==
  ASSUME TypeOK, NEW p \in Requests, NEW who \in Names, NEW n \in Names, ValidateCreate(p, who, n)
  PROVE  \E spec \in Specs :
           /\ who \in grants /\ us[n] = None /\ n \notin gone
           /\ validateUniqueLogin(n, spec)
           /\ Admitted(p, n, None, spec)
  <1>1. PICK role \in {"user", "admin"}, username \in Names \union {None} :
          LET spec == [NewSpec(role) EXCEPT !.username = username]
          IN  validateUniqueLogin(n, spec) /\ Admitted(p, n, None, spec)
    BY DEF ValidateCreate
  <1>2. [NewSpec(role) EXCEPT !.username = username] \in Specs
    BY NewSpecType
  <1> QED BY <1>1, <1>2 DEF ValidateCreate, MayCreate

\* An update that is admitted: login, namespace and own fields were compared.
LEMMA UpdateFacts ==
  ASSUME TypeOK, NEW p \in Requests, NEW who \in Names, NEW n \in Names, ValidateUpdate(p, who, n)
  PROVE  \E spec \in Specs :
           /\ us[n] # None /\ us[n] \in UserSpaces
           /\ validateUniqueLogin(n, spec)
           /\ validateNamespaceImmutable(us[n], spec)
           /\ validateSelfEdit(who, us[n], spec)
           /\ Admitted(p, n, us[n], spec)
  <1>1. us[n] \in UserSpaces /\ us[n].spec \in Specs
    BY DEF ValidateUpdate, TypeOK, UserSpaces
  <1>2. PICK spec \in Edits(us[n].spec) :
          /\ validateNamespaceImmutable(us[n], spec) /\ validateSelfEdit(who, us[n], spec)
          /\ validateUserSpaceKeys(spec) /\ validateUniqueLogin(n, spec)
          /\ Admitted(p, n, us[n], spec)
    BY DEF ValidateUpdate
  <1>3. spec \in Specs
    BY <1>1, <1>2, EditType
  <1> QED BY <1>1, <1>2, <1>3 DEF ValidateUpdate

\* What the write of an admitted request does.
LEMMA CommitFacts ==
  ASSUME TypeOK, NEW p \in Requests, Commit(p)
  PROVE  /\ req[p] # None /\ req[p] \in Reviews
         /\ UNCHANGED <<cached, gone, ctl, grants, spaces, rebound>>
         /\ req' = [req EXCEPT ![p] = None]
         /\ \/ us' = us /\ late' = late
            \/ LET n == req[p].name IN
               /\ us[n] = req[p].old /\ n \notin gone
               /\ us'[n] \in UserSpaces
               /\ us'[n].spec = req[p].spec
               /\ us'[n].status = IF req[p].old = None THEN None ELSE us[n].status
               /\ \A o \in Names \ {n} : us'[o] = us[o]
               /\ late' = late \union
                    {m \in {n} : \E o \in Names \ {n} : LoginIn(us, o) # LoginIn(req[p].list, o)}
         /\ TypeOK'
  <1> DEFINE n == req[p].name
             v == [spec |-> req[p].spec, status |-> IF req[p].old = None THEN None ELSE us[n].status]
  <1>1. /\ req[p] # None /\ req[p] \in Reviews /\ n \in Names
        /\ req[p].old \in UserSpaces \union {None} /\ req[p].spec \in Specs
    BY DEF Commit, TypeOK, Reviews
  <1>2. /\ UNCHANGED <<cached, gone, ctl, grants, spaces, rebound>>
        /\ req' = [req EXCEPT ![p] = None]
        /\ pc' \in {[pc EXCEPT ![p] = "done"], [pc EXCEPT ![p] = "idle"]}
    BY DEF Commit
  <1>3. /\ pc' \in [Requests -> {"idle", "admitted", "done"}]
        /\ req' \in [Requests -> Reviews \union {None}]
        /\ \A q \in Requests : pc'[q] = "admitted" <=> req'[q] # None
    BY <1>2 DEF TypeOK
  <1>4. \/ us' = us /\ late' = late
        \/ /\ us[n] = req[p].old /\ n \notin gone
           /\ us' = [us EXCEPT ![n] = v]
           /\ late' = late \union
                {m \in {n} : \E o \in Names \ {n} : LoginIn(us, o) # LoginIn(req[p].list, o)}
    BY <1>1 DEF Commit, TypeOK
  <1>5. CASE us' = us /\ late' = late
    <2>1. TypeOK'
      BY <1>2, <1>3, <1>5 DEF TypeOK
    <2> QED BY <1>1, <1>2, <1>5, <2>1
  <1>6. CASE /\ us[n] = req[p].old /\ n \notin gone
             /\ us' = [us EXCEPT ![n] = v]
             /\ late' = late \union
                  {m \in {n} : \E o \in Names \ {n} : LoginIn(us, o) # LoginIn(req[p].list, o)}
    <2>1. v \in UserSpaces
      BY <1>1, <1>6 DEF UserSpaces
    <2>2. us'[n] = v /\ \A o \in Names \ {n} : us'[o] = us[o]
      BY <1>1, <1>6 DEF TypeOK
    <2>3. us' \in [Names -> UserSpaces \union {None}]
      BY <1>1, <1>6, <2>1 DEF TypeOK
    <2>4. late' \subseteq Names
      BY <1>1, <1>6 DEF TypeOK
    <2>5. TypeOK'
      BY <1>2, <1>3, <2>3, <2>4 DEF TypeOK
    <2> QED BY <1>1, <1>2, <1>6, <2>1, <2>2, <2>5
  <1> QED BY <1>4, <1>5, <1>6

\* The status patch of a reconcile: it writes the namespace it has read.
LEMMA PatchFacts ==
  ASSUME TypeOK, NEW n \in Names, NEW step, PatchStatus(n, step)
  PROVE  /\ ctl[n] # None /\ ctl[n] \in Reconciles /\ ctl[n].step = step
         /\ ctl[n].read \in UserSpaces /\ us[n] # None /\ us[n] \in UserSpaces
         /\ us' \in [Names -> UserSpaces \union {None}]
         /\ \A o \in Names \ {n} : us'[o] = us[o]
         /\ us'[n] # None /\ us'[n] \in UserSpaces /\ us'[n].spec = us[n].spec
         /\ us'[n].status = IF ctl[n].read.status = NamespaceName(ctl[n].read) THEN us[n].status
                            ELSE NamespaceName(ctl[n].read)
         /\ UNCHANGED <<cached, gone, pc, req, grants, spaces, late>>
  <1>1. /\ ctl[n] # None /\ ctl[n] \in Reconciles /\ ctl[n].step = step
        /\ ctl[n].read \in UserSpaces /\ us[n] # None /\ us[n] \in UserSpaces
        /\ UNCHANGED <<cached, gone, pc, req, grants, spaces, late>>
    BY DEF PatchStatus, TypeOK, Reconciles
  <1>2. NamespaceName(ctl[n].read) \in {"default", "ns1", "ns2"}
    BY <1>1, NamespaceNameType
  <1>3. CASE ctl[n].read.status = NamespaceName(ctl[n].read)
    BY <1>1, <1>3 DEF PatchStatus, TypeOK
  <1>4. CASE ctl[n].read.status # NamespaceName(ctl[n].read)
    <2> DEFINE v == [us[n] EXCEPT !.status = NamespaceName(ctl[n].read)]
    <2>1. v \in UserSpaces /\ v # None /\ v.spec = us[n].spec /\ v.status = NamespaceName(ctl[n].read)
      BY <1>1, <1>2, NoneAssumption DEF UserSpaces
    <2>2. us' = [us EXCEPT ![n] = v]
      BY <1>4 DEF PatchStatus
    <2> HIDE DEF v
    <2> QED BY <1>1, <1>4, <2>1, <2>2 DEF TypeOK
  <1> QED BY <1>3, <1>4

-----------------------------------------------------------------------------
(* What a step leaves alone stays settled *)

\* Nothing of n has moved.
Still(n) == us'[n] = us[n] /\ cached'[n] = cached[n] /\ ctl'[n] = ctl[n] /\ spaces'[n] = spaces[n]

\* It is enough to look at the one UserSpace a step is about.
LEMMA SettleOne ==
  ASSUME OneNamespace, NEW n \in Names, rebound \subseteq rebound',
         \A m \in Names \ {n} : Still(m),
         \E ns \in {"default", "ns1", "ns2"} : Settled(n, ns)'
  PROVE  OneNamespace'
  <1> SUFFICES ASSUME NEW m \in Names
               PROVE  \E ns \in {"default", "ns1", "ns2"} : Settled(m, ns)'
    BY DEF OneNamespace
  <1>1. CASE m = n
    BY <1>1
  <1>2. CASE m # n
    <2>1. PICK ns \in {"default", "ns1", "ns2"} : Settled(m, ns)
      BY DEF OneNamespace
    <2>2. Still(m)
      BY <1>2
    <2>3. Settled(m, ns)'
      BY <2>1, <2>2 DEF Settled, Recorded, Still, NamespaceName
    <2> QED BY <2>3
  <1> QED BY <1>1, <1>2

\* A step that moves nothing but the requests keeps the namespaces.
LEMMA SettleNone ==
  ASSUME OneNamespace, UNCHANGED <<us, cached, ctl, spaces, rebound>>
  PROVE  OneNamespace'
  BY DEF OneNamespace, Settled, Recorded, NamespaceName

\* The same for the names that were never used.
LEMMA NothingOne ==
  ASSUME NothingBeforeTheFirst, NEW n \in Names, gone \subseteq gone',
         \A m \in Names \ {n} : Still(m),
         us'[n] = None /\ n \notin gone' => cached'[n] = None /\ ctl'[n] = None /\ spaces'[n] = {}
  PROVE  NothingBeforeTheFirst'
  BY DEF NothingBeforeTheFirst, Still

\* A step that writes no spec makes no two logins equal.
LEMMA LoginsKept ==
  ASSUME LoginClashNeedsRace, late \subseteq late',
         \A m \in Names : us'[m] # None => us[m] # None /\ us'[m].spec = us[m].spec
  PROVE  LoginClashNeedsRace'
  BY DEF LoginClashNeedsRace, LoginName

\* A step that leaves the requests alone leaves their reviews standing.
LEMMA ReviewsKept ==
  ASSUME TypeOK, ReviewsHold, NEW p \in Requests, \A q \in Requests \ {p} : req'[q] = req[q],
         req'[p] # None => req'[p] = req[p]
  PROVE  ReviewsHold'
  BY DEF ReviewsHold, validateNamespaceImmutable, LoginName

\* The same when no request moves at all.
LEMMA ReviewsSame == ASSUME ReviewsHold, req' = req PROVE ReviewsHold'
  BY DEF ReviewsHold, validateNamespaceImmutable, LoginName

-----------------------------------------------------------------------------
(* Each step keeps the invariant *)

\* A review changes nothing but its own request.
LEMMA ReviewStep ==
  ASSUME TypeOK, AdmissionInv, NEW p \in Requests, NEW who \in Names, NEW n \in Names,
         ValidateCreate(p, who, n) \/ ValidateUpdate(p, who, n)
  PROVE  TypeOK' /\ AdmissionInv'
  <1>1. PICK old \in UserSpaces \union {None}, spec \in Specs :
          /\ validateUniqueLogin(n, spec)
          /\ old # None => validateNamespaceImmutable(old, spec)
          /\ Admitted(p, n, old, spec)
    BY CreateFacts, UpdateFacts
  <1>2. /\ req'[p] = [name |-> n, old |-> old, spec |-> spec, list |-> cached]
        /\ \A q \in Requests \ {p} : req'[q] = req[q]
        /\ TypeOK'
        /\ UNCHANGED <<us, cached, gone, ctl, grants, spaces, late, rebound>>
    BY <1>1, ReviewType DEF Admitted
  <1>3. ReviewsHold'
    <2> SUFFICES ASSUME NEW q \in Requests, req'[q] # None
                 PROVE  /\ \A o \in Names \ {req'[q].name} : req'[q].list[o] # None =>
                             LoginName(o, req'[q].list[o]) # LoginName(req'[q].name, [spec |-> req'[q].spec])
                        /\ req'[q].old # None => validateNamespaceImmutable(req'[q].old, req'[q].spec)
      BY DEF ReviewsHold, LoginName, validateNamespaceImmutable
    <2>1. CASE q = p
      BY <1>1, <1>2, <2>1 DEF validateUniqueLogin
    <2>2. CASE q # p
      BY <1>2, <2>2 DEF AdmissionInv, ReviewsHold
    <2> QED BY <2>1, <2>2
  <1>4. NothingBeforeTheFirst' /\ LoginClashNeedsRace'
    BY <1>2 DEF AdmissionInv, NothingBeforeTheFirst, LoginClashNeedsRace, LoginName
  <1>5. OneNamespace'
    BY <1>2, SettleNone DEF AdmissionInv
  <1> QED BY <1>2, <1>3, <1>4, <1>5 DEF AdmissionInv

\* A write that is not late is unlike every login there is, and it never moves a
\* namespace that the status records.
LEMMA CommitStep ==
  ASSUME TypeOK, AdmissionInv, NEW p \in Requests, Commit(p)
  PROVE  TypeOK' /\ AdmissionInv'
  <1>0. PICK n \in Names : n = req[p].name
    BY CommitFacts DEF Reviews
  <1>1. /\ req[p] # None /\ req[p] \in Reviews /\ n \in Names /\ n = req[p].name
        /\ UNCHANGED <<cached, gone, ctl, grants, spaces, rebound>>
        /\ TypeOK'
        /\ \A q \in Requests \ {p} : req'[q] = req[q]
        /\ req'[p] = None
    BY <1>0, CommitFacts DEF Reviews, TypeOK
  <1>2. ReviewsHold'
    BY <1>1, ReviewsKept DEF AdmissionInv
  <1>3. CASE us' = us /\ late' = late
    <2>1. NothingBeforeTheFirst' /\ LoginClashNeedsRace'
      BY <1>1, <1>3 DEF AdmissionInv, NothingBeforeTheFirst, LoginClashNeedsRace, LoginName
    <2>2. OneNamespace'
      BY <1>1, <1>3, SettleNone DEF AdmissionInv
    <2> QED BY <1>1, <1>2, <2>1, <2>2 DEF AdmissionInv
  <1>4. CASE /\ us[n] = req[p].old /\ n \notin gone
             /\ us'[n] \in UserSpaces
             /\ us'[n].spec = req[p].spec
             /\ us'[n].status = IF req[p].old = None THEN None ELSE us[n].status
             /\ \A o \in Names \ {n} : us'[o] = us[o]
             /\ late' = late \union
                  {m \in {n} : \E o \in Names \ {n} : LoginIn(us, o) # LoginIn(req[p].list, o)}
    <2>1. us'[n] # None
      BY <1>4, NoneAssumption
    <2>2. NothingBeforeTheFirst'
      BY <1>1, <1>4, <2>1, NothingOne DEF AdmissionInv, Still
    <2>3. LoginClashNeedsRace'
      <3>1. ASSUME NEW o \in Names \ {n}, us[o] # None, n \notin late'
            PROVE  LoginName(o, us[o]) # LoginName(n, us'[n])
        <4>1. LoginIn(us, o) = LoginIn(req[p].list, o) /\ LoginIn(us, o) = LoginName(o, us[o])
          BY <1>4, <3>1 DEF LoginIn
        <4>2. LoginName(o, us[o]) # None
          BY <3>1, NoneAssumption DEF LoginName
        <4>3. req[p].list[o] # None /\ LoginName(o, req[p].list[o]) = LoginName(o, us[o])
          BY <4>1, <4>2 DEF LoginIn
        <4>4. LoginName(n, us'[n]) = LoginName(n, [spec |-> req[p].spec])
          BY <1>4 DEF LoginName
        <4> QED BY <1>1, <4>3, <4>4 DEF AdmissionInv, ReviewsHold
      <3>2. late \subseteq late'
        BY <1>4
      <3> SUFFICES ASSUME NEW a \in Names, NEW b \in Names, a # b, us'[a] # None, us'[b] # None,
                          LoginName(a, us'[a]) = LoginName(b, us'[b])
                   PROVE  a \in late' \/ b \in late'
        BY DEF LoginClashNeedsRace, LoginName
      <3>3. CASE a = n
        BY <1>1, <1>4, <3>1, <3>3
      <3>4. CASE b = n
        BY <1>1, <1>4, <3>1, <3>4
      <3>5. CASE a # n /\ b # n
        BY <1>4, <3>2, <3>5 DEF AdmissionInv, LoginClashNeedsRace
      <3> QED BY <3>3, <3>4, <3>5
    <2>4. OneNamespace'
      <3>1. \A m \in Names \ {n} : Still(m)
        BY <1>1, <1>4 DEF Still
      <3>2. \E ns \in {"default", "ns1", "ns2"} : Settled(n, ns)'
        <4>1. PICK ns \in {"default", "ns1", "ns2"} : Settled(n, ns)
          BY <1>1 DEF AdmissionInv, OneNamespace
        <4>2. CASE us[n] = None
          <5>1. cached[n] = None /\ ctl[n] = None /\ spaces[n] = {}
            BY <1>1, <1>4, <4>2 DEF AdmissionInv, NothingBeforeTheFirst
          <5>2. us'[n].status = None
            BY <1>4, <4>2
          <5> QED BY <1>1, <4>1, <5>1, <5>2 DEF Settled, Recorded
        <4>3. CASE us[n] # None
          <5>1. us'[n].status = us[n].status
            BY <1>4, <4>3
          <5>2. us[n].status # None => NamespaceName(us'[n]) = NamespaceName(us[n])
            <6>1. validateNamespaceImmutable(us[n], req[p].spec)
              BY <1>1, <1>4, <4>3 DEF AdmissionInv, ReviewsHold
            <6>2. us'[n].spec = req[p].spec
              BY <1>4
            <6> QED BY <6>1, <6>2 DEF validateNamespaceImmutable, NamespaceName
          <5>3. \A u \in {us'[n], cached'[n]} : u # None /\ u.status # None =>
                  NamespaceName(u) = ns /\ (u.status = ns \/ n \in rebound')
            BY <1>1, <4>1, <4>3, <5>1, <5>2 DEF Settled
          <5>4. Recorded(n)' <=> Recorded(n)
            BY <1>1 DEF Recorded
          <5>5. /\ spaces'[n] \subseteq {ns}
                /\ ctl'[n] # None /\ ctl'[n].step # "pending" => NamespaceName(ctl'[n].read) = ns
                /\ ctl'[n] # None /\ ctl'[n].step = "pending" => ctl'[n].read.status = None
                /\ Recorded(n)' /\ us'[n] # None => us'[n].status # None
            BY <1>1, <4>1, <4>3, <5>1, <5>4 DEF Settled
          <5> QED BY <4>1, <5>3, <5>5 DEF Settled, NamespaceName
        <4> QED BY <4>2, <4>3
      <3> QED BY <1>1, <3>1, <3>2, SettleOne DEF AdmissionInv
    <2> QED BY <1>1, <1>2, <2>2, <2>3, <2>4 DEF AdmissionInv
  <1> QED BY <1>0, <1>3, <1>4, CommitFacts

\* A deletion leaves what was recorded of the name where it is.
LEMMA DeleteStep ==
  ASSUME TypeOK, AdmissionInv, NEW p \in Requests, NEW who \in Names, NEW n \in Names,
         Delete(p, who, n)
  PROVE  TypeOK' /\ AdmissionInv'
  <1>1. /\ us' \in [Names -> UserSpaces \union {None}]
        /\ us'[n] = None /\ us[n] # None /\ \A m \in Names \ {n} : us'[m] = us[m]
        /\ pc' \in [Requests -> {"idle", "admitted", "done"}]
        /\ \A q \in Requests : pc'[q] = "admitted" <=> req[q] # None
        /\ gone' = gone \union {n}
        /\ UNCHANGED <<cached, req, ctl, grants, spaces, late, rebound>>
    BY DEF Delete, TypeOK
  <1>2. TypeOK'
    BY <1>1 DEF TypeOK
  <1>3. ReviewsHold'
    BY <1>1, ReviewsSame DEF AdmissionInv
  <1>4. NothingBeforeTheFirst'
    BY <1>1, NothingOne DEF AdmissionInv, Still
  <1>5. LoginClashNeedsRace'
    BY <1>1, LoginsKept DEF AdmissionInv
  <1>6. OneNamespace'
    <2>1. \E ns \in {"default", "ns1", "ns2"} : Settled(n, ns)'
      BY <1>1 DEF AdmissionInv, OneNamespace, Settled, Recorded, NamespaceName
    <2> QED BY <1>1, <2>1, SettleOne DEF AdmissionInv, Still
  <1> QED BY <1>2, <1>3, <1>4, <1>5, <1>6 DEF AdmissionInv

\* The cache catches up with the server.
LEMMA DeliverStep ==
  ASSUME TypeOK, AdmissionInv, NEW n \in Names, Deliver(n)
  PROVE  TypeOK' /\ AdmissionInv'
  <1>1. /\ cached' \in [Names -> UserSpaces \union {None}]
        /\ cached'[n] = us[n] /\ \A m \in Names \ {n} : cached'[m] = cached[m]
        /\ UNCHANGED <<us, gone, pc, req, ctl, grants, spaces, late, rebound>>
    BY DEF Deliver, TypeOK
  <1>2. TypeOK'
    BY <1>1 DEF TypeOK
  <1>3. ReviewsHold'
    BY <1>1, ReviewsSame DEF AdmissionInv
  <1>4. NothingBeforeTheFirst'
    BY <1>1, NothingOne DEF AdmissionInv, NothingBeforeTheFirst, Still
  <1>5. LoginClashNeedsRace'
    BY <1>1, LoginsKept DEF AdmissionInv
  <1>6. OneNamespace'
    <2>1. \E ns \in {"default", "ns1", "ns2"} : Settled(n, ns)'
      <3>1. PICK ns \in {"default", "ns1", "ns2"} : Settled(n, ns)
        BY <1>1 DEF AdmissionInv, OneNamespace
      <3>2. Settled(n, ns)'
        BY <1>1, <3>1 DEF Settled, Recorded, NamespaceName
      <3> QED BY <3>2
    <2> QED BY <1>1, <2>1, SettleOne DEF AdmissionInv, Still
  <1> QED BY <1>2, <1>3, <1>4, <1>5, <1>6 DEF AdmissionInv

\* A reconcile begins, or stops anywhere.
LEMMA ReconcileStep ==
  ASSUME TypeOK, AdmissionInv, NEW n \in Names, Reconcile(n) \/ ReconcileFails(n)
  PROVE  TypeOK' /\ AdmissionInv'
  <1>1. /\ UNCHANGED <<us, cached, gone, pc, req, grants, spaces, late, rebound>>
        /\ \A m \in Names \ {n} : ctl'[m] = ctl[m]
        /\ \/ ctl'[n] = None
           \/ /\ ctl'[n] \in Reconciles /\ ctl'[n].read = cached[n] /\ cached[n] # None
              /\ ctl'[n].step = IF cached[n].status = None THEN "pending" ELSE "apply"
    BY DEF Reconcile, ReconcileFails, TypeOK, Reconciles
  <1>2. ctl' \in [Names -> Reconciles \union {None}]
    <2>1. \E v \in Reconciles \union {None} : ctl' = [ctl EXCEPT ![n] = v]
      BY DEF Reconcile, ReconcileFails, TypeOK, Reconciles
    <2> QED BY <2>1 DEF TypeOK
  <1>3. TypeOK'
    BY <1>1, <1>2 DEF TypeOK
  <1>4. ReviewsHold'
    BY <1>1, ReviewsSame DEF AdmissionInv
  <1>5. NothingBeforeTheFirst'
    BY <1>1, NothingOne DEF AdmissionInv, NothingBeforeTheFirst, Still
  <1>6. LoginClashNeedsRace'
    BY <1>1, LoginsKept DEF AdmissionInv
  <1>7. OneNamespace'
    <2>1. \E ns \in {"default", "ns1", "ns2"} : Settled(n, ns)'
      <3>1. PICK ns \in {"default", "ns1", "ns2"} : Settled(n, ns)
        BY <1>1 DEF AdmissionInv, OneNamespace
      <3>2. Settled(n, ns)'
        BY <1>1, <3>1 DEF Settled, Recorded, NamespaceName
      <3> QED BY <3>2
    <2> QED BY <1>1, <2>1, SettleOne DEF AdmissionInv, Still
  <1> QED BY <1>3, <1>4, <1>5, <1>6, <1>7 DEF AdmissionInv

\* The first status patch settles the namespace, or records one the spec has left.
LEMMA MarkPendingStep ==
  ASSUME TypeOK, AdmissionInv, NEW n \in Names, MarkPending(n)
  PROVE  TypeOK' /\ AdmissionInv'
  <1>0. PICK ns : ns = NamespaceName(ctl[n].read)
    OBVIOUS
  <1>1. /\ ctl[n] # None /\ ctl[n] \in Reconciles /\ ctl[n].step = "pending"
        /\ ctl[n].read \in UserSpaces /\ us[n] # None /\ us[n] \in UserSpaces
        /\ us' \in [Names -> UserSpaces \union {None}]
        /\ \A o \in Names \ {n} : us'[o] = us[o]
        /\ us'[n] # None /\ us'[n] \in UserSpaces /\ us'[n].spec = us[n].spec
        /\ us'[n].status = IF ctl[n].read.status = ns THEN us[n].status ELSE ns
        /\ UNCHANGED <<cached, gone, pc, req, grants, spaces, late>>
    BY <1>0, PatchFacts DEF MarkPending
  <1>2. ns \in {"default", "ns1", "ns2"} /\ ns # None
    BY <1>0, <1>1, NamespaceNameType
  <1>3. rebound' = rebound \union {m \in {n} : NamespaceName(us[n]) # ns}
    BY <1>0 DEF MarkPending
  <1>4. /\ ctl' \in [Names -> Reconciles \union {None}]
        /\ \A o \in Names \ {n} : ctl'[o] = ctl[o]
        /\ ctl'[n] # None /\ ctl'[n].step = "apply" /\ ctl'[n].read = us'[n]
    <2> DEFINE v == [read |-> us'[n], step |-> "apply"]
    <2>1. v \in Reconciles /\ v # None
      BY <1>1, NoneAssumption DEF Reconciles
    <2>2. ctl' = [ctl EXCEPT ![n] = v]
      BY DEF MarkPending
    <2>3. v.step = "apply" /\ v.read = us'[n]
      OBVIOUS
    <2> HIDE DEF v
    <2> QED BY <2>1, <2>2, <2>3 DEF TypeOK
  <1>5. TypeOK'
    BY <1>1, <1>3, <1>4 DEF TypeOK
  <1>6. ReviewsHold'
    BY <1>1, ReviewsSame DEF AdmissionInv
  <1>7. NothingBeforeTheFirst'
    BY <1>1, <1>4, NothingOne DEF AdmissionInv, Still
  <1>8. LoginClashNeedsRace'
    BY <1>1, LoginsKept DEF AdmissionInv
  <1>9. OneNamespace'
    <2>1. PICK old \in {"default", "ns1", "ns2"} : Settled(n, old)
      BY <1>1 DEF AdmissionInv, OneNamespace
    <2>2. /\ us'[n].status = ns /\ ns # None
          /\ NamespaceName(us'[n]) = NamespaceName(us[n])
          /\ ns = NamespaceName(us[n]) \/ n \in rebound'
          /\ rebound \subseteq rebound'
      BY <1>1, <1>2, <1>3, <2>1 DEF Settled, NamespaceName
    <2>3. NamespaceName(us[n]) \in {"default", "ns1", "ns2"}
      BY <1>1, NamespaceNameType
    <2>4. CASE us[n].status = None
      <3>1. spaces[n] = {} /\ (cached[n] = None \/ cached[n].status = None)
        BY <1>1, <2>1, <2>4 DEF Settled, Recorded
      <3>2. Settled(n, NamespaceName(us[n]))'
        BY <1>1, <1>4, <2>2, <3>1 DEF Settled, Recorded, NamespaceName
      <3> QED BY <1>1, <1>4, <2>2, <2>3, <3>2, SettleOne DEF AdmissionInv, Still, NamespaceName
    <2>5. CASE us[n].status # None
      <3>1. NamespaceName(us[n]) = old
        BY <1>1, <2>1, <2>5 DEF Settled
      <3>2. Settled(n, old)'
        BY <1>1, <1>4, <2>1, <2>2, <3>1 DEF Settled, Recorded, NamespaceName
      <3> QED BY <1>1, <1>4, <2>2, <3>2, SettleOne DEF AdmissionInv, Still
    <2> QED BY <2>4, <2>5
  <1> QED BY <1>5, <1>6, <1>7, <1>8, <1>9 DEF AdmissionInv

\* The children go to the namespace that is settled.
LEMMA ProvisionStep ==
  ASSUME TypeOK, AdmissionInv, NEW n \in Names, NEW built \in BOOLEAN, NEW granted \in BOOLEAN,
         Provision(n, built, granted)
  PROVE  TypeOK' /\ AdmissionInv'
  <1>1. /\ ctl[n] # None /\ ctl[n] \in Reconciles /\ ctl[n].step = "apply"
        /\ ctl[n].read \in UserSpaces
        /\ UNCHANGED <<us, cached, gone, pc, req, late, rebound>>
    BY DEF Provision, TypeOK, Reconciles
  <1>2. /\ spaces' \in [Names -> SUBSET {"default", "ns1", "ns2"}]
        /\ spaces'[n] \in {spaces[n], spaces[n] \union {NamespaceName(ctl[n].read)}}
        /\ \A m \in Names \ {n} : spaces'[m] = spaces[m]
    BY <1>1, NamespaceNameType DEF Provision, TypeOK
  <1>3. /\ ctl' \in [Names -> Reconciles \union {None}]
        /\ \A m \in Names \ {n} : ctl'[m] = ctl[m]
        /\ ctl'[n] # None /\ ctl'[n].step = "ready" /\ ctl'[n].read = ctl[n].read
    <2> DEFINE v == [ctl[n] EXCEPT !.step = "ready"]
    <2>1. v \in Reconciles /\ v.step = "ready" /\ v.read = ctl[n].read
      BY <1>1 DEF Reconciles
    <2>2. ctl' = [ctl EXCEPT ![n] = v]
      BY DEF Provision
    <2> HIDE DEF v
    <2> QED BY <2>1, <2>2, NoneAssumption DEF TypeOK
  <1>4. grants' \subseteq Names
    BY DEF Provision, TypeOK
  <1>5. TypeOK'
    BY <1>1, <1>2, <1>3, <1>4 DEF TypeOK
  <1>6. ReviewsHold'
    BY <1>1, ReviewsSame DEF AdmissionInv
  <1>7. NothingBeforeTheFirst'
    BY <1>1, <1>2, <1>3, NothingOne DEF AdmissionInv, NothingBeforeTheFirst, Still
  <1>8. LoginClashNeedsRace'
    BY <1>1, LoginsKept DEF AdmissionInv
  <1>9. OneNamespace'
    <2>1. \E ns \in {"default", "ns1", "ns2"} : Settled(n, ns)'
      <3>1. PICK ns \in {"default", "ns1", "ns2"} : Settled(n, ns)
        BY <1>1 DEF AdmissionInv, OneNamespace
      <3>2. NamespaceName(ctl[n].read) = ns /\ (us[n] # None => us[n].status # None)
        BY <1>1, <3>1 DEF Settled, Recorded
      <3>3. Settled(n, ns)'
        BY <1>1, <1>2, <1>3, <3>1, <3>2 DEF Settled, NamespaceName
      <3> QED BY <3>3
    <2> QED BY <1>1, <1>2, <1>3, <2>1, SettleOne DEF AdmissionInv, Still
  <1> QED BY <1>5, <1>6, <1>7, <1>8, <1>9 DEF AdmissionInv

\* The last status patch puts the namespace of the spec into the status.
LEMMA MarkReadyStep ==
  ASSUME TypeOK, AdmissionInv, NEW n \in Names, MarkReady(n)
  PROVE  TypeOK' /\ AdmissionInv'
  <1>1. /\ ctl[n] # None /\ ctl[n] \in Reconciles /\ ctl[n].step = "ready"
        /\ ctl[n].read \in UserSpaces /\ us[n] # None /\ us[n] \in UserSpaces
        /\ us' \in [Names -> UserSpaces \union {None}]
        /\ \A o \in Names \ {n} : us'[o] = us[o]
        /\ us'[n] # None /\ us'[n] \in UserSpaces /\ us'[n].spec = us[n].spec
        /\ us'[n].status = IF ctl[n].read.status = NamespaceName(ctl[n].read) THEN us[n].status
                           ELSE NamespaceName(ctl[n].read)
        /\ UNCHANGED <<cached, gone, pc, req, grants, spaces, late, rebound>>
    BY PatchFacts DEF MarkReady
  <1>2. /\ ctl' \in [Names -> Reconciles \union {None}] /\ ctl'[n] = None
        /\ \A m \in Names \ {n} : ctl'[m] = ctl[m]
    BY DEF MarkReady, TypeOK
  <1>3. TypeOK'
    BY <1>1, <1>2 DEF TypeOK
  <1>4. ReviewsHold'
    BY <1>1, ReviewsSame DEF AdmissionInv
  <1>5. NothingBeforeTheFirst'
    BY <1>1, <1>2, NothingOne DEF AdmissionInv, Still
  <1>6. LoginClashNeedsRace'
    BY <1>1, LoginsKept DEF AdmissionInv
  <1>7. OneNamespace'
    <2>1. \E ns \in {"default", "ns1", "ns2"} : Settled(n, ns)'
      <3>1. PICK ns \in {"default", "ns1", "ns2"} : Settled(n, ns)
        BY <1>1 DEF AdmissionInv, OneNamespace
      <3>2. /\ us[n].status # None /\ NamespaceName(us[n]) = ns
            /\ us'[n].status \in {us[n].status, ns} /\ NamespaceName(us'[n]) = ns
        BY <1>1, <3>1 DEF Settled, Recorded, NamespaceName
      <3>3. Settled(n, ns)'
        <4>1. us'[n].status # None
          BY <3>2, NoneAssumption
        <4> QED BY <1>1, <1>2, <3>1, <3>2, <4>1 DEF Settled, Recorded, NamespaceName
      <3> QED BY <3>3
    <2> QED BY <1>1, <1>2, <2>1, SettleOne DEF AdmissionInv, Still
  <1> QED BY <1>3, <1>4, <1>5, <1>6, <1>7 DEF AdmissionInv

\* The garbage collector takes the namespace of a UserSpace that is gone.
LEMMA CollectStep ==
  ASSUME TypeOK, AdmissionInv, NEW n \in Names, Collect(n)
  PROVE  TypeOK' /\ AdmissionInv'
  <1>1. /\ spaces' \in [Names -> SUBSET {"default", "ns1", "ns2"}] /\ spaces'[n] = {}
        /\ \A m \in Names \ {n} : spaces'[m] = spaces[m]
        /\ grants' \subseteq Names /\ n \in gone
        /\ UNCHANGED <<us, cached, gone, pc, req, ctl, late, rebound>>
    BY DEF Collect, TypeOK
  <1>2. TypeOK'
    BY <1>1 DEF TypeOK
  <1>3. ReviewsHold'
    BY <1>1, ReviewsSame DEF AdmissionInv
  <1>4. NothingBeforeTheFirst'
    BY <1>1, NothingOne DEF AdmissionInv, Still
  <1>5. LoginClashNeedsRace'
    BY <1>1, LoginsKept DEF AdmissionInv
  <1>6. OneNamespace'
    <2>1. \E ns \in {"default", "ns1", "ns2"} : Settled(n, ns)'
      BY <1>1 DEF AdmissionInv, OneNamespace, Settled, Recorded, NamespaceName
    <2> QED BY <1>1, <2>1, SettleOne DEF AdmissionInv, Still
  <1> QED BY <1>2, <1>3, <1>4, <1>5, <1>6 DEF AdmissionInv

\* At first there are two people with logins of their own.
LEMMA AdmissionInit == Init => TypeOK /\ AdmissionInv
  <1> SUFFICES ASSUME Init PROVE TypeOK /\ AdmissionInv
    OBVIOUS
  <1> DEFINE f == [spec |-> NewSpec("admin"), status |-> "default"]
             g == [spec |-> NewSpec("user"), status |-> None]
  <1>1. /\ f \in UserSpaces /\ f # None /\ f.status = "default" /\ NamespaceName(f) = "default"
        /\ f.status # None
        /\ g \in UserSpaces /\ g # None /\ g.status = None
        /\ f.spec.username = None /\ g.spec.username = None
    <2>1. f \in UserSpaces /\ g \in UserSpaces
      BY DEF NewSpec, UserSpaces, Specs
    <2> QED BY <2>1, NoneAssumption DEF NewSpec, NamespaceName
  <1>2. /\ us[First] = f /\ us[Second] = g
        /\ \A n \in Names \ {First, Second} : us[n] = None
    BY PeopleAssumption DEF Init
  <1> HIDE DEF f, g
  <1>3. us \in [Names -> UserSpaces \union {None}]
    BY <1>1, <1>2 DEF Init
  <1>4. /\ \A p \in Requests : req[p] = None
        /\ \A n \in Names : ctl[n] = None
        /\ \A n \in Names : spaces[n] = IF n = First THEN {"default"} ELSE {}
        /\ cached = us
    BY DEF Init
  <1>5. TypeOK
    <2>1. /\ spaces \in [Names -> SUBSET {"default", "ns1", "ns2"}]
          /\ pc \in [Requests -> {"idle", "admitted", "done"}]
          /\ req \in [Requests -> Reviews \union {None}]
          /\ ctl \in [Names -> Reconciles \union {None}]
          /\ \A p \in Requests : pc[p] = "idle"
      BY DEF Init
    <2> QED BY <1>3, <1>4, <2>1, PeopleAssumption DEF Init, TypeOK
  <1>6. ReviewsHold
    BY <1>4 DEF ReviewsHold
  <1>7. NothingBeforeTheFirst
    BY <1>1, <1>2, <1>4 DEF NothingBeforeTheFirst
  <1>8. LoginClashNeedsRace
    BY <1>1, <1>2 DEF LoginClashNeedsRace, LoginName
  <1>9. \A n \in Names : Settled(n, "default")
    BY <1>1, <1>2, <1>4 DEF Settled, Recorded
  <1> QED BY <1>5, <1>6, <1>7, <1>8, <1>9 DEF AdmissionInv, OneNamespace

\* Every step keeps the invariant.
LEMMA AdmissionStep == TypeOK /\ AdmissionInv /\ [Next]_vars => TypeOK' /\ AdmissionInv'
  <1> SUFFICES ASSUME TypeOK, AdmissionInv, [Next]_vars PROVE TypeOK' /\ AdmissionInv'
    OBVIOUS
  <1>1. CASE \E p \in Requests, who \in Names, n \in Names :
               ValidateCreate(p, who, n) \/ ValidateUpdate(p, who, n) \/ Delete(p, who, n)
    BY <1>1, ReviewStep, DeleteStep
  <1>2. CASE \E p \in Requests : Commit(p)
    BY <1>2, CommitStep
  <1>3. CASE \E n \in Names : \/ Deliver(n) \/ Reconcile(n) \/ MarkPending(n)
                              \/ \E built, granted \in BOOLEAN : Provision(n, built, granted)
                              \/ MarkReady(n) \/ ReconcileFails(n) \/ Collect(n)
    BY <1>3, DeliverStep, ReconcileStep, MarkPendingStep, ProvisionStep, MarkReadyStep, CollectStep
  <1>4. CASE UNCHANGED vars
    <2>1. TypeOK'
      BY <1>4 DEF TypeOK, vars
    <2>2. ReviewsHold' /\ OneNamespace'
      BY <1>4, ReviewsSame, SettleNone DEF AdmissionInv, vars
    <2>3. NothingBeforeTheFirst' /\ LoginClashNeedsRace'
      BY <1>4 DEF AdmissionInv, NothingBeforeTheFirst, LoginClashNeedsRace, LoginName, vars
    <2> QED BY <2>1, <2>2, <2>3 DEF AdmissionInv
  <1> QED BY <1>1, <1>2, <1>3, <1>4 DEF Next

\* However reviews, writes, deliveries and reconciles interleave, the invariant
\* holds.
THEOREM AdmissionInvariant == Spec => [](TypeOK /\ AdmissionInv)
  BY AdmissionInit, AdmissionStep, PTL DEF Spec

\* validateUniqueLogin: with any number of people and requests, two UserSpaces
\* answer to one login only if one of them was stored on a review that had not
\* seen the other's login.
THEOREM LoginsAreUnique == Spec => []LoginClashNeedsRace
  BY AdmissionInvariant, PTL DEF AdmissionInv

\* validateNamespaceImmutable: with any number of people and requests, what is
\* built for a UserSpace is the one namespace its spec names, and its status names
\* another only if the spec was changed between the controller's read and its first
\* status patch.
THEOREM NamespacesAreImmutable == Spec => []NamespaceIsFixed
  <1>1. TypeOK /\ AdmissionInv => NamespaceIsFixed
    <2> SUFFICES ASSUME TypeOK, AdmissionInv, NEW n \in Names, us[n] # None
                 PROVE  /\ spaces[n] \subseteq {NamespaceName(us[n])}
                        /\ us[n].status \in {None, NamespaceName(us[n])} \/ n \in rebound
      BY DEF NamespaceIsFixed
    <2>1. PICK ns \in {"default", "ns1", "ns2"} : Settled(n, ns)
      BY DEF AdmissionInv, OneNamespace
    <2>2. spaces[n] # {} => us[n].status # None
      BY <2>1 DEF Settled, Recorded
    <2>3. us[n].status # None => NamespaceName(us[n]) = ns /\ (us[n].status = ns \/ n \in rebound)
      BY <2>1 DEF Settled
    <2> QED BY <2>1, <2>2, <2>3 DEF Settled
  <1> QED BY <1>1, AdmissionInvariant, PTL

-----------------------------------------------------------------------------
(* Nobody makes themselves an administrator *)

\* What a person who is no administrator may change leaves their entitlements.
LEMMA SelfEditKeeps ==
  ASSUME NEW who, NEW old \in UserSpaces, NEW spec \in Specs, who \notin grants,
         validateSelfEdit(who, old, spec)
  PROVE  Entitlements([spec |-> spec]) = Entitlements(old)
  <1>1. [old.spec EXCEPT !.keys = spec.keys] = spec
    BY DEF validateSelfEdit, requesterIsAdministrator
  <1>2. old.spec \in Specs
    BY DEF UserSpaces
  <1>3. /\ spec.role = old.spec.role /\ spec.quota = old.spec.quota
        /\ spec.namespace = old.spec.namespace /\ spec.username = old.spec.username
    BY <1>1, <1>2 DEF Specs
  <1> QED BY <1>3 DEF Entitlements

\* validateRoleGrant and validateSelfEdit: from a state in which nobody holds or
\* is about to hold the administrator role, no sequence of edits, writes and
\* reconciles gives it to anybody, nor changes what only an administrator may.
THEOREM AdministratorsAreMade == Spec => EntitlementsNeedAnAdministrator
  <1> DEFINE A == Powerless =>
                    /\ Powerless'
                    /\ \A n \in Names : us[n] # None /\ us'[n] # None =>
                         Entitlements(us'[n]) = Entitlements(us[n])
  <1>1. TypeOK /\ [Next]_vars => [A]_vars
    <2> SUFFICES ASSUME TypeOK, Next, Powerless
                 PROVE  /\ Powerless'
                        /\ \A n \in Names : us[n] # None /\ us'[n] # None =>
                             Entitlements(us'[n]) = Entitlements(us[n])
      OBVIOUS
    <2>1. grants = {}
      BY DEF Powerless
    <2>2. ASSUME NEW p \in Requests, NEW who \in Names, NEW n \in Names, ValidateUpdate(p, who, n)
          PROVE  /\ Powerless'
                 /\ \A m \in Names : us[m] # None /\ us'[m] # None =>
                      Entitlements(us'[m]) = Entitlements(us[m])
      <3>1. PICK spec \in Specs : /\ us[n] # None /\ us[n] \in UserSpaces
                                  /\ validateSelfEdit(who, us[n], spec)
                                  /\ Admitted(p, n, us[n], spec)
        BY <2>2, UpdateFacts
      <3>2. Entitlements([spec |-> spec]) = Entitlements(us[n])
        BY <2>1, <3>1, SelfEditKeeps
      <3>3. /\ req'[p] = [name |-> n, old |-> us[n], spec |-> spec, list |-> cached]
            /\ \A q \in Requests \ {p} : req'[q] = req[q]
            /\ UNCHANGED <<us, cached, gone, ctl, grants, spaces, late, rebound>>
        <4>1. /\ req'[p] = [name |-> n, old |-> us[n], spec |-> spec, list |-> cached]
              /\ \A q \in Requests \ {p} : req'[q] = req[q]
          BY <3>1, ReviewType
        <4>2. UNCHANGED <<us, cached, gone, ctl, grants, spaces, late, rebound>>
          BY <3>1 DEF Admitted
        <4> QED BY <4>1, <4>2
      <3>4. req'[p].old # None /\ Entitlements(req'[p].old) = Entitlements(req'[p])
        BY <3>1, <3>2, <3>3 DEF Entitlements
      <3>5. ASSUME NEW q \in Requests, req'[q] # None
            PROVE  req'[q].old # None /\ Entitlements(req'[q].old) = Entitlements(req'[q])
        BY <3>3, <3>4, <3>5 DEF Powerless
      <3>6. Powerless'
        <4>1. /\ grants' = {}
              /\ \A m \in Names : \A u \in {us'[m], cached'[m]} : u # None => u.spec.role # "admin"
              /\ \A m \in Names : ctl'[m] # None => ctl'[m].read.spec.role # "admin"
          BY <3>3 DEF Powerless
        <4> QED BY <3>5, <4>1 DEF Powerless, Entitlements
      <3> QED BY <3>3, <3>6
    <2>3. ASSUME NEW p \in Requests, Commit(p)
          PROVE  /\ Powerless'
                 /\ \A m \in Names : us[m] # None /\ us'[m] # None =>
                      Entitlements(us'[m]) = Entitlements(us[m])
      <3>1. /\ req[p] # None /\ UNCHANGED <<cached, ctl, grants>>
            /\ \A q \in Requests : req'[q] # None => req'[q] = req[q]
        BY <2>3, CommitFacts DEF TypeOK
      <3>2. ASSUME NEW m \in Names, us'[m] # None
            PROVE  us[m] # None /\ Entitlements(us'[m]) = Entitlements(us[m])
        <4>1. CASE us'[m] = us[m]
          BY <3>2, <4>1
        <4>2. CASE us'[m] # us[m]
          <5>1. m = req[p].name /\ us[m] = req[p].old /\ us'[m].spec = req[p].spec
            BY <2>3, <4>2, CommitFacts
          <5>2. req[p].old # None /\ Entitlements(req[p].old) = Entitlements(req[p])
            BY <3>1 DEF Powerless
          <5> QED BY <5>1, <5>2 DEF Entitlements
        <4> QED BY <4>1, <4>2
      <3>3. \A m \in Names : us'[m] # None => us'[m].spec.role # "admin"
        BY <3>2 DEF Powerless, Entitlements
      <3>4. \A m \in Names : \A u \in {us'[m], cached'[m]} : u # None => u.spec.role # "admin"
        BY <3>1, <3>3 DEF Powerless
      <3>5. \A q \in Requests : req'[q] # None =>
              req'[q].old # None /\ Entitlements(req'[q].old) = Entitlements(req'[q])
        BY <3>1 DEF Powerless
      <3>6. Powerless'
        BY <3>1, <3>4, <3>5 DEF Powerless, Entitlements
      <3> QED BY <3>2, <3>6
    <2>4. ASSUME NEW n \in Names,
                 \/ Deliver(n) \/ Reconcile(n) \/ MarkPending(n)
                 \/ \E built, granted \in BOOLEAN : Provision(n, built, granted)
                 \/ MarkReady(n) \/ ReconcileFails(n) \/ Collect(n)
          PROVE  /\ Powerless'
                 /\ \A m \in Names : us[m] # None /\ us'[m] # None =>
                      Entitlements(us'[m]) = Entitlements(us[m])
      <3>1. \A m \in Names : us'[m] # None => us[m] # None /\ us'[m].spec = us[m].spec
        <4>1. CASE MarkPending(n) \/ MarkReady(n)
          <5>1. PICK step : PatchStatus(n, step)
            BY <4>1 DEF MarkPending, MarkReady
          <5> QED BY <5>1, PatchFacts
        <4>2. CASE ~(MarkPending(n) \/ MarkReady(n))
          BY <2>4, <4>2 DEF Deliver, Reconcile, Provision, ReconcileFails, Collect
        <4> QED BY <4>1, <4>2
      <3>2. \A m \in Names : cached'[m] \in {cached[m], us[m]}
        BY <2>4 DEF Deliver, Reconcile, Provision, ReconcileFails, Collect, MarkPending, MarkReady,
                    PatchStatus, TypeOK
      <3>3. ASSUME NEW m \in Names, ctl'[m] # None
            PROVE  \/ ctl[m] # None /\ ctl'[m].read.spec = ctl[m].read.spec
                   \/ us[m] # None /\ ctl'[m].read.spec = us[m].spec
                   \/ cached[m] # None /\ ctl'[m].read = cached[m]
        <4>1. CASE MarkPending(n)
          <5>1. us[n] # None /\ us'[n].spec = us[n].spec
            BY <4>1, PatchFacts DEF MarkPending
          <5>2. ctl' = [ctl EXCEPT ![n] = [read |-> us'[n], step |-> "apply"]]
            BY <4>1 DEF MarkPending
          <5>3. ctl'[n].read = us'[n] /\ (m # n => ctl'[m] = ctl[m])
            BY <5>2 DEF TypeOK
          <5> QED BY <3>3, <5>1, <5>3
        <4>2. CASE \E built, granted \in BOOLEAN : Provision(n, built, granted)
          <5>1. ctl[n] # None /\ ctl[n] \in Reconciles
            BY <4>2 DEF Provision, TypeOK
          <5>2. ctl'[n].read = ctl[n].read /\ (m # n => ctl'[m] = ctl[m])
            BY <4>2, <5>1 DEF Provision, TypeOK, Reconciles
          <5> QED BY <3>3, <5>1, <5>2
        <4>3. CASE Reconcile(n)
          BY <3>3, <4>3 DEF Reconcile, TypeOK
        <4>4. CASE Deliver(n) \/ MarkReady(n) \/ ReconcileFails(n) \/ Collect(n)
          BY <3>3, <4>4 DEF Deliver, MarkReady, ReconcileFails, Collect, TypeOK
        <4> QED BY <2>4, <4>1, <4>2, <4>3, <4>4
      <3>4. grants' = {} /\ req' = req
        BY <2>1, <2>4 DEF Deliver, Reconcile, Provision, ReconcileFails, Collect, MarkPending,
                          MarkReady, PatchStatus, Powerless
      <3>5. \A m \in Names : \A u \in {us'[m], cached'[m]} : u # None => u.spec.role # "admin"
        BY <3>1, <3>2 DEF Powerless
      <3>6. \A m \in Names : ctl'[m] # None => ctl'[m].read.spec.role # "admin"
        BY <3>3 DEF Powerless
      <3>7. Powerless'
        BY <3>4, <3>5, <3>6 DEF Powerless, Entitlements
      <3> QED BY <3>1, <3>7 DEF Entitlements
    <2>5. \A p \in Requests, who \in Names, n \in Names :
            ~ValidateCreate(p, who, n) /\ ~Delete(p, who, n)
      BY <2>1 DEF ValidateCreate, MayCreate, Delete
    <2> QED BY <2>2, <2>3, <2>4, <2>5 DEF Next
  <1> HIDE DEF A
  <1>2. Spec => [][A]_vars
    BY <1>1, AdmissionInvariant, PTL DEF Spec
  <1> QED BY <1>2 DEF EntitlementsNeedAnAdministrator, A

-----------------------------------------------------------------------------
(* The git-ssh keys *)

\* What a request that has read the Secret goes by: a key is added for a host
\* that had none, one is taken from a host that had one, and the Secret itself
\* goes only with the last key.
KeyRequestsHold ==
  \A p \in Procs :
    /\ at[p] \in {"create", "patch", "deleteSecret"} <=> asked[p] # None
    /\ asked[p] # None =>
         LET held == Git!HostsOf(asked[p].seen)
         IN  /\ asked[p].op = "put" => asked[p].host \notin held /\ at[p] \in {"create", "patch"}
             /\ asked[p].op = "delete" =>
                  /\ asked[p].host \in held
                  /\ at[p] = IF held = {asked[p].host} THEN "deleteSecret" ELSE "patch"
             /\ at[p] = "create" => asked[p].seen = None

\* The inductive invariant of the keys.
KeysInv == Git!TypeOK /\ KeyRequestsHold

\* No request is under way at the start.
LEMMA KeysInitial == ASSUME Git!Init PROVE KeysInv
  BY NoneOfKeys
  DEF Git!Init, Git!NoneAssumption, KeysInv, Git!TypeOK, KeyRequestsHold, Git!Secrets, Git!KeyIds

\* What a request reads it goes by; one that ends goes by nothing.
LEMMA KeysDecided ==
  ASSUME KeysInv, NEW p \in Procs, NEW h \in Hosts, Git!Add(p, h) \/ Git!Remove(p, h)
  PROVE  KeysInv'
<1>1. Git!TypeOK'
  BY DEF Git!Add, Git!Remove, KeysInv, Git!TypeOK, Git!Ends, Git!Decides, Git!Decisions
<1>2. KeyRequestsHold'
  <2>1. CASE Git!Ends(p)
    BY <2>1 DEF KeysInv, Git!TypeOK, KeyRequestsHold, Git!Ends, Git!HostsOf
  <2>2. ASSUME NEW op \in {"put", "delete"}, NEW next \in {"create", "patch", "deleteSecret"},
               Git!Decides(p, op, h, next), UNCHANGED secret,
               op = "put" => /\ h \notin Git!HostsOf(secret)
                             /\ next = IF secret = None THEN "create" ELSE "patch",
               op = "delete" => /\ h \in Git!HostsOf(secret)
                                /\ next = IF Git!HostsOf(secret) = {h} THEN "deleteSecret" ELSE "patch"
        PROVE  KeyRequestsHold'
    <3>1. \A q \in Procs \ {p} : at'[q] = at[q] /\ asked'[q] = asked[q]
      BY <2>2 DEF KeysInv, Git!TypeOK, Git!Decides
    <3>2. at'[p] = next /\ asked'[p] = [op |-> op, host |-> h, seen |-> secret]
      BY <2>2 DEF KeysInv, Git!TypeOK, Git!Decides
    <3>3. asked'[p] # None
      BY <3>2, NoneOfKeys DEF KeysInv, Git!TypeOK, Git!NoneAssumption, Git!Decisions
    <3> QED BY <2>2, <3>1, <3>2, <3>3 DEF KeysInv, KeyRequestsHold, Git!HostsOf
  <2>3. CASE Git!Add(p, h)
    BY <2>1, <2>2, <2>3 DEF Git!Add
  <2>4. CASE Git!Remove(p, h)
    BY <2>1, <2>2, <2>4 DEF Git!Remove
  <2> QED BY <2>3, <2>4
<1> QED BY <1>1, <1>2 DEF KeysInv

\* The writes of a request end it, and leave a Secret or none.
LEMMA KeysWritten ==
  ASSUME KeysInv, NEW p \in Procs,
         Git!CreateSecret(p) \/ Git!PatchIn(p) \/ Git!PatchOut(p) \/ Git!DeleteSecret(p)
  PROVE  /\ KeysInv'
         /\ Git!Writes(p)
<1>1. Git!Ends(p) /\ asked[p] # None
  BY DEF KeysInv, KeyRequestsHold, Git!CreateSecret, Git!PatchIn, Git!PatchOut, Git!Patch, Git!DeleteSecret
<1>2. asked[p] \in Git!Decisions
  BY <1>1 DEF KeysInv, Git!TypeOK
<1>3. secret' \in Git!Secrets \union {None}
  BY <1>1, <1>2
  DEF KeysInv, Git!TypeOK, Git!Decisions, Git!Secrets, Git!KeyIds, Git!Empty, Git!HostsOf,
      Git!CreateSecret, Git!PatchIn, Git!PatchOut, Git!Patch, Git!DeleteSecret
<1>4. Git!TypeOK'
  BY <1>1, <1>3 DEF KeysInv, Git!TypeOK, Git!Ends
<1>5. KeyRequestsHold'
  BY <1>1 DEF KeysInv, Git!TypeOK, KeyRequestsHold, Git!Ends, Git!HostsOf
<1>6. Git!Writes(p)
  BY <1>1 DEF KeysInv, Git!TypeOK, KeyRequestsHold, Git!Ends, Git!Writes
<1> QED BY <1>4, <1>5, <1>6 DEF KeysInv

\* Every step of a request keeps the invariant.
LEMMA KeysStep == ASSUME KeysInv, Git!Next PROVE KeysInv'
  BY KeysDecided, KeysWritten DEF Git!Next

\* A step that does what KeysAreKept says of one.
KeysKept ==
  /\ \A h \in Hosts :
       Git!KeyOf(secret, h) # None /\ Git!KeyOf(secret', h) # Git!KeyOf(secret, h) =>
          \E p \in Procs :
            /\ Git!Writes(p)
            /\ \/ asked[p].op = "delete" /\ asked[p].host = h
               \/ Git!KeyOf(asked[p].seen, h) # Git!KeyOf(secret, h)
  /\ Git!Whole(secret) /\ ~Git!Whole(secret') =>
        \E p \in Procs : Git!Writes(p) /\ asked[p].seen # secret

\* What does not touch the Secret loses no key.
LEMMA KeptIfUnchanged == ASSUME UNCHANGED secret PROVE KeysKept
  BY DEF KeysKept, Git!KeyOf, Git!Whole, Git!HostsOf

\* There is a Secret to create only where there was none: nothing is overwritten.
LEMMA KeptByCreate == ASSUME KeysInv, NEW p \in Procs, Git!CreateSecret(p) PROVE KeysKept
<1>1. CASE secret = None
  <2>1. asked[p].host \in Hosts /\ p # None
    BY NoneOfKeys
    DEF Git!CreateSecret, KeysInv, KeyRequestsHold, Git!TypeOK, Git!Decisions, Git!NoneAssumption, Git!KeyIds
  <2>2. secret' = [keys |-> [h \in Hosts |-> IF h = asked[p].host THEN p ELSE None],
                   config |-> {asked[p].host}]
    BY <1>1, <2>1 DEF Git!CreateSecret, Git!Empty
  <2>3. secret' # None
    BY <2>1, <2>2, NoneOfKeys DEF Git!NoneAssumption, Git!Secrets, Git!KeyIds
  <2>4. Git!Whole(secret')
    BY <2>1, <2>2, <2>3 DEF Git!Whole, Git!HostsOf
  <2> QED BY <1>1, <2>4 DEF KeysKept, Git!KeyOf
<1>2. CASE secret # None
  BY <1>2, KeptIfUnchanged DEF Git!CreateSecret
<1> QED BY <1>1, <1>2

\* A patch changes one key, that of the request's host.
LEMMA KeptByPatch ==
  ASSUME KeysInv, NEW p \in Procs, Git!PatchIn(p) \/ Git!PatchOut(p)
  PROVE  KeysKept
<1> USE DEF KeysInv
<1>1. CASE secret = None
  BY <1>1, KeptIfUnchanged DEF Git!PatchIn, Git!PatchOut, Git!Patch
<1>2. CASE secret # None
  <2> DEFINE held == Git!HostsOf(asked[p].seen)
             r    == asked[p]
  <2>1. Git!Writes(p) /\ asked[p] \in Git!Decisions /\ secret \in Git!Secrets
    BY <1>2, KeysWritten DEF Git!TypeOK, Git!Writes
  <2>2. PICK key \in Git!KeyIds \union {None}, config \in SUBSET Hosts :
          /\ secret' = [keys |-> [secret.keys EXCEPT ![r.host] = key], config |-> config]
          /\ \/ r.op = "put" /\ key = p /\ config = held \union {r.host}
             \/ r.op = "delete" /\ key = None /\ config = held \ {r.host}
    BY <1>2, <2>1 DEF Git!PatchIn, Git!PatchOut, Git!Patch, Git!KeyIds, Git!HostsOf, Git!Decisions
  <2>3. secret' # None
    BY <2>1, <2>2, NoneOfKeys DEF Git!NoneAssumption, Git!Secrets, Git!Decisions, Git!KeyIds
  <2>4. ASSUME NEW h \in Hosts,
               Git!KeyOf(secret, h) # None, Git!KeyOf(secret', h) # Git!KeyOf(secret, h)
        PROVE  \/ r.op = "delete" /\ r.host = h
               \/ Git!KeyOf(r.seen, h) # Git!KeyOf(secret, h)
    <3>1. h = r.host
      BY <1>2, <2>1, <2>2, <2>3, <2>4 DEF Git!KeyOf, Git!Secrets, Git!Decisions
    <3>2. CASE r.op = "put"
      BY <2>1, <2>4, <3>1, <3>2 DEF KeyRequestsHold, Git!KeyOf, Git!HostsOf, Git!Writes
    <3> QED BY <3>1, <3>2, <2>2
  <2>5. ASSUME Git!Whole(secret), r.seen = secret
        PROVE  Git!Whole(secret')
    <3>1. held = {h \in Hosts : secret.keys[h] # None}
      BY <1>2, <2>5 DEF Git!HostsOf
    <3>2. Git!HostsOf(secret') = {h \in Hosts : (IF h = r.host THEN key ELSE secret.keys[h]) # None}
      BY <2>1, <2>2, <2>3 DEF Git!HostsOf, Git!Secrets, Git!Decisions
    <3>3. CASE r.op = "put" /\ key = p /\ config = held \union {r.host}
      BY <2>1, <2>2, <3>1, <3>2, <3>3, NoneOfKeys
      DEF Git!Whole, Git!NoneAssumption, Git!KeyIds, Git!Decisions
    <3>4. CASE r.op = "delete" /\ key = None /\ config = held \ {r.host}
      <4>1. r.host \in held /\ held # {r.host}
        BY <2>1, <3>4 DEF KeyRequestsHold, Git!Writes, Git!PatchIn, Git!PatchOut
      <4> QED BY <2>2, <3>1, <3>2, <3>4, <4>1 DEF Git!Whole
    <3> QED BY <2>2, <3>3, <3>4
  <2> QED BY <2>1, <2>4, <2>5 DEF KeysKept
<1> QED BY <1>1, <1>2

\* The Secret goes with its last key, and takes nothing with it that the request
\* has seen.
LEMMA KeptByDelete == ASSUME KeysInv, NEW p \in Procs, Git!DeleteSecret(p) PROVE KeysKept
<1>1. Git!Writes(p) /\ asked[p].op = "delete" /\ Git!HostsOf(asked[p].seen) = {asked[p].host}
  BY KeysWritten DEF Git!DeleteSecret, KeysInv, KeyRequestsHold, Git!Writes, Git!TypeOK, Git!Decisions
<1>2. ASSUME NEW h \in Hosts, Git!KeyOf(secret, h) # None, h # asked[p].host
      PROVE  Git!KeyOf(asked[p].seen, h) # Git!KeyOf(secret, h)
  BY <1>1, <1>2 DEF Git!HostsOf, Git!KeyOf
<1> QED BY <1>1, <1>2 DEF KeysKept, Git!DeleteSecret, Git!Whole

\* So does every step.
LEMMA KeptByNext == ASSUME KeysInv, Git!Next PROVE KeysKept
  BY KeptIfUnchanged, KeptByCreate, KeptByPatch, KeptByDelete DEF Git!Next, Git!Add, Git!Remove

\* The part of the console that is about the keys.
KeysPart == IF part = "keys" THEN KeysInv ELSE secret = None

\* Steps of the other parts leave the keys alone.
LEMMA KeysPartInductive ==
  /\ ConsoleInit => KeysPart
  /\ KeysPart /\ [ConsoleNext]_<<part, vars, at, asked, editVars, secret, workVars>> => KeysPart'
<1>1. ConsoleInit => KeysPart
  BY KeysInitial DEF ConsoleInit, KeysPart
<1>2. ASSUME KeysPart, UNCHANGED <<part, at, asked, secret>> PROVE KeysPart'
  BY <1>2 DEF KeysPart, KeysInv, Git!TypeOK, KeyRequestsHold, Git!HostsOf
<1>3. ASSUME KeysPart, ConsoleNext PROVE KeysPart'
  BY <1>3, KeysStep DEF ConsoleNext, KeysPart, KeysInv
<1> QED BY <1>1, <1>2, <1>3

\* PutGitSSHKey and DeleteGitSSHKey: for every number of requests and hosts, no
\* request loses a key it has seen, and only one that read an older Secret leaves
\* one that is not whole.
THEOREM KeysSafe == ConsoleSpec => KeysAreKept
<1> DEFINE all == <<part, vars, at, asked, editVars, secret, workVars>>
<1>1. KeysPart /\ [ConsoleNext]_all => [KeysKept]_<<secret, at, asked>>
  BY KeptByNext, KeptIfUnchanged DEF ConsoleNext, KeysPart
<1> QED BY <1>1, KeysPartInductive, PTL DEF ConsoleSpec, KeysAreKept, Git!KeysAreKept, KeysKept, Git!vars

-----------------------------------------------------------------------------
(* The Workspaces *)

\* What the variables of this part hold.
WorkTypes ==
  /\ ws \in Work!Workspaces \union {None}
  /\ made \in Nat
  /\ pod \in BOOLEAN /\ profile \in BOOLEAN /\ known.profile \in BOOLEAN
  /\ at \in [Requests -> {"idle", "form", "answering", "volume", "done"}]
  /\ DOMAIN asked = Requests
  /\ \A p \in Requests :
       asked[p] = [saw |-> asked[p].saw, deleted |-> asked[p].deleted,
                   outcome |-> asked[p].outcome, late |-> asked[p].late]

\* Workspaces of the name are numbered in the order they are created in, and a
\* deletion that is under way is of an earlier one than the one there is.
DeletionsAreEarlier ==
  /\ ws # None => ws.id <= made
  /\ \A p \in Requests : at[p] = "volume" =>
       /\ asked[p].deleted \in 1 .. made
       /\ ws # None => asked[p].deleted < ws.id

\* Only a request that was shown the form has read anything, and it was shown it
\* for an entry on offer.
FormsHold ==
  \A p \in Requests :
    /\ at[p] \in {"idle", "form"} => asked[p].outcome = None
    /\ at[p] = "idle" => asked[p].saw = None
    /\ at[p] = "form" => /\ asked[p].saw.image = "offered"
                         /\ asked[p].saw.profile \in BOOLEAN

\* A card that has stopped polling, and was not misled, shows a Workspace at rest.
CardAtRest ==
  card # None /\ ~card.polling /\ ws # None
    /\ (\A p \in Requests : at[p] # "answering")
    /\ events \intersect {"early", "others"} = {} =>
      /\ Work!workspaceStateSettled(ws.state)
      /\ Work!AtRest
      /\ card.shown = ws.state

\* The inductive invariant of the Workspaces.
WorkInv ==
  /\ WorkTypes
  /\ DeletionsAreEarlier
  /\ FormsHold
  /\ Work!FormKeepsItsPromise
  /\ CardAtRest

\* No request has begun, and there is no card.
LEMMA WorkInitial == ASSUME Work!Init PROVE WorkInv
<1>1. /\ ws \in {None, [id |-> 1, running |-> TRUE, keys |-> TRUE, state |-> "Running"]}
      /\ made = IF ws = None THEN 0 ELSE 1
      /\ at = [p \in Requests |-> "idle"]
      /\ asked = [p \in Requests |-> Work!Untouched]
      /\ card = None
  BY DEF Work!Init
<1>2. pod \in BOOLEAN /\ profile \in BOOLEAN /\ known.profile \in BOOLEAN
  BY DEF Work!Init
<1>3. ws \in Work!Workspaces \union {None} /\ made \in Nat /\ (ws # None => ws.id <= made)
  <2>2. CASE ws = None
    BY <1>1, <2>2
  <2>3. CASE ws = [id |-> 1, running |-> TRUE, keys |-> TRUE, state |-> "Running"]
    <3>1. ws \in Work!Workspaces /\ ws.id = 1
      <4>1. ws.id = 1
        BY <2>3
      <4>2. [id |-> 1, running |-> TRUE, keys |-> TRUE, state |-> "Running"] \in Work!Workspaces
        BY DEF Work!Workspaces, Work!States
      <4> QED BY <2>3, <4>1, <4>2, Zenon
    <3>2. made \in {0, 1} /\ (ws # None => made = 1)
      BY <1>1
    <3> QED BY <3>1, <3>2
  <2> QED BY <1>1, <2>2, <2>3
<1>4. WorkTypes
  BY <1>1, <1>2, <1>3 DEF WorkTypes, Work!Untouched
<1>5. DeletionsAreEarlier /\ FormsHold /\ CardAtRest
  BY <1>1, <1>3 DEF DeletionsAreEarlier, FormsHold, CardAtRest, Work!Untouched
<1>6. Work!FormKeepsItsPromise
  BY <1>1, NoneOfWorkspaces
  DEF Work!FormKeepsItsPromise, Work!NoneAssumption, Work!Outcomes, Work!Untouched
<1> QED BY <1>4, <1>5, <1>6 DEF WorkInv

\* The steps of the cluster move no request, and no Workspace but its state.
ClusterStep ==
  /\ UNCHANGED <<made, at, asked>>
  /\ ws' = ws \/ (ws # None /\ \E state \in Work!States : ws' = [ws EXCEPT !.state = state])
  /\ pod' \in BOOLEAN /\ profile' \in BOOLEAN /\ known'.profile \in BOOLEAN

\* What a step of a request can be: the handlers that differ in their screen only
\* are one.
Handler(p) ==
  \/ Work!OpenCreate(p)
  \/ \E typed \in BOOLEAN :
       /\ Work!Create(p, typed)
       /\ \/ at[p] = "idle"
          \/ at[p] = "form" /\ (typed \/ asked[p].saw.profile)
  \/ \E running \in BOOLEAN : Work!SetRunning(p, running) \/ Work!Press(p, running)
  \/ Work!Answer(p)
  \/ \E volume \in BOOLEAN : Work!DeleteWorkspace(p, volume)
  \/ Work!DeleteClaim(p) \/ Work!DeleteClaimFails(p)

\* Every handler moves its own request, and numbers what it creates.
LEMMA HandlersAreHandlers ==
  ASSUME NEW p \in Requests,
         \/ Work!OpenCreate(p) \/ Work!Submit(p) \/ Work!AdminCreate(p) \/ Work!APICreate(p)
         \/ Work!DashboardSetRunning(p) \/ Work!AdminSetRunning(p) \/ Work!APISetRunning(p)
         \/ (\E running \in BOOLEAN : Work!Press(p, running)) \/ Work!Answer(p)
         \/ Work!DeleteOwn(p) \/ Work!AdminDelete(p) \/ Work!APIDelete(p)
         \/ Work!DeleteClaim(p) \/ Work!DeleteClaimFails(p)
  PROVE  Handler(p)
  BY DEF Handler, Work!Submit, Work!KeyField, Work!AdminCreate, Work!APICreate,
         Work!DashboardSetRunning, Work!AdminSetRunning, Work!APISetRunning,
         Work!DeleteOwn, Work!AdminDelete, Work!APIDelete

\* A step is a handler's or one of the cluster and the browser.
LEMMA WorkSteps ==
  ASSUME WorkTypes, Work!Next
  PROVE  ClusterStep \/ \E p \in Requests : Handler(p)
<1> USE DEF ClusterStep, WorkTypes, Work!cluster
<1>1. CASE Work!OpenCard \/ Work!Poll \/ Work!ApplyStatefulSet \/ Work!CreateClaim \/ Work!RemoveClaim
           \/ Work!CollectStatefulSet
  BY <1>1 DEF Work!OpenCard, Work!Poll, Work!ApplyStatefulSet, Work!CreateClaim, Work!RemoveClaim,
              Work!CollectStatefulSet
<1>2. CASE Work!Publish \/ Work!PublishFailure
  BY <1>2 DEF Work!Publish, Work!PublishFailure, Work!Target, Work!States
<1>3. CASE Work!StartPod \/ Work!StopPod \/ Work!PodFails
  <2>1. pod' \in BOOLEAN
    BY <1>3 DEF Work!StartPod, Work!StopPod, Work!PodFails
  <2> QED BY <1>3, <2>1 DEF Work!StartPod, Work!StopPod, Work!PodFails
<1>4. CASE Work!CatalogOrProfileChanges \/ Work!Deliver
  <2>1. CASE Work!CatalogOrProfileChanges
    <3>1. profile' \in BOOLEAN /\ known' = known
      BY <2>1 DEF Work!CatalogOrProfileChanges
    <3> QED BY <2>1, <3>1 DEF Work!CatalogOrProfileChanges
  <2>2. CASE Work!Deliver
    BY <2>2 DEF Work!Deliver
  <2> QED BY <1>4, <2>1, <2>2
<1> QED BY <1>1, <1>2, <1>3, <1>4, HandlersAreHandlers DEF Work!Next

\* The variables keep their types.
LEMMA WorkTyped ==
  ASSUME WorkTypes, ClusterStep \/ \E p \in Requests : Handler(p)
  PROVE  WorkTypes'
<1>1. CASE ClusterStep
  BY <1>1 DEF WorkTypes, ClusterStep, Work!Workspaces
<1>2. ASSUME NEW p \in Requests, Work!OpenCreate(p) PROVE WorkTypes'
  BY <1>2 DEF WorkTypes, Work!OpenCreate, Work!cluster
<1>3. ASSUME NEW p \in Requests, NEW typed \in BOOLEAN, Work!Create(p, typed) PROVE WorkTypes'
  <2>1. Work!Default(typed) \in BOOLEAN
    BY DEF WorkTypes, Work!Default
  <2>2. \/ UNCHANGED ws
        \/ \E keys \in BOOLEAN : ws' = [id |-> made + 1, running |-> TRUE, keys |-> keys, state |-> ""]
    BY <1>3, <2>1 DEF Work!Create
  <2>7. made' \in {made, made + 1}
    BY <1>3 DEF Work!Create
  <2>6. ws' \in Work!Workspaces \union {None} /\ made' \in Nat
    <3>1. made \in Nat
      BY DEF WorkTypes
    <3>2. ASSUME NEW keys \in BOOLEAN
          PROVE  [id |-> made + 1, running |-> TRUE, keys |-> keys, state |-> ""] \in Work!Workspaces
      BY <3>1 DEF Work!Workspaces, Work!States
    <3>3. ws \in Work!Workspaces \union {None}
      BY DEF WorkTypes
    <3>4. ws' \in Work!Workspaces \union {None}
      BY <2>2, <3>2, <3>3, Zenon
    <3>5. made' \in Nat
      BY <2>7, <3>1
    <3> QED BY <3>4, <3>5
  <2>3. /\ at' \in [Requests -> {"idle", "form", "answering", "volume", "done"}]
        /\ pod' \in BOOLEAN /\ profile' \in BOOLEAN /\ known'.profile \in BOOLEAN
    BY <1>3 DEF WorkTypes, Work!Create, Work!cluster
  <2>4. \/ UNCHANGED asked
        \/ \E o, l : asked' = [asked EXCEPT ![p].outcome = o, ![p].late = l]
        \/ \E o : asked' = [asked EXCEPT ![p].outcome = o]
    BY <1>3 DEF Work!Create
  <2>5. /\ DOMAIN asked' = Requests
        /\ \A q \in Requests :
             asked'[q] = [saw |-> asked'[q].saw, deleted |-> asked'[q].deleted,
                          outcome |-> asked'[q].outcome, late |-> asked'[q].late]
    BY <2>4 DEF WorkTypes
  <2> QED BY <2>3, <2>5, <2>6 DEF WorkTypes
<1>4. ASSUME NEW p \in Requests, NEW running \in BOOLEAN,
             Work!SetRunning(p, running) \/ Work!Press(p, running)
      PROVE  WorkTypes'
  BY <1>4 DEF WorkTypes, Work!SetRunning, Work!Press, Work!Workspaces, Work!cluster
<1>5. ASSUME NEW p \in Requests, Work!Answer(p) PROVE WorkTypes'
  BY <1>5 DEF WorkTypes, Work!Answer, Work!cluster
<1>6. ASSUME NEW p \in Requests, NEW volume \in BOOLEAN, Work!DeleteWorkspace(p, volume)
      PROVE  WorkTypes'
  BY <1>6 DEF WorkTypes, Work!DeleteWorkspace, Work!cluster
<1>7. ASSUME NEW p \in Requests, Work!DeleteClaim(p) \/ Work!DeleteClaimFails(p) PROVE WorkTypes'
  BY <1>7 DEF WorkTypes, Work!DeleteClaim, Work!DeleteClaimFails, Work!cluster
<1> QED BY <1>1, <1>2, <1>3, <1>4, <1>5, <1>6, <1>7 DEF Handler

\* A create takes a number above those of all deletions under way.
LEMMA DeletionsStayEarlier ==
  ASSUME WorkTypes, DeletionsAreEarlier, ClusterStep \/ \E p \in Requests : Handler(p)
  PROVE  DeletionsAreEarlier'
<1> USE DEF WorkTypes, DeletionsAreEarlier, Work!Workspaces
<1>1. CASE ClusterStep
  BY <1>1 DEF ClusterStep
<1>2. ASSUME NEW p \in Requests, Work!OpenCreate(p) PROVE DeletionsAreEarlier'
  BY <1>2 DEF Work!OpenCreate
<1>3. ASSUME NEW p \in Requests, NEW typed \in BOOLEAN, Work!Create(p, typed)
      PROVE  DeletionsAreEarlier'
  <2>1. \A q \in Requests : at'[q] = "volume" => at[q] = "volume" /\ asked'[q].deleted = asked[q].deleted
    <3>1. \A q \in Requests \ {p} : at'[q] = at[q] /\ asked'[q] = asked[q]
      BY <1>3 DEF Work!Create
    <3>2. at'[p] = "done"
      BY <1>3 DEF Work!Create
    <3> QED BY <3>1, <3>2
  <2>2. (ws' = ws /\ made' = made) \/ (ws'.id = made + 1 /\ made' = made + 1)
    <3>1. \/ UNCHANGED <<ws, made>>
          \/ /\ \E keys : ws' = [id |-> made + 1, running |-> TRUE, keys |-> keys, state |-> ""]
             /\ made' = made + 1
      BY <1>3 DEF Work!Create
    <3>2. ASSUME NEW keys, ws' = [id |-> made + 1, running |-> TRUE, keys |-> keys, state |-> ""]
          PROVE  ws'.id = made + 1
      BY <3>2
    <3> QED BY <3>1, <3>2
  <2>3. \A q \in Requests : at'[q] = "volume" =>
           asked'[q].deleted \in 1 .. made /\ (ws # None => asked'[q].deleted < ws.id)
    BY <2>1
  <2> QED BY <2>2, <2>3
<1>4. ASSUME NEW p \in Requests, NEW running \in BOOLEAN,
             Work!SetRunning(p, running) \/ Work!Press(p, running)
      PROVE  DeletionsAreEarlier'
  BY <1>4 DEF Work!SetRunning, Work!Press
<1>5. ASSUME NEW p \in Requests, Work!Answer(p) PROVE DeletionsAreEarlier'
  BY <1>5 DEF Work!Answer
<1>6. ASSUME NEW p \in Requests, NEW volume \in BOOLEAN, Work!DeleteWorkspace(p, volume)
      PROVE  DeletionsAreEarlier'
  BY <1>6 DEF Work!DeleteWorkspace
<1>7. ASSUME NEW p \in Requests, Work!DeleteClaim(p) \/ Work!DeleteClaimFails(p)
      PROVE  DeletionsAreEarlier'
  BY <1>7 DEF Work!DeleteClaim, Work!DeleteClaimFails
<1> QED BY <1>1, <1>2, <1>3, <1>4, <1>5, <1>6, <1>7 DEF Handler

\* What a form showed is still on offer, or the request came late.
LEMMA FormsKeepTheirPromise ==
  ASSUME WorkTypes, FormsHold, Work!FormKeepsItsPromise,
         ClusterStep \/ \E p \in Requests : Handler(p)
  PROVE  FormsHold' /\ Work!FormKeepsItsPromise'
<1> DEFINE Hold(q) == /\ asked[q].saw # None /\ asked[q].outcome \in {"keyless", "refused"} => asked[q].late
                      /\ at[q] \in {"idle", "form"} => asked[q].outcome = None
                      /\ at[q] = "idle" => asked[q].saw = None
                      /\ at[q] = "form" => /\ asked[q].saw.image = "offered"
                                           /\ asked[q].saw.profile \in BOOLEAN
<1>0. \A q \in Requests : Hold(q)
  BY DEF FormsHold, Work!FormKeepsItsPromise
<1>1. SUFFICES \A q \in Requests : Hold(q)'
  BY DEF FormsHold, Work!FormKeepsItsPromise
<1>2. ASSUME NEW q \in Requests, asked'[q] = asked[q], at'[q] = at[q] \/ at'[q] \notin {"idle", "form"}
      PROVE  Hold(q)'
  BY <1>0, <1>2
<1>3. CASE ClusterStep
  BY <1>2, <1>3 DEF ClusterStep
<1>4. ASSUME NEW p \in Requests, Work!OpenCreate(p), NEW q \in Requests PROVE Hold(q)'
  <2>1. CASE image = "offered" /\ q = p
    <3>1. asked'[q].saw = [image |-> image, profile |-> profile] /\ asked'[q].outcome = asked[q].outcome
          /\ at'[q] = "form" /\ at[q] = "idle"
      BY <1>4, <2>1 DEF Work!OpenCreate, WorkTypes
    <3>2. profile \in BOOLEAN /\ None \notin {"keyless", "refused"}
      BY NoneOfWorkspaces DEF WorkTypes, Work!NoneAssumption, Work!Outcomes
    <3> QED BY <1>0, <2>1, <3>1, <3>2
  <2>2. CASE ~(image = "offered" /\ q = p)
    <3>1. asked'[q] = asked[q]
      BY <1>4, <2>2 DEF Work!OpenCreate, WorkTypes
    <3>2. at'[q] = at[q] \/ at'[q] \notin {"idle", "form"}
      BY <1>4, <2>2 DEF Work!OpenCreate, WorkTypes
    <3> QED BY <1>2, <3>1, <3>2
  <2> QED BY <2>1, <2>2
<1>5. ASSUME NEW p \in Requests, NEW typed \in BOOLEAN, Work!Create(p, typed), NEW q \in Requests,
             at[p] = "idle" \/ (at[p] = "form" /\ (typed \/ asked[p].saw.profile))
      PROVE  Hold(q)'
  <2>1. CASE q # p
    BY <1>2, <1>5, <2>1 DEF Work!Create, WorkTypes
  <2>2. CASE q = p
    <3>1. at'[p] = "done"
      BY <1>5 DEF Work!Create, WorkTypes
    <3>2. \/ asked'[p].outcome \in {"created", "taken"}
          \/ /\ ~Work!Default(typed) \/ ~Work!OnOffer
             /\ \E o : asked' = [asked EXCEPT ![p].outcome = o, ![p].late = asked[p].saw # known]
      <4>1. CASE Work!OnOffer /\ ws = None
        <5>1. asked' = [asked EXCEPT ![p].outcome = IF Work!Default(typed) THEN "created" ELSE "keyless",
                                     ![p].late = asked[p].saw # known]
          BY <1>5, <4>1 DEF Work!Create
        <5>2. Work!Default(typed) => asked' = [asked EXCEPT ![p].outcome = "created",
                                                           ![p].late = asked[p].saw # known]
          BY <5>1
        <5>3. Work!Default(typed) => asked'[p].outcome = "created"
          BY <5>2 DEF WorkTypes
        <5> QED BY <5>1, <5>3
      <4>2. CASE Work!OnOffer /\ ws # None
        BY <1>5, <4>2 DEF Work!Create, WorkTypes
      <4>3. CASE ~Work!OnOffer
        BY <1>5, <4>3 DEF Work!Create
      <4> QED BY <4>1, <4>2, <4>3
    <3>3. asked'[p].saw = asked[p].saw
      <4>1. \E o, l : \/ asked' = [asked EXCEPT ![p].outcome = o, ![p].late = l]
                      \/ asked' = [asked EXCEPT ![p].outcome = o]
        BY <1>5 DEF Work!Create
      <4> QED BY <4>1 DEF WorkTypes
    <3>5. ASSUME NEW o, asked' = [asked EXCEPT ![p].outcome = o, ![p].late = asked[p].saw # known],
                 asked[p].saw # known
          PROVE  asked'[p].late
      <4>1. asked' = [asked EXCEPT ![p].outcome = o, ![p].late = TRUE]
        BY <3>5
      <4> QED BY <4>1 DEF WorkTypes
    <3>4. ASSUME asked[p].saw # None, ~Work!Default(typed) \/ ~Work!OnOffer
          PROVE  asked[p].saw # known
      BY <1>0, <1>5, <3>4 DEF Work!Default, Work!OnOffer
    <3> QED BY <2>2, <3>1, <3>2, <3>3, <3>4, <3>5
  <2> QED BY <2>1, <2>2
<1>6. ASSUME NEW p \in Requests, NEW running \in BOOLEAN, NEW q \in Requests,
             Work!SetRunning(p, running) \/ Work!Press(p, running)
      PROVE  Hold(q)'
  BY <1>2, <1>6 DEF Work!SetRunning, Work!Press, WorkTypes
<1>7. ASSUME NEW p \in Requests, NEW q \in Requests, Work!Answer(p) PROVE Hold(q)'
  BY <1>2, <1>7 DEF Work!Answer, WorkTypes
<1>8. ASSUME NEW p \in Requests, NEW volume \in BOOLEAN, NEW q \in Requests,
             Work!DeleteWorkspace(p, volume)
      PROVE  Hold(q)'
  BY <1>0, <1>2, <1>8 DEF Work!DeleteWorkspace, WorkTypes
<1>9. ASSUME NEW p \in Requests, NEW q \in Requests, Work!DeleteClaim(p) \/ Work!DeleteClaimFails(p)
      PROVE  Hold(q)'
  BY <1>2, <1>9 DEF Work!DeleteClaim, Work!DeleteClaimFails, WorkTypes
<1> QED BY <1>3, <1>4, <1>5, <1>6, <1>7, <1>8, <1>9 DEF Handler

\* A Workspace at rest stays so until somebody acts, or the card has been misled.
LEMMA CardStaysAtRest ==
  ASSUME WorkTypes, CardAtRest, Work!Next
  PROVE  CardAtRest'
<1> USE DEF WorkTypes, CardAtRest
<1>1. ASSUME NEW p \in Requests, Handler(p) PROVE CardAtRest'
  <2>1. CASE Work!OpenCreate(p)
    BY <2>1 DEF Work!OpenCreate, Work!AtRest, Work!Target, Work!cluster
  <2>2. CASE "others" \in events'
    BY <2>2
  <2>3. ASSUME NEW typed \in BOOLEAN, Work!Create(p, typed), UNCHANGED <<ws, made, events>>,
               at[p] = "idle" \/ at[p] = "form"
        PROVE  CardAtRest'
    BY <2>3 DEF Work!Create, Work!AtRest, Work!Target, Work!cluster
  <2>4. ASSUME NEW running \in BOOLEAN, Work!Press(p, running) PROVE CardAtRest'
    <3>1. at'[p] = "answering"
      BY <2>4 DEF Work!Press
    <3> QED BY <3>1
  <2>5. CASE Work!Answer(p)
    BY <2>5 DEF Work!Answer, Work!StatusCard
  <2>6. ASSUME NEW volume \in BOOLEAN, Work!DeleteWorkspace(p, volume), UNCHANGED <<ws, asked, events>>
        PROVE  CardAtRest'
    BY <2>6 DEF Work!DeleteWorkspace, Work!AtRest, Work!Target, Work!cluster
  <2>7. CASE Work!DeleteClaim(p) \/ Work!DeleteClaimFails(p)
    BY <2>7 DEF Work!DeleteClaim, Work!DeleteClaimFails, Work!AtRest, Work!Target, Work!cluster
  <2>8. ASSUME NEW running \in BOOLEAN, Work!SetRunning(p, running) PROVE "others" \in events'
    BY <2>8 DEF Work!SetRunning, Work!Happens
  <2>9. ASSUME NEW typed \in BOOLEAN, Work!Create(p, typed)
        PROVE  "others" \in events' \/ UNCHANGED <<ws, made, events>>
    BY <2>9 DEF Work!Create, Work!Happens
  <2>10. ASSUME NEW volume \in BOOLEAN, Work!DeleteWorkspace(p, volume)
         PROVE  "others" \in events' \/ UNCHANGED <<ws, asked, events>>
    BY <2>10 DEF Work!DeleteWorkspace, Work!Happens
  <2>11. ASSUME NEW typed \in BOOLEAN, Work!Create(p, typed), at[p] = "idle" \/ at[p] = "form"
         PROVE  CardAtRest'
    BY <2>2, <2>3, <2>9, <2>11
  <2>12. ASSUME NEW volume \in BOOLEAN, Work!DeleteWorkspace(p, volume) PROVE CardAtRest'
    BY <2>2, <2>6, <2>10, <2>12
  <2>13. ASSUME NEW running \in BOOLEAN, Work!SetRunning(p, running) PROVE CardAtRest'
    BY <2>2, <2>8, <2>13
  <2> HIDE DEF WorkTypes, CardAtRest
  <2> QED BY <1>1, <2>1, <2>4, <2>5, <2>7, <2>11, <2>12, <2>13 DEF Handler
<1>2. CASE Work!OpenCard \/ Work!Poll
  <2>1. /\ card' = [shown |-> ws.state, polling |-> ~Work!workspaceStateSettled(ws.state)]
        /\ UNCHANGED <<ws, sts, pod, at>>
    BY <1>2 DEF Work!OpenCard, Work!Poll, Work!StatusCard, Work!cluster
  <2>2. "early" \in events' \/ Work!AtRest \/ ~Work!workspaceStateSettled(ws.state)
    BY <1>2 DEF Work!OpenCard, Work!Poll
  <2>3. ASSUME ~card'.polling PROVE Work!workspaceStateSettled(ws.state)
    BY <2>1, <2>3
  <2> QED BY <2>1, <2>2, <2>3 DEF Work!AtRest, Work!Target
<1>3. CASE Work!ApplyStatefulSet \/ Work!Publish \/ Work!PublishFailure
  <2>1. ws # None /\ ~Work!AtRest
    BY <1>3 DEF Work!ApplyStatefulSet, Work!Publish, Work!PublishFailure, Work!AtRest
  <2>2. UNCHANGED <<card, at, events>>
    BY <1>3 DEF Work!ApplyStatefulSet, Work!Publish, Work!PublishFailure
  <2> QED BY <2>1, <2>2
<1>4. CASE Work!StartPod \/ Work!StopPod \/ Work!PodFails
  <2>1. UNCHANGED <<card, at, ws, sts>>
    BY <1>4 DEF Work!StartPod, Work!StopPod, Work!PodFails
  <2>2. ASSUME card # None, ~card.polling, ws # None, \A p \in Requests : at[p] # "answering",
               events' \intersect {"early", "others"} = {}
        PROVE  Work!workspaceStateSettled(ws.state) /\ Work!AtRest' /\ card.shown = ws.state
    <3>1. UNCHANGED events /\ (Work!StartPod \/ Work!StopPod)
      BY <1>4, <2>2 DEF Work!StartPod, Work!StopPod, Work!PodFails
    <3>2. Work!workspaceStateSettled(ws.state) /\ Work!AtRest /\ card.shown = ws.state
      BY <2>2, <3>1
    <3>3. ws.running \in BOOLEAN /\ sts.running = ws.running
      BY <2>2, <3>2 DEF Work!AtRest, Work!Workspaces
    <3>7. sts \in Work!StatefulSets
      BY <2>2, <3>2 DEF Work!AtRest, Work!Workspaces, Work!StatefulSets
    <3>4. ~Work!StartPod
      BY <3>2, <3>3 DEF Work!StartPod, Work!AtRest, Work!Target, Work!workspaceStateSettled
    <3>5. ~ws.running
      BY <3>1, <3>3, <3>4, <3>7, NoneOfWorkspaces DEF Work!StopPod, Work!NoneAssumption
    <3>6. Work!Target(ws)' = Work!Target(ws)
      BY <2>1, <3>5 DEF Work!Target
    <3> QED BY <2>1, <3>2, <3>6 DEF Work!AtRest
  <2> QED BY <2>1, <2>2
<1>5. CASE Work!CollectStatefulSet
  BY <1>5 DEF Work!CollectStatefulSet, Work!AtRest
<1>6. CASE Work!CreateClaim \/ Work!RemoveClaim \/ Work!CatalogOrProfileChanges \/ Work!Deliver
  BY <1>6 DEF Work!CreateClaim, Work!RemoveClaim, Work!CatalogOrProfileChanges, Work!Deliver, Work!Happens,
              Work!AtRest, Work!Target, Work!cluster
<1> QED BY <1>1, <1>2, <1>3, <1>4, <1>5, <1>6, HandlersAreHandlers DEF Work!Next

\* Every step keeps the invariant.
LEMMA WorkStep == ASSUME WorkInv, Work!Next PROVE WorkInv'
  BY WorkSteps, WorkTyped, DeletionsStayEarlier, FormsKeepTheirPromise, CardStaysAtRest DEF WorkInv

\* A step that does what HomesAreKept says of one.
HomesKept ==
  claim = "bound" /\ claim' # "bound" /\ ws # None =>
    \E p \in Requests : at[p] = "volume" /\ at'[p] = "done" /\ asked[p].deleted # ws.id

\* Only the deletion of an earlier Workspace takes the volume.
LEMMA KeptByWork == ASSUME WorkInv, Work!Next PROVE HomesKept
<1>1. ASSUME NEW p \in Requests, Work!DeleteClaim(p) PROVE HomesKept
  BY <1>1 DEF Work!DeleteClaim, HomesKept, WorkInv, WorkTypes, DeletionsAreEarlier, Work!Workspaces
<1>2. CASE UNCHANGED claim \/ claim' = "bound" \/ claim = "terminating"
  BY <1>2 DEF HomesKept
<1>3. \/ \E p \in Requests : Work!DeleteClaim(p)
      \/ UNCHANGED claim \/ claim' = "bound" \/ claim = "terminating"
  BY DEF Work!Next, Work!OpenCreate, Work!Submit, Work!AdminCreate, Work!APICreate, Work!Create,
      Work!DashboardSetRunning, Work!AdminSetRunning, Work!APISetRunning, Work!SetRunning,
      Work!Press, Work!Answer, Work!DeleteOwn, Work!AdminDelete, Work!APIDelete, Work!DeleteWorkspace,
      Work!DeleteClaimFails, Work!OpenCard, Work!Poll, Work!ApplyStatefulSet, Work!Publish,
      Work!PublishFailure, Work!CreateClaim, Work!StartPod, Work!StopPod, Work!PodFails, Work!RemoveClaim,
      Work!CollectStatefulSet, Work!CatalogOrProfileChanges, Work!Deliver, Work!cluster
<1> QED BY <1>1, <1>2, <1>3

\* The part of the console that is about the Workspaces.
WorkPart == IF part = "workspace" THEN WorkInv ELSE claim = None /\ ws = None

\* Steps of the other parts leave the Workspace alone.
LEMMA WorkPartInductive ==
  /\ ConsoleInit => WorkPart
  /\ WorkPart /\ [ConsoleNext]_<<part, vars, at, asked, editVars, secret, workVars>> => WorkPart'
<1>1. ConsoleInit => WorkPart
  BY WorkInitial DEF ConsoleInit, WorkPart
<1>2. ASSUME WorkPart, UNCHANGED <<part, at, asked, workVars>> PROVE WorkPart'
  <2>1. ASSUME WorkInv PROVE WorkInv'
    BY <1>2, <2>1 DEF workVars, WorkInv, WorkTypes, DeletionsAreEarlier, FormsHold, CardAtRest,
       Work!FormKeepsItsPromise, Work!AtRest, Work!Target
  <2> QED BY <1>2, <2>1 DEF WorkPart, workVars
<1>3. ASSUME WorkPart, ConsoleNext PROVE WorkPart'
  <2>1. CASE part = "workspace"
    BY <1>3, <2>1, WorkStep DEF ConsoleNext, WorkPart
  <2>2. CASE part # "workspace"
    BY <1>3, <2>2 DEF ConsoleNext, WorkPart, workVars
  <2> QED BY <2>1, <2>2
<1> QED BY <1>1, <1>2, <1>3

\* handleNewWorkspaceForm, the mutating webhook and workspacePollTrigger: for
\* every number of requests, a form that was shown ends in a Workspace with a key
\* and a card that has stopped polling shows how it ended, unless what they showed
\* has changed.
THEOREM ScreensSafe == ConsoleSpec => []ScreensTellTheTruth
<1>1. WorkPart => ScreensTellTheTruth
  BY DEF WorkPart, WorkInv, ScreensTellTheTruth, Work!ScreensTellTheTruth, Work!CardCatchesUp, CardAtRest
<1> QED BY <1>1, WorkPartInductive, PTL DEF ConsoleSpec

\* handleDeleteWorkspace: for every number of requests, a home volume goes from
\* under a Workspace only if that Workspace was created during the deletion of an
\* earlier one of its name.
THEOREM HomesSafe == ConsoleSpec => HomesAreKept
<1> DEFINE all == <<part, vars, at, asked, editVars, secret, workVars>>
<1>1. WorkPart /\ [ConsoleNext]_all =>
        [HomesKept]_<<image, profile, known, ws, sts, claim, pod, made, at, asked, card, events>>
  BY KeptByWork DEF ConsoleNext, WorkPart, workVars, HomesKept
<1> QED BY <1>1, WorkPartInductive, PTL DEF ConsoleSpec, HomesAreKept, Work!HomesAreKept, HomesKept, Work!vars

-----------------------------------------------------------------------------
(* The shared objects *)

\* What the variables of this part hold: a request under way has read something.
EditTypes ==
  /\ about \in DOMAIN Edit!Subjects
  /\ DOMAIN obj = Edit!Kinds /\ DOMAIN meant = Edit!Kinds
  /\ \A k \in Edit!Kinds : obj[k] \in Edit!Objects(k) \union {None}
  /\ obj["workspace"] # None
  /\ at \in [Procs -> {"idle", "fetching", "editing", "creating", "saved", "done"}]
  /\ asked \in [Procs -> Edit!Readings \union {None}]
  /\ \A p \in Procs : at[p] \in {"fetching", "editing", "creating"} => asked[p] # None
  /\ cache.config \in Edit!Objects("platform") \union {None}
  /\ cache = [config |-> cache.config, fresh |-> cache.fresh]

\* The cache is what is stored, is about to be dropped, was filled late, or stands
\* for settings that could not be read.
CacheIsDue ==
  cache.fresh =>
    \/ cache.config = obj["platform"]
    \/ "lateFetch" \in excused
    \/ Edit!Unread(cache.config)
    \/ \E p \in Procs : at[p] = "saved"

\* The settings have not given the GPU another name, nor were they ever not read.
OneName == "renamed" \notin excused /\ "unread" \notin excused

\* Whoever edits the field f of an object of kind k may see another value of it
\* than is stored, for a reason that is known.
Misread(k, f) ==
  \/ k = "image" /\ f = "deprecated" /\ lapsed
  \/ k = "workspace" /\ f = "unboxed"
  \/ k = "workspace" /\ f = "gpu" /\ ~OneName
  \/ k = "platform" /\ "blankShown" \in excused

\* A request that no write has overtaken has the fields as they are stored.
FormsMatch ==
  \A p \in Procs :
    at[p] \in {"fetching", "editing"} /\ ~asked[p].stale /\ obj[asked[p].kind] # None =>
      \A f \in DOMAIN asked[p].form :
        asked[p].form[f] = obj[asked[p].kind][f] \/ Misread(asked[p].kind, f)

\* Until the settings give the GPU another name, or are not read, it has one name
\* everywhere.
NamesAgree ==
  OneName =>
    LET name == Edit!GPUResource(obj["platform"])
    IN  /\ obj["workspace"]["gpu"] \in {0, name + 1}
        /\ cache.fresh => Edit!GPUResource(cache.config) = name
        /\ \A p \in Procs : at[p] \in {"fetching", "editing"} /\ asked[p].kind = "workspace" =>
             Edit!GPUResource(asked[p].config) = name

\* A field is what it was meant to be, or was lost for a reason that is known.
FieldsKept ==
  \A k \in Edit!Kinds : \A f \in Edit!Fields[k] :
    obj[k] # None /\ obj[k][f] # meant[k][f] => Edit!KnownLoss(k, f)

\* The settings are fetched for a Workspace, and created by their own form.
StagesHaveTheirKind ==
  \A p \in Procs :
    /\ at[p] = "fetching" => asked[p].kind = "workspace"
    /\ at[p] = "creating" => asked[p].kind = "platform"

\* The inductive invariant of the shared objects: unless two edits overlapped, the
\* forms are current, the GPU has one name, and the fields are as they were meant.
EditInv ==
  /\ EditTypes
  /\ StagesHaveTheirKind
  /\ CacheIsDue
  /\ "overlap" \notin excused => FormsMatch /\ NamesAgree /\ FieldsKept

\* The kinds of object that the screens edit.
LEMMA KindFacts ==
  /\ Edit!Kinds = {"userspace", "image", "registry", "platform", "workspace"}
  /\ \A s \in DOMAIN Edit!Subjects : Edit!Subjects[s] \subseteq Edit!Kinds
  BY DEF Edit!Kinds, Edit!Subjects

\* Fields of an object, and the settings, make what a request has read ...
LEMMA ReadingType ==
  ASSUME NEW k \in Edit!Kinds, NEW fields \in SUBSET Edit!Fields[k],
         NEW form \in [fields -> Edit!Stored(k)],
         NEW config \in Edit!Objects("platform") \union {None}, NEW stale \in BOOLEAN
  PROVE  [kind |-> k, form |-> form, config |-> config, stale |-> stale] \in Edit!Readings
<1> DEFINE forms == UNION {[g -> Edit!Stored(k)] : g \in SUBSET Edit!Fields[k]}
<1>1. form \in forms
  OBVIOUS
<1> HIDE DEF forms
<1>2. [kind |-> k, form |-> form, config |-> config, stale |-> stale]
        \in [kind : {k}, form : forms, config : Edit!Objects("platform") \union {None}, stale : BOOLEAN]
  BY <1>1
<1> QED BY <1>2 DEF forms, Edit!Readings

\* ... and what a request has read is made of them.
LEMMA ReadingParts ==
  ASSUME NEW r \in Edit!Readings
  PROVE  /\ r.kind \in Edit!Kinds
         /\ DOMAIN r.form \subseteq Edit!Fields[r.kind]
         /\ r.form \in [DOMAIN r.form -> Edit!Stored(r.kind)]
         /\ r.config \in Edit!Objects("platform") \union {None}
         /\ r.stale \in BOOLEAN
         /\ r = [kind |-> r.kind, form |-> r.form, config |-> r.config, stale |-> r.stale]
<1>1. PICK k \in Edit!Kinds :
        r \in [kind : {k}, form : UNION {[g -> Edit!Stored(k)] : g \in SUBSET Edit!Fields[k]},
               config : Edit!Objects("platform") \union {None}, stale : BOOLEAN]
  BY DEF Edit!Readings
<1> DEFINE forms == UNION {[g -> Edit!Stored(k)] : g \in SUBSET Edit!Fields[k]}
<1>2. r \in [kind : {k}, form : forms, config : Edit!Objects("platform") \union {None}, stale : BOOLEAN]
  BY <1>1
<1> HIDE DEF forms
<1>3. /\ r.kind = k /\ r.form \in forms
      /\ r.config \in Edit!Objects("platform") \union {None}
      /\ r.stale \in BOOLEAN
      /\ r = [kind |-> r.kind, form |-> r.form, config |-> r.config, stale |-> r.stale]
  BY <1>2
<1>4. DOMAIN r.form \subseteq Edit!Fields[k] /\ r.form \in [DOMAIN r.form -> Edit!Stored(k)]
  BY <1>3 DEF forms
<1> QED BY <1>1, <1>3, <1>4

\* What a request holds when it is one.
LEMMA AskedParts ==
  ASSUME EditTypes, NEW p \in Procs, at[p] \in {"fetching", "editing", "creating"}
  PROVE  /\ asked[p] \in Edit!Readings
         /\ asked[p].kind \in Edit!Kinds
         /\ DOMAIN asked[p].form \subseteq Edit!Fields[asked[p].kind]
         /\ asked[p].form \in [DOMAIN asked[p].form -> Edit!Stored(asked[p].kind)]
         /\ asked[p].config \in Edit!Objects("platform") \union {None}
         /\ asked[p].stale \in BOOLEAN
<1>1. asked[p] \in Edit!Readings
  BY DEF EditTypes
<1> QED BY <1>1, ReadingParts

\* A name for the GPU that is no settings' is the default one.
LEMMA GPUResourceType ==
  ASSUME NEW config \in Edit!Objects("platform") \union {None}
  PROVE  Edit!GPUResource(config) \in 0 .. 1
  BY DEF Edit!GPUResource, Edit!Objects, Edit!Stored, Edit!Fields

-----------------------------------------------------------------------------
(* Reading *)

\* A request has read what is stored, or something else for a reason that is known.
LEMMA Filled ==
  ASSUME EditInv, NEW p \in Procs, at[p] = "idle", NEW k \in Edit!Kinds,
         NEW fields \in SUBSET Edit!Fields[k], NEW form \in [fields -> Edit!Stored(k)],
         NEW config \in Edit!Objects("platform") \union {None},
         NEW next \in {"editing", "fetching"},
         Edit!Filling(p, k, form, config, next),
         UNCHANGED <<about, obj, cache, lapsed, meant>>,
         excused' \in {excused, excused \union {"blankShown"}, excused \union {"unread"}},
         next = "fetching" => k = "workspace",
         "overlap" \notin excused =>
           \A f \in fields : form[f] = obj[k][f] \/ Misread(k, f)' \/ obj[k] = None,
         k = "workspace" /\ "overlap" \notin excused /\ OneName' =>
           Edit!GPUResource(config) = Edit!GPUResource(obj["platform"])
  PROVE  EditInv'
<1> DEFINE r == [kind |-> k, form |-> form, config |-> config, stale |-> FALSE]
<1>1. r \in Edit!Readings /\ r # None
  BY ReadingType, NoneOfEdits DEF Edit!NoneAssumption
<1>2. /\ r.kind = k /\ r.form = form /\ r.config = config /\ r.stale = FALSE
      /\ DOMAIN r.form = fields
  OBVIOUS
<1>3. at' = [at EXCEPT ![p] = next] /\ asked' = [asked EXCEPT ![p] = r]
  BY DEF Edit!Filling
<1> HIDE DEF r
<1>4. /\ at'[p] = next /\ asked'[p] = r
      /\ \A q \in Procs \ {p} : at'[q] = at[q] /\ asked'[q] = asked[q]
  BY <1>3 DEF EditInv, EditTypes
<1>5. EditTypes'
  BY <1>1, <1>3 DEF EditInv, EditTypes
<1>6. StagesHaveTheirKind'
  BY <1>2, <1>4 DEF EditInv, StagesHaveTheirKind
<1>7. CacheIsDue'
  BY <1>4 DEF EditInv, CacheIsDue, Edit!Unread
<1>8. ASSUME "overlap" \notin excused' PROVE FormsMatch'
  BY <1>2, <1>4, <1>8 DEF EditInv, FormsMatch, Misread, OneName
<1>9. ASSUME "overlap" \notin excused' PROVE NamesAgree'
  BY <1>2, <1>4, <1>9 DEF EditInv, NamesAgree, OneName
<1>10. ASSUME "overlap" \notin excused' PROVE FieldsKept'
  BY <1>10 DEF EditInv, FieldsKept, Edit!KnownLoss, OneName
<1> QED BY <1>5, <1>6, <1>7, <1>8, <1>9, <1>10 DEF EditInv

\* Some fields of an object hold what the object holds.
LEMMA OnlyType ==
  ASSUME NEW k \in Edit!Kinds, NEW o \in Edit!Objects(k), NEW fields \in SUBSET Edit!Fields[k]
  PROVE  /\ Edit!Only(o, fields) \in [fields -> Edit!Stored(k)]
         /\ \A f \in fields : Edit!Only(o, fields)[f] = o[f]
  BY DEF Edit!Only, Edit!Objects

\* What the screens and handlers show of an object that no settings go into.
LEMMA ReadAsStored ==
  ASSUME EditInv, NEW p \in Procs, NEW k \in Edit!Kinds \ {"platform", "workspace"},
         NEW fields \in SUBSET Edit!Fields[k], NEW form \in [fields -> Edit!Stored(k)],
         Edit!Read(p, k, form),
         \A f \in fields : form[f] = obj[k][f] \/ Misread(k, f)'
  PROVE  EditInv'
<1>1. /\ at[p] = "idle" /\ Edit!Filling(p, k, form, None, "editing")
      /\ UNCHANGED <<about, obj, cache, lapsed, meant, excused>>
  BY DEF Edit!Read, Edit!Shown
<1> QED BY <1>1, Filled

\* The forms and handlers that read one object.
LEMMA ReadsAsStored ==
  ASSUME EditInv, NEW p \in Procs,
         \/ Edit!ReadMembership(p) \/ Edit!ReadQuota(p) \/ Edit!ReadKeys(p)
         \/ Edit!ReadRegistry(p) \/ Edit!ReadCatalog(p)
  PROVE  EditInv'
<1>1. \A k \in Edit!Kinds : obj[k] # None => obj[k] \in Edit!Objects(k)
  BY DEF EditInv, EditTypes
<1>2. ASSUME NEW fields \in SUBSET Edit!Fields["userspace"],
             Edit!Read(p, "userspace", Edit!Only(obj["userspace"], fields))
      PROVE  EditInv'
  <2>1. obj["userspace"] # None
    BY <1>2 DEF Edit!Read
  <2>2. obj["userspace"] \in Edit!Objects("userspace")
    BY <1>1, <2>1, KindFacts
  <2> QED BY <1>2, <2>2, OnlyType, ReadAsStored, KindFacts
<1>3. CASE Edit!ReadMembership(p)
  BY <1>2, <1>3 DEF Edit!ReadMembership, Edit!MembershipForm, Edit!Fields
<1>4. CASE Edit!ReadQuota(p)
  BY <1>2, <1>4 DEF Edit!ReadQuota, Edit!QuotaForm, Edit!Fields
<1>5. CASE Edit!ReadKeys(p)
  BY <1>2, <1>5 DEF Edit!ReadKeys, Edit!KeyList, Edit!Keys, Edit!Fields
<1>6. CASE Edit!ReadRegistry(p)
  <2>1. obj["registry"] # None /\ Edit!Read(p, "registry", obj["registry"])
    BY <1>6 DEF Edit!ReadRegistry, Edit!RegistryForm, Edit!Read
  <2>2. obj["registry"] \in [Edit!Fields["registry"] -> Edit!Stored("registry")]
    BY <1>1, <2>1, KindFacts DEF Edit!Objects
  <2> QED BY <2>1, <2>2, ReadAsStored, KindFacts
<1>7. CASE Edit!ReadCatalog(p)
  <2> DEFINE form == Edit!CatalogForm
  <2>1. obj["image"] # None /\ Edit!Read(p, "image", form) /\ lapsed' = lapsed
    BY <1>7 DEF Edit!ReadCatalog, Edit!Read
  <2>2. obj["image"] \in [Edit!Fields["image"] -> 0 .. 1]
    BY <1>1, <2>1, KindFacts DEF Edit!Objects, Edit!Stored
  <2> DEFINE ticked == IF Edit!IsDeprecated(obj["image"]) THEN 1 ELSE 0
  <2>3. form = [obj["image"] EXCEPT !["deprecated"] = ticked] /\ ticked \in 0 .. 1
    BY DEF Edit!CatalogForm
  <2>4. "deprecated" \in Edit!Fields["image"]
    BY DEF Edit!Fields
  <2> HIDE DEF ticked, form
  <2>10. form \in [Edit!Fields["image"] -> 0 .. 1]
    BY <2>2, <2>3
  <2>5. form \in [Edit!Fields["image"] -> Edit!Stored("image")]
    BY <2>10 DEF Edit!Stored
  <2>6. \A f \in Edit!Fields["image"] : f # "deprecated" => form[f] = obj["image"][f]
    BY <2>2, <2>3
  <2>7. form["deprecated"] = ticked
    BY <2>2, <2>3, <2>4
  <2>8. form["deprecated"] = obj["image"]["deprecated"] \/ lapsed
    <3>1. obj["image"]["deprecated"] \in 0 .. 1
      BY <2>2, <2>4
    <3>2. CASE Edit!IsDeprecated(obj["image"])
      BY <2>7, <3>2 DEF Edit!IsDeprecated, ticked
    <3>3. CASE ~Edit!IsDeprecated(obj["image"])
      BY <2>7, <3>1, <3>3 DEF Edit!IsDeprecated, ticked
    <3> QED BY <3>2, <3>3
  <2>9. \A f \in Edit!Fields["image"] : form[f] = obj["image"][f] \/ Misread("image", f)'
    BY <2>1, <2>6, <2>8 DEF Misread, OneName
  <2> QED BY <2>1, <2>5, <2>9, ReadAsStored, KindFacts
<1> QED BY <1>3, <1>4, <1>5, <1>6, <1>7

\* The settings form, which may show blanks for what it cannot read.
LEMMA ReadsSettings == ASSUME EditInv, NEW p \in Procs, Edit!ReadSettings(p) PROVE EditInv'
<1> DEFINE fields == {"labels", "gpuName"}
<1>1. ASSUME NEW o \in Edit!Objects("platform"), Edit!Shown(p, "platform", Edit!SettingsForm(o)),
             excused' \in {excused, excused \union {"blankShown"}},
             o = obj["platform"] \/ obj["platform"] = None \/ "blankShown" \in excused'
      PROVE  EditInv'
  <2>1. "platform" \in Edit!Kinds /\ fields \in SUBSET Edit!Fields["platform"]
    BY KindFacts DEF Edit!Fields
  <2>2. /\ at[p] = "idle" /\ Edit!Filling(p, "platform", Edit!Only(o, fields), None, "editing")
        /\ UNCHANGED <<about, obj, cache, lapsed, meant>>
    BY <1>1 DEF Edit!ReadSettings, Edit!Shown, Edit!SettingsForm
  <2>3. /\ Edit!Only(o, fields) \in [fields -> Edit!Stored("platform")]
        /\ \A f \in fields : Edit!Only(o, fields)[f] = o[f]
    BY <1>1, <2>1, OnlyType
  <2>4. \A f \in fields :
          Edit!Only(o, fields)[f] = obj["platform"][f] \/ Misread("platform", f)' \/ obj["platform"] = None
    BY <1>1, <2>3 DEF Misread, OneName
  <2> QED BY <1>1, <2>1, <2>2, <2>3, <2>4, Filled
<1>2. Edit!Blank("platform") \in Edit!Objects("platform")
  BY DEF Edit!Blank, Edit!Objects, Edit!Stored
<1>3. obj["platform"] \in Edit!Objects("platform") \union {None}
  BY KindFacts DEF EditInv, EditTypes
<1> HIDE DEF fields
<1> QED BY <1>1, <1>2, <1>3 DEF Edit!ReadSettings

\* The resource form, filled with the name that the settings give the GPU.
LEMMA ReadsResources == ASSUME EditInv, NEW p \in Procs, Edit!ReadResources(p) PROVE EditInv'
<1> DEFINE fields == Edit!Fields["workspace"]
           w      == obj["workspace"]
<1>1. fields = {"compute", "env", "unboxed", "gpu"} /\ w \in [fields -> 0 .. 2]
  BY KindFacts DEF EditInv, EditTypes, Edit!Objects, Edit!Stored, Edit!Fields
<1>2. ASSUME NEW config \in Edit!Objects("platform") \union {None}, NEW next \in {"editing", "fetching"},
             Edit!Filling(p, "workspace", Edit!ResourcesForm(config), config, next),
             excused' \in {excused, excused \union {"unread"}},
             "overlap" \notin excused /\ OneName' =>
               Edit!GPUResource(config) = Edit!GPUResource(obj["platform"])
      PROVE  EditInv'
  <2> DEFINE form == Edit!ResourcesForm(config)
             gpu  == IF w["gpu"] = Edit!GPUResource(config) + 1 THEN w["gpu"] ELSE 0
  <2>1. form = [w EXCEPT !["unboxed"] = 0, !["gpu"] = gpu]
    BY DEF Edit!ResourcesForm
  <2>2. gpu \in 0 .. 2
    BY <1>1
  <2> HIDE DEF gpu
  <2>3. /\ form \in [fields -> 0 .. 2] /\ form["gpu"] = gpu
        /\ form["compute"] = w["compute"] /\ form["env"] = w["env"]
    <3> HIDE DEF fields, w
    <3> QED BY <1>1, <2>1, <2>2
  <2>4. form \in [fields -> Edit!Stored("workspace")]
    BY <2>3 DEF Edit!Stored
  <2>5. ASSUME "overlap" \notin excused PROVE form["gpu"] = w["gpu"] \/ Misread("workspace", "gpu")'
    <3>1. OneName' => OneName
      BY <1>2 DEF OneName
    <3>2. OneName => w["gpu"] \in {0, Edit!GPUResource(obj["platform"]) + 1}
      BY <2>5 DEF EditInv, NamesAgree
    <3> QED BY <1>2, <2>3, <2>5, <3>1, <3>2 DEF Misread, gpu
  <2>6. /\ UNCHANGED <<about, obj, cache, lapsed, meant>> /\ at[p] = "idle"
        /\ Edit!Filling(p, "workspace", form, config, next)
    BY <1>2 DEF Edit!ReadResources
  <2> HIDE DEF form
  <2>7. ASSUME "overlap" \notin excused
        PROVE  \A f \in fields : form[f] = w[f] \/ Misread("workspace", f)'
    BY <1>1, <2>3, <2>5, <2>7 DEF Misread
  <2> QED BY <1>2, <2>4, <2>6, <2>7, Filled, KindFacts
<1>3. CASE /\ cache.fresh /\ excused' = excused
           /\ Edit!Filling(p, "workspace", Edit!ResourcesForm(cache.config), cache.config, "editing")
  BY <1>2, <1>3 DEF EditInv, EditTypes, NamesAgree, OneName
<1>4. ASSUME NEW config \in {obj["platform"], None},
             Edit!Filling(p, "workspace", Edit!ResourcesForm(config), config, "fetching"),
             excused' = excused \union {e \in {"unread"} : config # obj["platform"]}
      PROVE  EditInv'
  <2>1. config \in Edit!Objects("platform") \union {None}
    BY <1>4, KindFacts DEF EditInv, EditTypes
  <2>2. OneName' => config = obj["platform"]
    BY <1>4 DEF OneName
  <2>3. excused' \in {excused, excused \union {"unread"}}
    BY <1>4
  <2> QED BY <1>2, <1>4, <2>1, <2>2, <2>3
<1> QED BY <1>3, <1>4 DEF Edit!ReadResources

-----------------------------------------------------------------------------
(* Steps that write nothing *)

\* The request that made a step is over, and whatever else is as it was.
LEMMA Ended ==
  ASSUME EditInv, NEW p \in Procs, at[p] # "saved",
         at' = [at EXCEPT ![p] = "done"], asked' \in {asked, [asked EXCEPT ![p] = None]},
         UNCHANGED <<about, obj, cache, lapsed, meant>>, excused \subseteq excused'
  PROVE  EditInv'
<1>1. /\ at'[p] = "done"
      /\ \A q \in Procs \ {p} : at'[q] = at[q] /\ asked'[q] = asked[q]
  BY DEF EditInv, EditTypes
<1>2. EditTypes'
  BY <1>1 DEF EditInv, EditTypes
<1>3. StagesHaveTheirKind'
  BY <1>1 DEF EditInv, StagesHaveTheirKind
<1>4. CacheIsDue'
  BY <1>1 DEF EditInv, CacheIsDue, Edit!Unread
<1>5. ASSUME "overlap" \notin excused' PROVE FormsMatch'
  BY <1>1, <1>5 DEF EditInv, FormsMatch, Misread, OneName
<1>6. ASSUME "overlap" \notin excused' PROVE NamesAgree'
  BY <1>1, <1>6 DEF EditInv, NamesAgree, OneName
<1>7. ASSUME "overlap" \notin excused' PROVE FieldsKept'
  BY <1>7 DEF EditInv, FieldsKept, Edit!KnownLoss, OneName
<1> QED BY <1>2, <1>3, <1>4, <1>5, <1>6, <1>7 DEF EditInv

\* No save is under way after the last one has dropped the cache.
LEMMA Invalidated == ASSUME EditInv, NEW p \in Procs, Edit!Invalidate(p) PROVE EditInv'
<1>1. /\ at'[p] = "done" /\ \A q \in Procs \ {p} : at'[q] = at[q]
      /\ cache'.fresh = FALSE /\ cache'.config = cache.config
      /\ cache' = [config |-> cache'.config, fresh |-> cache'.fresh]
      /\ UNCHANGED <<about, obj, asked, lapsed, meant, excused>>
  BY DEF Edit!Invalidate, EditInv, EditTypes
<1>2. EditTypes'
  BY <1>1 DEF Edit!Invalidate, EditInv, EditTypes
<1>3. StagesHaveTheirKind' /\ CacheIsDue'
  BY <1>1 DEF EditInv, StagesHaveTheirKind, CacheIsDue, Edit!Unread
<1>4. ASSUME "overlap" \notin excused' PROVE FormsMatch' /\ NamesAgree'
  BY <1>1, <1>4 DEF EditInv, FormsMatch, Misread, NamesAgree, OneName
<1>5. ASSUME "overlap" \notin excused' PROVE FieldsKept'
  BY <1>1, <1>5 DEF EditInv, FieldsKept, Edit!KnownLoss, OneName
<1> QED BY <1>2, <1>3, <1>4, <1>5 DEF EditInv

\* The cache may be dropped at any time.
LEMMA Expired == ASSUME EditInv, Edit!Expire PROVE EditInv'
<1>1. /\ cache'.fresh = FALSE /\ cache'.config = cache.config
      /\ cache' = [config |-> cache'.config, fresh |-> cache'.fresh]
      /\ UNCHANGED <<about, obj, at, asked, lapsed, meant, excused>>
  BY DEF Edit!Expire, EditInv, EditTypes
<1>2. EditTypes' /\ StagesHaveTheirKind' /\ CacheIsDue'
  BY <1>1 DEF EditInv, EditTypes, StagesHaveTheirKind, CacheIsDue, Edit!Unread
<1>3. ASSUME "overlap" \notin excused' PROVE FormsMatch' /\ NamesAgree'
  BY <1>1, <1>3 DEF EditInv, FormsMatch, Misread, NamesAgree, OneName
<1>4. ASSUME "overlap" \notin excused' PROVE FieldsKept'
  BY <1>1, <1>4 DEF EditInv, FieldsKept, Edit!KnownLoss, OneName
<1> QED BY <1>2, <1>3, <1>4 DEF EditInv

\* After the date a catalog form may tick a box that is not stored.
LEMMA DatePassed == ASSUME EditInv, Edit!DatePasses PROVE EditInv'
<1>1. UNCHANGED <<about, obj, at, asked, cache, meant, excused>> /\ lapsed'
  BY DEF Edit!DatePasses
<1>2. EditTypes' /\ StagesHaveTheirKind' /\ CacheIsDue'
  BY <1>1 DEF EditInv, EditTypes, StagesHaveTheirKind, CacheIsDue, Edit!Unread
<1>3. ASSUME "overlap" \notin excused' PROVE FormsMatch' /\ NamesAgree'
  BY <1>1, <1>3 DEF EditInv, FormsMatch, Misread, NamesAgree, OneName
<1>4. ASSUME "overlap" \notin excused' PROVE FieldsKept'
  BY <1>1, <1>4 DEF EditInv, FieldsKept, Edit!KnownLoss, OneName
<1> QED BY <1>2, <1>3, <1>4 DEF EditInv

\* What is stored in the cache has the name of the GPU that is known everywhere.
LEMMA ConfigStored == ASSUME EditInv, NEW p \in Procs, Edit!StoreConfig(p) PROVE EditInv'
<1>1. /\ at[p] = "fetching" /\ at'[p] = "editing"
      /\ \A q \in Procs \ {p} : at'[q] = at[q]
      /\ cache'.fresh = TRUE /\ cache'.config = asked[p].config
      /\ cache' = [config |-> cache'.config, fresh |-> cache'.fresh]
      /\ UNCHANGED <<about, obj, asked, lapsed, meant>> /\ excused \subseteq excused'
  BY DEF Edit!StoreConfig, EditInv, EditTypes
<1>2. EditTypes'
  BY <1>1, AskedParts DEF Edit!StoreConfig, EditInv, EditTypes
<1>3. \/ asked[p].config = obj["platform"] \/ "lateFetch" \in excused'
      \/ Edit!Unread(asked[p].config)
  BY DEF Edit!StoreConfig
<1>4. StagesHaveTheirKind' /\ CacheIsDue'
  BY <1>1, <1>3 DEF EditInv, StagesHaveTheirKind, CacheIsDue, Edit!Unread
<1>5. ASSUME "overlap" \notin excused' PROVE FormsMatch'
  BY <1>1, <1>5 DEF EditInv, FormsMatch, Misread, OneName
<1>6. ASSUME "overlap" \notin excused' PROVE NamesAgree'
  BY <1>1, <1>6 DEF EditInv, NamesAgree, StagesHaveTheirKind, OneName
<1>7. ASSUME "overlap" \notin excused' PROVE FieldsKept'
  BY <1>1, <1>7 DEF EditInv, FieldsKept, Edit!KnownLoss, OneName
<1> QED BY <1>2, <1>4, <1>5, <1>6, <1>7 DEF EditInv

-----------------------------------------------------------------------------
(* Writing *)

\* The request that has written is over, and the others that have read the object
\* have read an old one.
LEMMA Finished ==
  ASSUME EditTypes, NEW p \in Procs, NEW k, NEW next \in {"saved", "done"}, Edit!Finish(p, k, next)
  PROVE  /\ at' \in [Procs -> {"idle", "fetching", "editing", "creating", "saved", "done"}]
         /\ asked' \in [Procs -> Edit!Readings \union {None}]
         /\ at'[p] = next
         /\ \A q \in Procs \ {p} :
              /\ at'[q] = at[q]
              /\ asked[q] # None =>
                   /\ asked'[q] # None
                   /\ asked'[q].kind = asked[q].kind
                   /\ asked'[q].form = asked[q].form
                   /\ asked'[q].config = asked[q].config
                   /\ ~asked'[q].stale => ~asked[q].stale /\ asked[q].kind # k
<1>1. ASSUME NEW q \in Procs
      PROVE  /\ Edit!Outdated(p, k)[q] \in Edit!Readings \union {None}
             /\ asked[q] # None /\ q # p =>
                  LET r == Edit!Outdated(p, k)[q]
                  IN  /\ r # None
                      /\ r.kind = asked[q].kind /\ r.form = asked[q].form /\ r.config = asked[q].config
                      /\ ~r.stale => ~asked[q].stale /\ asked[q].kind # k
  <2>1. asked[q] \in Edit!Readings \union {None}
    BY DEF EditTypes
  <2>2. CASE q # p /\ asked[q] # None /\ asked[q].kind = k
    <3> DEFINE r == [asked[q] EXCEPT !.stale = TRUE]
    <3>1. Edit!Outdated(p, k)[q] = r
      BY <2>2 DEF Edit!Outdated
    <3>2. asked[q] \in Edit!Readings
      BY <2>1, <2>2
    <3>3. asked[q] = [kind |-> asked[q].kind, form |-> asked[q].form,
                      config |-> asked[q].config, stale |-> asked[q].stale]
      BY <3>2, ReadingParts
    <3>8. PICK kind, form, config, stale :
            asked[q] = [kind |-> kind, form |-> form, config |-> config, stale |-> stale]
      BY <3>3
    <3>9. asked[q].kind = kind /\ asked[q].form = form /\ asked[q].config = config
      BY <3>8
    <3>10. PICK yes \in BOOLEAN : yes = TRUE
      OBVIOUS
    <3>11. r = [asked[q] EXCEPT !.stale = yes]
      BY <3>10, Zenon
    <3> HIDE DEF r
    <3>4. r = [kind |-> kind, form |-> form, config |-> config, stale |-> yes]
      BY <3>8, <3>11
    <3>5. r.kind = asked[q].kind /\ r.form = asked[q].form /\ r.config = asked[q].config /\ r.stale
      BY <3>4, <3>9, <3>10
    <3>6. r \in Edit!Readings
      <4>1. /\ asked[q].kind \in Edit!Kinds
            /\ DOMAIN asked[q].form \in SUBSET Edit!Fields[asked[q].kind]
            /\ asked[q].form \in [DOMAIN asked[q].form -> Edit!Stored(asked[q].kind)]
            /\ asked[q].config \in Edit!Objects("platform") \union {None}
        BY <3>2, ReadingParts
      <4> QED BY <3>4, <3>9, <4>1, ReadingType
    <3>7. r # None
      BY <3>6, NoneOfEdits DEF Edit!NoneAssumption
    <3> HIDE DEF r
    <3> QED BY <3>1, <3>5, <3>6, <3>7
  <2>3. CASE ~(q # p /\ asked[q] # None /\ asked[q].kind = k)
    <3>1. Edit!Outdated(p, k)[q] = asked[q]
      BY <2>3 DEF Edit!Outdated
    <3> QED BY <2>1, <2>3, <3>1
  <2> QED BY <2>2, <2>3
<1> DEFINE o == Edit!Outdated(p, k)
<1>2. DOMAIN o = Procs
  BY DEF Edit!Outdated
<1>3. o = [q \in Procs |-> o[q]]
  BY DEF Edit!Outdated
<1>4. at' = [at EXCEPT ![p] = next] /\ asked' = [o EXCEPT ![p] = None]
  BY DEF Edit!Finish
<1>5. ASSUME NEW q \in Procs
      PROVE  /\ o[q] \in Edit!Readings \union {None}
             /\ asked[q] # None /\ q # p =>
                  /\ o[q] # None
                  /\ o[q].kind = asked[q].kind /\ o[q].form = asked[q].form /\ o[q].config = asked[q].config
                  /\ ~o[q].stale => ~asked[q].stale /\ asked[q].kind # k
  BY <1>1
<1> HIDE DEF o
<1>6. asked' \in [Procs -> Edit!Readings \union {None}]
  BY <1>2, <1>3, <1>4, <1>5
<1>7. \A q \in Procs \ {p} : asked'[q] = o[q]
  BY <1>2, <1>4
<1>8. at' \in [Procs -> {"idle", "fetching", "editing", "creating", "saved", "done"}]
      /\ at'[p] = next /\ \A q \in Procs \ {p} : at'[q] = at[q]
  BY <1>4 DEF EditTypes
<1> QED BY <1>5, <1>6, <1>7, <1>8

\* A write leaves what the others hold of other objects as current as it was.
LEMMA Overtaken ==
  ASSUME EditTypes, FormsMatch, NEW p \in Procs, NEW k, NEW next \in {"saved", "done"},
         Edit!Finish(p, k, next), \A j \in Edit!Kinds \ {k} : obj'[j] = obj[j],
         lapsed' = lapsed, excused \subseteq excused'
  PROVE  FormsMatch'
<1>1. SUFFICES ASSUME NEW q \in Procs, at'[q] \in {"fetching", "editing"}, ~asked'[q].stale,
                      obj'[asked'[q].kind] # None, NEW f \in DOMAIN asked'[q].form
               PROVE  (asked[q].form[f] = obj[asked[q].kind][f] \/ Misread(asked[q].kind, f))'
  BY Zenon DEF FormsMatch
<1>2. q # p /\ at[q] \in {"fetching", "editing"} /\ asked[q] # None
  BY <1>1, Finished DEF EditTypes
<1>3. /\ asked'[q].kind = asked[q].kind /\ asked'[q].form = asked[q].form
      /\ ~asked[q].stale /\ asked[q].kind # k
  BY <1>1, <1>2, Finished
<1>4. asked[q].kind \in Edit!Kinds
  BY <1>2, AskedParts
<1>5. obj'[asked[q].kind] = obj[asked[q].kind]
  BY <1>3, <1>4
<1>6. asked[q].form[f] = obj[asked[q].kind][f] \/ Misread(asked[q].kind, f)
  <2>1. f \in DOMAIN asked[q].form /\ obj[asked[q].kind] # None
    BY <1>1, <1>3, <1>5
  <2> QED BY <1>2, <1>3, <2>1 DEF FormsMatch
<1> QED BY <1>3, <1>5, <1>6 DEF Misread, OneName

\* A write to one object keeps the invariant when it keeps the names of the GPU
\* together and gives the fields the values that they were last meant to have.
LEMMA Written ==
  ASSUME EditInv, NEW p \in Procs, at[p] # "saved", NEW k \in Edit!Kinds,
         NEW next \in {"saved", "done"}, k = "platform" => next = "saved",
         Edit!Finish(p, k, next),
         UNCHANGED <<about, cache, lapsed>>, excused \subseteq excused',
         DOMAIN obj' = Edit!Kinds, DOMAIN meant' = Edit!Kinds,
         obj'[k] \in Edit!Objects(k) \union {None}, k = "workspace" => obj'[k] # None,
         \A j \in Edit!Kinds \ {k} : obj'[j] = obj[j] /\ meant'[j] = meant[j],
         "overlap" \notin excused' /\ OneName' =>
           /\ k = "workspace" => obj'[k]["gpu"] \in {0, Edit!GPUResource(obj["platform"]) + 1}
           /\ k = "platform" => Edit!GPUResource(obj'[k]) = Edit!GPUResource(obj["platform"]),
         "overlap" \notin excused' /\ obj'[k] # None =>
           \A f \in Edit!Fields[k] : obj'[k][f] # meant'[k][f] => Edit!KnownLoss(k, f)'
  PROVE  EditInv'
<1>1. /\ at'[p] = next
      /\ \A q \in Procs \ {p} :
           /\ at'[q] = at[q]
           /\ asked[q] # None =>
                /\ asked'[q] # None
                /\ asked'[q].kind = asked[q].kind /\ asked'[q].config = asked[q].config
  BY Finished DEF EditInv
<1>2. EditTypes'
  <2>1. /\ at' \in [Procs -> {"idle", "fetching", "editing", "creating", "saved", "done"}]
        /\ asked' \in [Procs -> Edit!Readings \union {None}]
    BY Finished DEF EditInv
  <2>2. \A j \in Edit!Kinds : obj'[j] \in Edit!Objects(j) \union {None}
    BY DEF EditInv, EditTypes
  <2>3. obj'["workspace"] # None
    BY KindFacts DEF EditInv, EditTypes
  <2>4. \A q \in Procs : at'[q] \in {"fetching", "editing", "creating"} => asked'[q] # None
    BY <1>1 DEF EditInv, EditTypes
  <2>5. /\ about' \in DOMAIN Edit!Subjects /\ cache'.config \in Edit!Objects("platform") \union {None}
        /\ cache' = [config |-> cache'.config, fresh |-> cache'.fresh]
    BY DEF EditInv, EditTypes
  <2> QED BY <2>1, <2>2, <2>3, <2>4, <2>5 DEF EditTypes
<1>3. StagesHaveTheirKind'
  BY <1>1 DEF EditInv, EditTypes, StagesHaveTheirKind
<1>4. CacheIsDue'
  <2>1. CASE k = "platform"
    BY <1>1, <2>1 DEF CacheIsDue, Edit!Unread
  <2>2. CASE k # "platform"
    <3>1. obj'["platform"] = obj["platform"]
      BY <2>2, KindFacts
    <3> QED BY <1>1, <3>1 DEF EditInv, CacheIsDue, Edit!Unread
  <2> QED BY <2>1, <2>2
<1>5. ASSUME "overlap" \notin excused' PROVE FormsMatch'
  <2>1. FormsMatch
    BY <1>5 DEF EditInv
  <2> QED BY <2>1, Overtaken DEF EditInv
<1>6. ASSUME "overlap" \notin excused' PROVE NamesAgree'
  <2> SUFFICES ASSUME OneName' PROVE NamesAgree'
    BY DEF NamesAgree, OneName
  <2> DEFINE name == Edit!GPUResource(obj["platform"])
  <2>1. /\ obj["workspace"]["gpu"] \in {0, name + 1}
        /\ cache.fresh => Edit!GPUResource(cache.config) = name
        /\ \A q \in Procs : at[q] \in {"fetching", "editing"} /\ asked[q].kind = "workspace" =>
             Edit!GPUResource(asked[q].config) = name
    BY <1>6 DEF EditInv, NamesAgree, OneName
  <2>2. Edit!GPUResource(obj'["platform"]) = name
    <3>1. CASE k = "platform"
      BY <1>6, <3>1
    <3>2. CASE k # "platform"
      BY <3>2, KindFacts DEF Edit!GPUResource
    <3> QED BY <3>1, <3>2
  <2>3. obj'["workspace"]["gpu"] \in {0, name + 1}
    <3>1. CASE k = "workspace"
      BY <1>6, <3>1
    <3>2. CASE k # "workspace"
      BY <2>1, <3>2, KindFacts
    <3> QED BY <3>1, <3>2
  <2>4. cache'.fresh => Edit!GPUResource(cache'.config) = name
    BY <2>1
  <2>5. ASSUME NEW q \in Procs, at'[q] \in {"fetching", "editing"}, asked'[q].kind = "workspace"
        PROVE  Edit!GPUResource(asked'[q].config) = name
    <3>1. q # p /\ at[q] \in {"fetching", "editing"} /\ asked[q] # None
      BY <1>1, <2>5 DEF EditInv, EditTypes
    <3>2. asked'[q].config = asked[q].config /\ asked[q].kind = "workspace"
      BY <1>1, <2>5, <3>1
    <3> QED BY <2>1, <3>1, <3>2
  <2> HIDE DEF name
  <2> QED BY <2>2, <2>3, <2>4, <2>5 DEF NamesAgree, Edit!GPUResource, OneName
<1>7. ASSUME "overlap" \notin excused' PROVE FieldsKept'
  <2>1. SUFFICES ASSUME NEW j \in Edit!Kinds, NEW f \in Edit!Fields[j],
                        obj'[j] # None, obj'[j][f] # meant'[j][f]
                 PROVE  Edit!KnownLoss(j, f)'
    BY DEF FieldsKept
  <2>2. CASE j = k
    BY <1>7, <2>1, <2>2
  <2>3. CASE j # k
    <3>1. obj'[j] = obj[j] /\ meant'[j] = meant[j] /\ lapsed' = lapsed
      BY <2>3
    <3>2. Edit!KnownLoss(j, f)
      BY <1>7, <2>1, <3>1 DEF EditInv, FieldsKept
    <3> QED BY <3>1, <3>2 DEF Edit!KnownLoss, OneName
  <2> QED BY <2>2, <2>3
<1> QED BY <1>2, <1>3, <1>4, <1>5, <1>6, <1>7 DEF EditInv

\* A merge patch keeps the invariant when the fields it names have the values that
\* were meant, or those that are stored for all its sender knew.
LEMMA Merged ==
  ASSUME EditInv, NEW p \in Procs, at[p] # "saved", NEW k \in Edit!Kinds,
         NEW next \in {"saved", "done"}, k = "platform" => next = "saved",
         NEW patch, NEW understood, NEW intended,
         Edit!MergePatch(p, k, patch, understood, intended, next),
         UNCHANGED <<about, cache, lapsed>>, excused \subseteq excused',
         \A f \in Edit!Fields[k] \cap DOMAIN patch : patch[f] \in Edit!Stored(k),
         "overlap" \notin excused' /\ OneName' /\ obj[k] # None =>
           /\ k = "workspace" /\ "gpu" \in DOMAIN patch =>
                patch["gpu"] \in {0, Edit!GPUResource(obj["platform"]) + 1}
           /\ k = "platform" =>
                "gpuName" \in DOMAIN patch /\ patch["gpuName"] = Edit!GPUResource(obj["platform"]),
         "overlap" \notin excused' /\ obj[k] # None => \A f \in Edit!Fields[k] :
           \/ f \in intended /\ f \in DOMAIN patch /\ patch[f] = understood[f]
           \/ f \in intended /\ k = "userspace" /\ f = "gpu" /\ understood[f] = 0
           \/ f \notin intended /\ (f \in DOMAIN patch => patch[f] = obj[k][f] \/ Misread(k, f))
           \/ k = "image" /\ "apiPatched" \in excused'
  PROVE  EditInv'
<1>1. CASE obj[k] = None
  <2>1. /\ at' = [at EXCEPT ![p] = "done"] /\ asked' = [asked EXCEPT ![p] = None]
        /\ UNCHANGED <<obj, meant>>
    BY <1>1 DEF Edit!MergePatch
  <2> QED BY <2>1, Ended
<1>2. CASE obj[k] # None
  <2> DEFINE o == [f \in Edit!Fields[k] |-> IF f \in DOMAIN patch THEN patch[f] ELSE obj[k][f]]
             m == [f \in Edit!Fields[k] |-> IF f \in intended THEN understood[f] ELSE meant[k][f]]
  <2>1. /\ obj' = [obj EXCEPT ![k] = o] /\ meant' = [meant EXCEPT ![k] = m]
        /\ Edit!Finish(p, k, next)
    BY <1>2 DEF Edit!MergePatch
  <2>2. obj[k] \in [Edit!Fields[k] -> Edit!Stored(k)]
    BY <1>2 DEF EditInv, EditTypes, Edit!Objects
  <2>3. o \in [Edit!Fields[k] -> Edit!Stored(k)]
    BY <2>2
  <2>4. /\ \A f \in Edit!Fields[k] : o[f] = IF f \in DOMAIN patch THEN patch[f] ELSE obj[k][f]
        /\ \A f \in Edit!Fields[k] : m[f] = IF f \in intended THEN understood[f] ELSE meant[k][f]
    OBVIOUS
  <2> HIDE DEF o, m
  <2>5. o \in Edit!Objects(k) /\ o # None
    BY <2>3, NoneOfEdits DEF Edit!NoneAssumption, Edit!Objects
  <2>6. /\ DOMAIN obj' = Edit!Kinds /\ DOMAIN meant' = Edit!Kinds
        /\ obj'[k] = o /\ meant'[k] = m
        /\ \A j \in Edit!Kinds \ {k} : obj'[j] = obj[j] /\ meant'[j] = meant[j]
    BY <2>1 DEF EditInv, EditTypes
  <2>7. ASSUME "overlap" \notin excused', OneName', k = "workspace"
        PROVE  o["gpu"] \in {0, Edit!GPUResource(obj["platform"]) + 1}
    <3>1. obj["workspace"]["gpu"] \in {0, Edit!GPUResource(obj["platform"]) + 1}
      BY <2>7 DEF EditInv, NamesAgree, OneName
    <3>2. "gpu" \in Edit!Fields["workspace"]
      BY DEF Edit!Fields
    <3> QED BY <1>2, <2>4, <2>7, <3>1, <3>2
  <2>8. ASSUME "overlap" \notin excused', OneName', k = "platform"
        PROVE  Edit!GPUResource(o) = Edit!GPUResource(obj["platform"])
    <3>1. "gpuName" \in Edit!Fields["platform"]
      BY DEF Edit!Fields
    <3>2. o["gpuName"] = Edit!GPUResource(obj["platform"])
      BY <1>2, <2>4, <2>8, <3>1
    <3> QED BY <2>5, <3>2 DEF Edit!GPUResource
  <2>9. ASSUME "overlap" \notin excused', NEW f \in Edit!Fields[k], o[f] # m[f]
        PROVE  Edit!KnownLoss(k, f)'
    <3>1. CASE k = "image" /\ "apiPatched" \in excused'
      BY <3>1 DEF Edit!KnownLoss, OneName
    <3>2. CASE f \in intended /\ k = "userspace" /\ f = "gpu" /\ understood[f] = 0
      <4>1. meant'["userspace"]["gpu"] = 0
        BY <2>4, <2>6, <3>2
      <4> QED BY <3>2, <4>1 DEF Edit!KnownLoss, OneName
    <3>3. CASE f \notin intended /\ f \in DOMAIN patch /\ Misread(k, f)
      BY <3>3 DEF Misread, Edit!KnownLoss, OneName
    <3>4. CASE f \notin intended /\ (f \in DOMAIN patch => patch[f] = obj[k][f])
      <4>1. o[f] = obj[k][f] /\ m[f] = meant[k][f]
        BY <2>4, <3>4
      <4>2. Edit!KnownLoss(k, f)
        BY <1>2, <2>9, <4>1 DEF EditInv, FieldsKept
      <4>3. meant'[k][f] = meant[k][f]
        BY <2>6, <4>1
      <4> QED BY <4>2, <4>3 DEF Edit!KnownLoss, OneName
    <3>5. ~(f \in intended /\ f \in DOMAIN patch /\ patch[f] = understood[f])
      BY <2>4, <2>9
    <3> QED BY <1>2, <2>9, <3>1, <3>2, <3>3, <3>4, <3>5
  <2> QED BY <1>2, <2>1, <2>5, <2>6, <2>7, <2>8, <2>9, Written
<1> QED BY <1>1, <1>2

\* What a person sends back is what the form showed but for one field.
LEMMA Submitted ==
  ASSUME EditTypes, NEW p \in Procs, at[p] = "editing", NEW boxes,
         NEW form \in Edit!Submissions(p, boxes)
  PROVE  /\ form = [f \in DOMAIN asked[p].form |-> form[f]]
         /\ \A f \in DOMAIN asked[p].form :
              \/ form[f] = asked[p].form[f]
              \/ form[f] \in Edit!Choices(p, f)
              \/ form[f] = Edit!Emptied /\ f \in boxes
<1> DEFINE shown == asked[p].form
           D     == DOMAIN shown
<1>1. shown \in [D -> Edit!Stored(asked[p].kind)]
  BY AskedParts
<1>2. shown = [f \in D |-> shown[f]]
  BY <1>1
<1>3. \/ form = shown
      \/ \E f \in D : \E v \in Edit!Choices(p, f) \union {w \in {Edit!Emptied} : f \in boxes} :
           form = [shown EXCEPT ![f] = v]
  BY DEF Edit!Submissions
<1> HIDE DEF shown, D
<1>4. CASE form = shown
  BY <1>2, <1>4 DEF D, shown
<1>5. ASSUME NEW f \in D, NEW v \in Edit!Choices(p, f) \union {w \in {Edit!Emptied} : f \in boxes},
             form = [shown EXCEPT ![f] = v]
      PROVE  /\ form = [g \in D |-> form[g]]
             /\ \A g \in D : \/ form[g] = shown[g]
                             \/ form[g] \in Edit!Choices(p, g)
                             \/ form[g] = Edit!Emptied /\ g \in boxes
  <2>1. form = [g \in D |-> form[g]] /\ form[f] = v /\ \A g \in D \ {f} : form[g] = shown[g]
    BY <1>2, <1>5
  <2>2. v \in Edit!Choices(p, f) \/ (v = Edit!Emptied /\ f \in boxes)
    OBVIOUS
  <2> QED BY <2>1, <2>2
<1> QED BY <1>3, <1>4, <1>5 DEF D, shown

\* A field can be given what it can hold.
LEMMA ChoicesType ==
  ASSUME EditTypes, NEW p \in Procs, at[p] = "editing", NEW f \in Edit!Fields[asked[p].kind],
         NEW v \in Edit!Choices(p, f)
  PROVE  v \in Edit!Stored(asked[p].kind)
<1>1. asked[p].kind \in Edit!Kinds /\ Edit!GPUResource(asked[p].config) \in 0 .. 1
  BY AskedParts, GPUResourceType
<1>2. CASE f \in {"image", "unboxed"}
  BY <1>2 DEF Edit!Choices, Edit!Stored
<1>3. CASE asked[p].kind = "workspace" /\ f = "gpu"
  BY <1>1, <1>3 DEF Edit!Choices, Edit!Stored
<1>4. CASE f \notin {"image", "unboxed"} /\ ~(asked[p].kind = "workspace" /\ f = "gpu")
  <2>1. v \in Edit!Values(asked[p].kind, f)
    BY <1>4 DEF Edit!Choices
  <2> QED BY <1>1, <1>4, <2>1, KindFacts DEF Edit!Values, Edit!Stored, Edit!Fields
<1> QED BY <1>2, <1>3, <1>4

\* A form or a PATCH handler: what it understands of a field that was left alone is
\* the field, and what it does not send is a count of zero or was left alone.
LEMMA Saving ==
  ASSUME EditInv, NEW p \in Procs, NEW k \in Edit!Kinds \ {"platform"},
         NEW fields \in SUBSET Edit!Fields[k], Edit!Editing(p, k, fields),
         NEW boxes, NEW form \in Edit!Submissions(p, boxes), NEW understood, NEW patch,
         Edit!MergePatch(p, k, patch, understood, Edit!Changed(asked[p].form, form), "done"),
         excused' = IF asked[p].stale THEN excused \union {"overlap"} ELSE excused,
         UNCHANGED <<about, cache, lapsed>>,
         DOMAIN patch \subseteq fields,
         \A f \in DOMAIN patch : patch[f] = understood[f] /\ patch[f] \in Edit!Stored(k),
         \A f \in fields : form[f] = asked[p].form[f] => understood[f] = form[f],
         \A f \in fields \ DOMAIN patch :
           form[f] = asked[p].form[f] \/ (k = "userspace" /\ f = "gpu" /\ understood[f] = 0),
         k = "workspace" => understood["gpu"] \in
           {asked[p].form["gpu"], 0, Edit!GPUResource(asked[p].config) + 1}
  PROVE  EditInv'
<1> DEFINE shown    == asked[p].form
           intended == Edit!Changed(shown, form)
<1>1. at[p] = "editing" /\ asked[p].kind = k /\ DOMAIN shown = fields
  BY DEF Edit!Editing
<1>2. form = [f \in fields |-> form[f]]
  BY <1>1, Submitted DEF EditInv
<1>3. intended = {f \in fields : form[f] # shown[f]}
  BY <1>2 DEF Edit!Changed
<1>4. ASSUME "overlap" \notin excused', obj[k] # None, NEW f \in fields
      PROVE  shown[f] = obj[k][f] \/ Misread(k, f)
  <2>1. "overlap" \notin excused /\ ~asked[p].stale
    BY <1>4
  <2> QED BY <1>1, <1>4, <2>1 DEF EditInv, FormsMatch
<1> HIDE DEF shown, intended
<1>5. ASSUME "overlap" \notin excused', obj[k] # None, NEW f \in Edit!Fields[k]
      PROVE  \/ f \in intended /\ f \in DOMAIN patch /\ patch[f] = understood[f]
             \/ f \in intended /\ k = "userspace" /\ f = "gpu" /\ understood[f] = 0
             \/ f \notin intended /\ (f \in DOMAIN patch => patch[f] = obj[k][f] \/ Misread(k, f))
  <2>1. CASE f \in intended /\ f \in DOMAIN patch
    BY <2>1
  <2>2. CASE f \in intended /\ f \notin DOMAIN patch
    BY <1>3, <2>2 DEF shown
  <2>3. CASE f \notin intended /\ f \in DOMAIN patch
    BY <1>3, <1>4, <1>5, <2>3 DEF shown
  <2> QED BY <2>1, <2>2, <2>3
<1>6. ASSUME "overlap" \notin excused', OneName', obj[k] # None,
             k = "workspace", "gpu" \in DOMAIN patch
      PROVE  patch["gpu"] \in {0, Edit!GPUResource(obj["platform"]) + 1}
  <2>1. "overlap" \notin excused /\ OneName
    BY <1>6 DEF OneName
  <2>2. /\ obj["workspace"]["gpu"] \in {0, Edit!GPUResource(obj["platform"]) + 1}
        /\ Edit!GPUResource(asked[p].config) = Edit!GPUResource(obj["platform"])
    BY <1>1, <1>6, <2>1 DEF EditInv, NamesAgree, OneName
  <2>3. shown["gpu"] = obj["workspace"]["gpu"]
    BY <1>4, <1>6, <2>1 DEF Misread, OneName
  <2>4. patch["gpu"] = understood["gpu"]
    BY <1>6
  <2> QED BY <1>6, <2>2, <2>3, <2>4 DEF shown
<1>7. excused \subseteq excused' /\ at[p] # "saved"
  BY <1>1
<1>8. \A f \in Edit!Fields[k] \cap DOMAIN patch : patch[f] \in Edit!Stored(k)
  OBVIOUS
<1>9. Edit!MergePatch(p, k, patch, understood, intended, "done")
  BY DEF intended, shown
<1> QED BY <1>5, <1>6, <1>7, <1>8, <1>9, Merged

\* The forms and handlers that send what they were given.
LEMMA SavedAsGiven ==
  ASSUME EditInv, NEW p \in Procs, NEW k \in Edit!Kinds \ {"platform"},
         NEW fields \in SUBSET Edit!Fields[k], Edit!Editing(p, k, fields),
         NEW form \in Edit!Submissions(p, {}),
         Edit!MergePatch(p, k, form, form, Edit!Changed(asked[p].form, form), "done"),
         excused' = IF asked[p].stale THEN excused \union {"overlap"} ELSE excused,
         UNCHANGED <<about, cache, lapsed>>,
         k = "workspace" => "gpu" \in fields
  PROVE  EditInv'
<1>1. at[p] = "editing" /\ asked[p].kind = k /\ DOMAIN asked[p].form = fields
  BY DEF Edit!Editing
<1>2. /\ form = [f \in fields |-> form[f]]
      /\ \A f \in fields : form[f] = asked[p].form[f] \/ form[f] \in Edit!Choices(p, f)
  BY <1>1, Submitted DEF EditInv
<1>3. ASSUME NEW f \in fields PROVE form[f] \in Edit!Stored(k)
  BY <1>1, <1>2, AskedParts, ChoicesType DEF EditInv
<1>4. k = "workspace" => form["gpu"] \in
           {asked[p].form["gpu"], 0, Edit!GPUResource(asked[p].config) + 1}
  <2> SUFFICES ASSUME k = "workspace"
               PROVE  form["gpu"] \in {asked[p].form["gpu"], 0, Edit!GPUResource(asked[p].config) + 1}
    OBVIOUS
  <2>1. form["gpu"] = asked[p].form["gpu"] \/ form["gpu"] \in Edit!Choices(p, "gpu")
    BY <1>2
  <2> QED BY <1>1, <2>1 DEF Edit!Choices
<1>5. DOMAIN form = fields
  BY <1>2
<1> QED BY <1>3, <1>4, <1>5, Saving

\* Membership, keys, a registry by PATCH and the resources of a Workspace.
LEMMA PlainSaves ==
  ASSUME EditInv, NEW p \in Procs,
         \/ Edit!SaveMembership(p) \/ Edit!PatchMembership(p) \/ Edit!SaveKeys(p)
         \/ Edit!PatchRegistry(p) \/ Edit!SaveResources(p)
  PROVE  EditInv'
<1>1. ASSUME NEW k \in Edit!Kinds \ {"platform"}, NEW fields \in SUBSET Edit!Fields[k],
             k = "workspace" => "gpu" \in fields, Edit!Editing(p, k, fields),
             NEW form \in Edit!Submissions(p, {}),
             Edit!MergePatch(p, k, form, form, Edit!Changed(asked[p].form, form), "done"),
             excused' = IF asked[p].stale THEN excused \union {"overlap"} ELSE excused,
             UNCHANGED <<about, cache, lapsed>>
      PROVE  EditInv'
  BY <1>1, SavedAsGiven
<1>2. CASE Edit!SaveMembership(p) \/ Edit!PatchMembership(p)
  <2>1. "userspace" \in Edit!Kinds /\ Edit!Membership \in SUBSET Edit!Fields["userspace"]
    BY KindFacts DEF Edit!Membership, Edit!Fields
  <2> QED BY <1>1, <1>2, <2>1 DEF Edit!SaveMembership, Edit!PatchMembership, Edit!Save, Edit!Same
<1>3. CASE Edit!SaveKeys(p)
  <2>1. "userspace" \in Edit!Kinds /\ Edit!Keys \in SUBSET Edit!Fields["userspace"]
    BY KindFacts DEF Edit!Keys, Edit!Fields
  <2> QED BY <1>1, <1>3, <2>1 DEF Edit!SaveKeys, Edit!Save, Edit!Same
<1>4. CASE Edit!PatchRegistry(p)
  <2>1. "registry" \in Edit!Kinds /\ Edit!Fields["registry"] \in SUBSET Edit!Fields["registry"]
    BY KindFacts
  <2> QED BY <1>1, <1>4, <2>1 DEF Edit!PatchRegistry, Edit!RegistryPatch, Edit!Save, Edit!Same
<1>5. CASE Edit!SaveResources(p)
  <2>1. /\ "workspace" \in Edit!Kinds /\ Edit!Fields["workspace"] \in SUBSET Edit!Fields["workspace"]
        /\ "gpu" \in Edit!Fields["workspace"]
    BY KindFacts DEF Edit!Fields
  <2> QED BY <1>1, <1>5, <2>1 DEF Edit!SaveResources, Edit!Save, Edit!Same
<1> QED BY <1>2, <1>3, <1>4, <1>5

\* The quota forms: an empty amount is the default one, and a GPU count of zero is
\* not sent.
LEMMA QuotaSaves ==
  ASSUME EditInv, NEW p \in Procs, Edit!SaveQuota(p) \/ Edit!PatchQuota(p)
  PROVE  EditInv'
<1> DEFINE shown == asked[p].form
<1>1. "userspace" \in Edit!Kinds /\ Edit!Quota \in SUBSET Edit!Fields["userspace"]
  BY KindFacts DEF Edit!Quota, Edit!Fields
<1>2. ASSUME NEW boxes, NEW form \in Edit!Submissions(p, boxes), boxes \in {{}, {"amounts"}},
             Edit!Editing(p, "userspace", Edit!Quota),
             NEW understood, understood \in {form, Edit!QuotaFromForm(form)},
             boxes # {} => understood = Edit!QuotaFromForm(form),
             Edit!MergePatch(p, "userspace", Edit!QuotaPatch(understood), understood,
                             Edit!Changed(shown, form), "done"),
             excused' = IF asked[p].stale THEN excused \union {"overlap"} ELSE excused,
             UNCHANGED <<about, cache, lapsed>>
      PROVE  EditInv'
  <2>1. at[p] = "editing" /\ asked[p].kind = "userspace" /\ DOMAIN shown = Edit!Quota
    BY <1>2 DEF Edit!Editing
  <2>2. shown \in [Edit!Quota -> 0 .. 2]
    BY <2>1, AskedParts DEF EditInv, Edit!Stored
  <2>3. /\ form = [f \in Edit!Quota |-> form[f]]
        /\ \A f \in Edit!Quota : \/ form[f] = shown[f] \/ form[f] \in Edit!Choices(p, f)
                                 \/ form[f] = 3 /\ f \in boxes
    BY <2>1, Submitted DEF EditInv, Edit!Emptied
  <2>4. ASSUME NEW f \in Edit!Quota PROVE form[f] \in 0 .. 2 \/ (form[f] = 3 /\ f \in boxes)
    BY <1>1, <2>1, <2>2, <2>3, ChoicesType DEF EditInv, Edit!Stored
  <2>5. /\ understood = [f \in Edit!Quota |-> understood[f]]
        /\ \A f \in Edit!Quota : form[f] # 3 => understood[f] = form[f]
        /\ \A f \in Edit!Quota : understood[f] \in 0 .. 2
    <3>1. CASE understood = form
      <4>1. ASSUME NEW f \in Edit!Quota, form[f] = 3, f \in boxes PROVE form[f] \in 0 .. 2
        <5>1. f = "amounts" /\ form = Edit!QuotaFromForm(form)
          BY <1>2, <3>1, <4>1
        <5>2. form["amounts"] = 1
          BY <2>3, <4>1, <5>1 DEF Edit!QuotaFromForm, Edit!Emptied
        <5> QED BY <4>1, <5>1, <5>2
      <4> QED BY <2>3, <2>4, <3>1, <4>1
    <3>2. CASE understood = Edit!QuotaFromForm(form)
      <4> DEFINE v == IF form["amounts"] = 3 THEN 1 ELSE form["amounts"]
      <4>1. understood = [form EXCEPT !["amounts"] = v]
        BY <3>2 DEF Edit!QuotaFromForm, Edit!Emptied
      <4>2. "amounts" \in Edit!Quota
        BY DEF Edit!Quota
      <4>3. v \in 0 .. 2 /\ (form["amounts"] # 3 => v = form["amounts"])
        BY <2>4, <4>2
      <4>4. ASSUME NEW f \in Edit!Quota, f # "amounts" PROVE form[f] \in 0 .. 2
        BY <1>2, <2>4, <4>4
      <4> HIDE DEF v
      <4>5. understood["amounts"] = v /\ \A f \in Edit!Quota \ {"amounts"} : understood[f] = form[f]
        BY <2>3, <4>1, <4>2
      <4>6. understood = [f \in Edit!Quota |-> understood[f]]
        BY <2>3, <4>1
      <4> QED BY <4>3, <4>4, <4>5, <4>6
    <3> QED BY <1>2, <3>1, <3>2
  <2> DEFINE patch == Edit!QuotaPatch(understood)
  <2>6. /\ DOMAIN patch = {f \in Edit!Quota : f = "gpu" => understood["gpu"] # 0}
        /\ \A f \in DOMAIN patch : patch[f] = understood[f]
    BY <2>5 DEF Edit!QuotaPatch, Edit!Only
  <2> HIDE DEF patch
  <2>7. \A f \in DOMAIN patch : patch[f] = understood[f] /\ patch[f] \in Edit!Stored("userspace")
    BY <2>5, <2>6 DEF Edit!Stored
  <2>8. \A f \in Edit!Quota : form[f] = shown[f] => understood[f] = form[f]
    BY <2>2, <2>5
  <2>9. \A f \in Edit!Quota \ DOMAIN patch : f = "gpu" /\ understood[f] = 0
    BY <2>6
  <2>10. DOMAIN patch \subseteq Edit!Quota
    BY <2>6
  <2>11. Edit!MergePatch(p, "userspace", patch, understood, Edit!Changed(shown, form), "done")
    BY <1>2 DEF patch
  <2> QED BY <1>1, <1>2, <2>7, <2>8, <2>9, <2>10, <2>11, Saving
<1>3. CASE Edit!SaveQuota(p)
  BY <1>2, <1>3 DEF Edit!SaveQuota, Edit!Save
<1>4. CASE Edit!PatchQuota(p)
  BY <1>2, <1>4 DEF Edit!PatchQuota, Edit!Save, Edit!Same
<1> QED BY <1>3, <1>4

\* The registry form: an empty sync field is the default one, and every field is sent.
LEMMA RegistrySaves == ASSUME EditInv, NEW p \in Procs, Edit!SaveRegistry(p) PROVE EditInv'
<1> DEFINE shown  == asked[p].form
           fields == Edit!Fields["registry"]
<1>1. "registry" \in Edit!Kinds /\ "sync" \in fields
  BY KindFacts DEF Edit!Fields
<1>2. PICK form \in Edit!Submissions(p, {"sync"}) :
        Edit!MergePatch(p, "registry", Edit!RegistryFromForm(form), Edit!RegistryFromForm(form),
                        Edit!Changed(shown, form), "done")
  BY DEF Edit!SaveRegistry, Edit!Save, Edit!RegistryPatch
<1>3. /\ Edit!Editing(p, "registry", fields) /\ UNCHANGED <<about, cache, lapsed>>
      /\ excused' = IF asked[p].stale THEN excused \union {"overlap"} ELSE excused
  BY DEF Edit!SaveRegistry, Edit!Save
<1>4. at[p] = "editing" /\ asked[p].kind = "registry" /\ DOMAIN shown = fields
  BY <1>3 DEF Edit!Editing
<1>5. shown \in [fields -> 0 .. 2]
  BY <1>4, AskedParts DEF EditInv, Edit!Stored
<1>6. /\ form = [f \in fields |-> form[f]]
      /\ \A f \in fields : \/ form[f] = shown[f] \/ form[f] \in Edit!Choices(p, f)
                           \/ form[f] = 3 /\ f = "sync"
  BY <1>4, Submitted DEF EditInv, Edit!Emptied
<1>7. ASSUME NEW f \in fields PROVE form[f] \in 0 .. 2 \/ (form[f] = 3 /\ f = "sync")
  BY <1>4, <1>5, <1>6, ChoicesType DEF EditInv, Edit!Stored
<1> DEFINE v == IF form["sync"] = 3 THEN 1 ELSE form["sync"]
           understood == Edit!RegistryFromForm(form)
<1>8. understood = [form EXCEPT !["sync"] = v]
  BY DEF Edit!RegistryFromForm, Edit!Emptied
<1>9. v \in 0 .. 2 /\ (form["sync"] # 3 => v = form["sync"])
  BY <1>1, <1>7
<1> HIDE DEF v, understood
<1>10. /\ DOMAIN understood = fields
       /\ understood["sync"] = v /\ \A f \in fields \ {"sync"} : understood[f] = form[f]
  BY <1>1, <1>6, <1>8
<1> HIDE DEF fields
<1>11. \A f \in fields : understood[f] \in 0 .. 2
  BY <1>7, <1>9, <1>10
<1>12. \A f \in fields : understood[f] \in Edit!Stored("registry")
  BY <1>11 DEF Edit!Stored
<1>13. \A f \in fields : form[f] = shown[f] => understood[f] = form[f]
  BY <1>5, <1>7, <1>9, <1>10
<1>14. Edit!MergePatch(p, "registry", understood, understood, Edit!Changed(shown, form), "done")
  BY <1>2 DEF understood
<1> QED BY <1>1, <1>3, <1>10, <1>12, <1>13, <1>14, Saving DEF fields

\* Every field of a catalog entry is sent but an empty image.
LEMMA ImagePatchType ==
  ASSUME NEW edit, DOMAIN edit = Edit!Fields["image"]
  PROVE  /\ DOMAIN Edit!ImagePatch(edit) = {f \in Edit!Fields["image"] : f = "image" => edit["image"] # 0}
         /\ \A f \in DOMAIN Edit!ImagePatch(edit) : Edit!ImagePatch(edit)[f] = edit[f]
  BY DEF Edit!ImagePatch, Edit!Only

\* The catalog form: the image is required, and a form that shows none sends none.
LEMMA CatalogSaves == ASSUME EditInv, NEW p \in Procs, Edit!SaveCatalog(p) PROVE EditInv'
<1> DEFINE shown  == asked[p].form
           fields == Edit!Fields["image"]
<1>1. "image" \in Edit!Kinds /\ fields \in SUBSET Edit!Fields["image"]
  BY KindFacts
<1>2. PICK form \in Edit!Submissions(p, {}) :
        Edit!MergePatch(p, "image", Edit!ImagePatch(form), form, Edit!Changed(shown, form), "done")
  BY DEF Edit!SaveCatalog, Edit!Save, Edit!Same
<1>3. /\ Edit!Editing(p, "image", fields) /\ UNCHANGED <<about, cache, lapsed>>
      /\ excused' = IF asked[p].stale THEN excused \union {"overlap"} ELSE excused
  BY DEF Edit!SaveCatalog, Edit!Save
<1>4. at[p] = "editing" /\ asked[p].kind = "image" /\ DOMAIN shown = fields
  BY <1>3 DEF Edit!Editing
<1>5. shown \in [fields -> Edit!Stored("image")]
  BY <1>4, AskedParts DEF EditInv
<1>6. /\ form = [f \in fields |-> form[f]]
      /\ \A f \in fields : form[f] = shown[f] \/ form[f] \in Edit!Choices(p, f)
  BY <1>4, Submitted DEF EditInv
<1>7. ASSUME NEW f \in fields PROVE form[f] \in Edit!Stored("image")
  BY <1>4, <1>5, <1>6, ChoicesType DEF EditInv
<1>8. form["image"] = 0 => form["image"] = shown["image"]
  <2>1. "image" \in fields
    BY DEF Edit!Fields
  <2>2. form["image"] = shown["image"] \/ form["image"] = 1
    BY <1>6, <2>1 DEF Edit!Choices
  <2> QED BY <2>2
<1> DEFINE patch == Edit!ImagePatch(form)
<1>9. DOMAIN patch = {f \in fields : f = "image" => form["image"] # 0}
      /\ \A f \in DOMAIN patch : patch[f] = form[f]
  BY <1>6, ImagePatchType
<1> HIDE DEF patch, fields
<1>10. /\ DOMAIN patch \subseteq fields
       /\ \A f \in DOMAIN patch : patch[f] = form[f] /\ patch[f] \in Edit!Stored("image")
       /\ \A f \in fields \ DOMAIN patch : form[f] = shown[f]
  BY <1>7, <1>8, <1>9
<1>11. Edit!MergePatch(p, "image", patch, form, Edit!Changed(shown, form), "done")
  BY <1>2 DEF patch
<1> QED BY <1>1, <1>3, <1>10, <1>11, Saving DEF fields

\* handleAPIPatchWorkspaceImage loses fields, which is known of it.
LEMMA ImagePatched == ASSUME EditInv, NEW p \in Procs, Edit!PatchImage(p) PROVE EditInv'
<1>1. PICK f \in {"image", "labels", "deprecated"} :
        Edit!MergePatch(p, "image", Edit!ImagePatch([Edit!Blank("image") EXCEPT ![f] = 1]),
                        [Edit!Blank("image") EXCEPT ![f] = 1], {f}, "done")
  BY DEF Edit!PatchImage
<1>2. /\ at[p] = "idle" /\ UNCHANGED <<about, cache, lapsed>>
      /\ excused' = excused \union {"apiPatched"}
  BY DEF Edit!PatchImage
<1> DEFINE edit  == [Edit!Blank("image") EXCEPT ![f] = 1]
           patch == Edit!ImagePatch(edit)
<1>3. DOMAIN edit = Edit!Fields["image"] /\ \A g \in Edit!Fields["image"] : edit[g] \in 0 .. 1
  BY DEF Edit!Blank
<1> HIDE DEF edit
<1>4. \A g \in Edit!Fields["image"] \cap DOMAIN patch : patch[g] \in Edit!Stored("image")
  BY <1>3, ImagePatchType DEF Edit!Stored
<1> HIDE DEF patch
<1>5. "image" \in Edit!Kinds
  BY KindFacts
<1>6. Edit!MergePatch(p, "image", patch, edit, {f}, "done")
  BY <1>1 DEF patch, edit
<1> QED BY <1>2, <1>4, <1>5, <1>6, Merged

\* One field, which was meant.
LEMMA OnboardingCompleted == ASSUME EditInv, NEW p \in Procs, Edit!CompleteOnboarding(p) PROVE EditInv'
<1> DEFINE patch == [onboarded |-> 1]
<1>1. /\ Edit!MergePatch(p, "userspace", patch, patch, {"onboarded"}, "done")
      /\ at[p] = "idle" /\ UNCHANGED <<about, cache, lapsed, excused>>
  BY DEF Edit!CompleteOnboarding
<1>2. DOMAIN patch = {"onboarded"} /\ patch["onboarded"] = 1
  OBVIOUS
<1>3. "userspace" \in Edit!Kinds /\ 1 \in Edit!Stored("userspace")
  BY KindFacts DEF Edit!Stored
<1> HIDE DEF patch
<1>4. \A f \in Edit!Fields["userspace"] \cap DOMAIN patch : patch[f] \in Edit!Stored("userspace")
  BY <1>2, <1>3
<1>5. \A f \in Edit!Fields["userspace"] :
        \/ f \in {"onboarded"} /\ f \in DOMAIN patch /\ patch[f] = patch[f]
        \/ f \notin {"onboarded"} /\ f \notin DOMAIN patch
  BY <1>2
<1> QED BY <1>1, <1>3, <1>4, <1>5, Merged

\* An annotation is no field of the forms.
LEMMA SyncForced == ASSUME EditInv, NEW p \in Procs, Edit!ForceSync(p) PROVE EditInv'
<1>1. /\ at[p] = "idle" /\ at' = [at EXCEPT ![p] = "done"]
      /\ UNCHANGED <<about, obj, asked, cache, lapsed, meant, excused>>
  BY DEF Edit!ForceSync
<1> QED BY <1>1, Ended

-----------------------------------------------------------------------------
(* The settings *)

\* What the settings form sends: its fields, and the logo when one is uploaded.
LEMMA SettingsPatched ==
  ASSUME EditInv, NEW p \in Procs, Edit!Editing(p, "platform", {"labels", "gpuName"}),
         NEW form \in Edit!Submissions(p, {}), NEW upload \in SUBSET {"logo"}, NEW update,
         DOMAIN update = {"labels", "gpuName"} \union upload,
         update["labels"] = form["labels"], update["gpuName"] = form["gpuName"],
         \A f \in upload : update[f] \in 0 .. 1, obj["platform"] # None,
         Edit!MergePatch(p, "platform", update, update,
                         Edit!Changed(asked[p].form, form) \union upload, "saved"),
         excused \subseteq excused', asked[p].stale => "overlap" \in excused',
         Edit!Renaming(update) => "renamed" \in excused',
         UNCHANGED <<about, cache, lapsed>>
  PROVE  EditInv'
<1> DEFINE shown  == asked[p].form
           fields == {"labels", "gpuName"}
           set    == Edit!Changed(shown, form) \union upload
<1>1. at[p] = "editing" /\ asked[p].kind = "platform" /\ DOMAIN shown = fields
  BY DEF Edit!Editing
<1> HIDE DEF fields
<1>2. /\ form = [f \in fields |-> form[f]]
      /\ \A f \in fields : form[f] = shown[f] \/ form[f] \in Edit!Choices(p, f)
  BY <1>1, Submitted DEF EditInv
<1>3. shown \in [fields -> Edit!Stored("platform")]
  BY <1>1, AskedParts DEF EditInv
<1>4. "platform" \in Edit!Kinds /\ Edit!Fields["platform"] = fields \union {"logo"}
  BY KindFacts DEF Edit!Fields, fields
<1>5. ASSUME NEW f \in fields PROVE form[f] \in Edit!Stored("platform")
  BY <1>1, <1>2, <1>3, <1>4, ChoicesType DEF EditInv
<1>6. set = {f \in fields : form[f] # shown[f]} \union upload
  BY <1>2 DEF Edit!Changed
<1>7. \A f \in fields : update[f] = form[f]
  BY DEF fields
<1> HIDE DEF shown, set
<1>8. ASSUME "overlap" \notin excused', NEW f \in fields
      PROVE  shown[f] = obj["platform"][f] \/ Misread("platform", f)
  BY <1>1, <1>8 DEF EditInv, FormsMatch, shown
<1>9. ASSUME NEW f \in DOMAIN update PROVE update[f] \in Edit!Stored("platform")
  BY <1>5, <1>7 DEF Edit!Stored, fields
<1>10. ASSUME "overlap" \notin excused', NEW f \in Edit!Fields["platform"]
       PROVE  \/ f \in set /\ f \in DOMAIN update /\ update[f] = update[f]
              \/ /\ f \notin set
                 /\ (f \in DOMAIN update => update[f] = obj["platform"][f] \/ Misread("platform", f))
  <2>1. CASE f \in fields
    BY <1>6, <1>7, <1>8, <1>10, <2>1 DEF fields
  <2>2. CASE f = "logo"
    BY <1>6, <2>2 DEF fields
  <2> QED BY <1>4, <2>1, <2>2
<1>11. OneName' => update["gpuName"] = Edit!GPUResource(obj["platform"])
  BY DEF Edit!Renaming, OneName
<1>12. Edit!MergePatch(p, "platform", update, update, set, "saved")
  BY DEF set, shown
<1> QED BY <1>1, <1>4, <1>9, <1>10, <1>11, <1>12, Merged DEF fields

\* The form goes on to the create that follows a patch of nothing.
LEMMA CreateTried ==
  ASSUME EditInv, NEW p \in Procs, at[p] = "editing", asked[p].kind = "platform",
         NEW fields \in SUBSET Edit!Fields["platform"], NEW update \in [fields -> 0 .. 1],
         at' = [at EXCEPT ![p] = "creating"], asked' = [asked EXCEPT ![p].form = update],
         UNCHANGED <<about, obj, cache, lapsed, meant, excused>>
  PROVE  EditInv'
<1> DEFINE r == [asked[p] EXCEPT !.form = update]
<1>1. asked' = [asked EXCEPT ![p] = r]
  OBVIOUS
<1>2. /\ asked[p].config \in Edit!Objects("platform") \union {None} /\ asked[p].stale \in BOOLEAN
      /\ asked[p] \in Edit!Readings
  BY AskedParts DEF EditInv
<1>3. PICK kind, form, config, stale :
        asked[p] = [kind |-> kind, form |-> form, config |-> config, stale |-> stale]
  <2>1. asked[p] = [kind |-> asked[p].kind, form |-> asked[p].form,
                    config |-> asked[p].config, stale |-> asked[p].stale]
    BY <1>2, ReadingParts
  <2> QED BY <2>1
<1>4. kind = "platform" /\ config = asked[p].config /\ stale = asked[p].stale
  BY <1>3
<1>5. r = [kind |-> kind, form |-> update, config |-> config, stale |-> stale]
  BY <1>3
<1>6. r.kind = "platform"
  BY <1>4, <1>5
<1> HIDE DEF r
<1>7. update \in [fields -> Edit!Stored("platform")]
  BY DEF Edit!Stored
<1>8. r \in Edit!Readings
  BY <1>2, <1>4, <1>5, <1>7, KindFacts, ReadingType
<1>9. r # None
  BY <1>8, NoneOfEdits DEF Edit!NoneAssumption
<1>10. /\ at'[p] = "creating" /\ asked'[p] = r
       /\ \A q \in Procs \ {p} : at'[q] = at[q] /\ asked'[q] = asked[q]
  BY <1>1 DEF EditInv, EditTypes
<1>11. EditTypes'
  BY <1>1, <1>8, <1>9, <1>10 DEF EditInv, EditTypes
<1>12. StagesHaveTheirKind' /\ CacheIsDue'
  BY <1>6, <1>10 DEF EditInv, StagesHaveTheirKind, CacheIsDue, Edit!Unread
<1>13. ASSUME "overlap" \notin excused' PROVE FormsMatch'
  BY <1>10, <1>13 DEF EditInv, FormsMatch, Misread, OneName
<1>14. ASSUME "overlap" \notin excused' PROVE NamesAgree'
  BY <1>10, <1>14 DEF EditInv, NamesAgree, OneName
<1>15. ASSUME "overlap" \notin excused' PROVE FieldsKept'
  BY <1>15 DEF EditInv, FieldsKept, Edit!KnownLoss, OneName
<1> QED BY <1>11, <1>12, <1>13, <1>14, <1>15 DEF EditInv

\* The settings form: its patch, or the create to come.
LEMMA SettingsSaved == ASSUME EditInv, NEW p \in Procs, Edit!SaveSettings(p) PROVE EditInv'
<1>1. /\ Edit!Editing(p, "platform", {"labels", "gpuName"}) /\ UNCHANGED <<about, cache, lapsed>>
      /\ at[p] = "editing" /\ asked[p].kind = "platform" /\ DOMAIN asked[p].form = {"labels", "gpuName"}
  BY DEF Edit!SaveSettings, Edit!Editing
<1> DEFINE Upload(logo) == {f \in {"logo"} : logo # {}}
           Update(form, logo) ==
             [f \in {"labels", "gpuName"} \union Upload(logo) |->
                IF f = "logo" THEN CHOOSE v \in logo : TRUE ELSE form[f]]
<1>2. PICK form \in Edit!Submissions(p, {}), logo \in {{}} \union {{v} : v \in 0 .. 1} :
        \/ /\ obj["platform"] # None
           /\ Edit!MergePatch(p, "platform", Update(form, logo), Update(form, logo),
                              Edit!Changed(asked[p].form, form) \union Upload(logo), "saved")
           /\ excused' = excused \union {e \in {"overlap"} : asked[p].stale}
                                 \union {e \in {"renamed"} : Edit!Renaming(Update(form, logo))}
        \/ /\ obj["platform"] = None
           /\ at' = [at EXCEPT ![p] = "creating"]
           /\ asked' = [asked EXCEPT ![p].form = Update(form, logo)]
           /\ UNCHANGED <<obj, meant, excused>>
  BY DEF Edit!SaveSettings
<1> DEFINE upload == Upload(logo)
           update == Update(form, logo)
<1>3. \A f \in upload : (CHOOSE v \in logo : TRUE) \in 0 .. 1
  OBVIOUS
<1>4. /\ DOMAIN update = {"labels", "gpuName"} \union upload /\ upload \in SUBSET {"logo"}
      /\ update["labels"] = form["labels"] /\ update["gpuName"] = form["gpuName"]
      /\ \A f \in upload : update[f] \in 0 .. 1
  BY <1>3
<1>5. CASE /\ obj["platform"] # None
           /\ Edit!MergePatch(p, "platform", update, update,
                              Edit!Changed(asked[p].form, form) \union upload, "saved")
           /\ excused' = excused \union {e \in {"overlap"} : asked[p].stale}
                                 \union {e \in {"renamed"} : Edit!Renaming(update)}
  <2> HIDE DEF upload, update
  <2>1. /\ excused \subseteq excused' /\ asked[p].stale => "overlap" \in excused'
        /\ Edit!Renaming(update) => "renamed" \in excused'
    BY <1>5
  <2> QED BY <1>1, <1>4, <1>5, <2>1, SettingsPatched
<1>6. CASE /\ obj["platform"] = None
           /\ at' = [at EXCEPT ![p] = "creating"]
           /\ asked' = [asked EXCEPT ![p].form = update]
           /\ UNCHANGED <<obj, meant, excused>>
  <2> DEFINE fields == {"labels", "gpuName"} \union upload
  <2>1. update = [f \in fields |-> update[f]]
    OBVIOUS
  <2> HIDE DEF upload, update
  <2>2. \A f \in {"labels", "gpuName"} : form[f] = asked[p].form[f] \/ form[f] \in Edit!Choices(p, f)
    BY <1>1, Submitted DEF EditInv
  <2>3. {"labels", "gpuName"} \subseteq Edit!Fields["platform"]
        /\ fields \in SUBSET Edit!Fields["platform"]
    BY <1>4 DEF Edit!Fields
  <2>4. \A f \in {"labels", "gpuName"} : asked[p].form[f] \in Edit!Stored("platform")
    BY <1>1, AskedParts DEF EditInv
  <2>5. \A f \in {"labels", "gpuName"} : form[f] \in Edit!Stored("platform")
    BY <1>1, <2>2, <2>3, <2>4, ChoicesType DEF EditInv
  <2>6. \A f \in fields : update[f] \in 0 .. 1
    BY <1>4, <2>5 DEF Edit!Stored
  <2>7. update \in [fields -> 0 .. 1]
    BY <2>1, <2>6
  <2> QED BY <1>1, <1>6, <2>3, <2>7, CreateTried
<1> QED BY <1>2, <1>5, <1>6

\* A create gives every field the value it was meant to have.
LEMMA CreatedWith ==
  ASSUME EditInv, NEW p \in Procs, at[p] # "saved", NEW k \in Edit!Kinds \ {"workspace"},
         NEW next \in {"saved", "done"}, k = "platform" => next = "saved", Edit!Finish(p, k, next),
         NEW o \in Edit!Objects(k),
         obj' = [obj EXCEPT ![k] = o], meant' = [meant EXCEPT ![k] = o],
         UNCHANGED <<about, cache, lapsed>>, excused \subseteq excused',
         k = "platform" /\ OneName' =>
           Edit!GPUResource(o) = Edit!GPUResource(obj["platform"])
  PROVE  EditInv'
<1>1. /\ DOMAIN obj' = Edit!Kinds /\ DOMAIN meant' = Edit!Kinds
      /\ obj'[k] = o /\ meant'[k] = o
      /\ \A j \in Edit!Kinds \ {k} : obj'[j] = obj[j] /\ meant'[j] = meant[j]
  BY DEF EditInv, EditTypes
<1> QED BY <1>1, Written

\* The blanks that the settings' create fills in.
LEMMA SettingsCreated == ASSUME EditInv, NEW p \in Procs, Edit!CreateSettings(p) PROVE EditInv'
<1>1. at[p] = "creating" /\ asked[p].kind = "platform" /\ UNCHANGED <<about, cache, lapsed>>
  BY DEF Edit!CreateSettings, EditInv, StagesHaveTheirKind
<1> DEFINE fresh == [f \in Edit!Fields["platform"] |->
                       IF f \in DOMAIN asked[p].form THEN asked[p].form[f] ELSE 0]
<1>2. CASE obj["platform"] # None
  BY <1>1, <1>2, Ended DEF Edit!CreateSettings
<1>3. CASE obj["platform"] = None
  <2>1. /\ obj' = [obj EXCEPT !["platform"] = fresh] /\ meant' = [meant EXCEPT !["platform"] = fresh]
        /\ excused' = excused \union {e \in {"renamed"} : Edit!Renaming(fresh)}
        /\ Edit!Finish(p, "platform", "saved")
    BY <1>3 DEF Edit!CreateSettings
  <2>2. asked[p].form \in [DOMAIN asked[p].form -> Edit!Stored("platform")]
    BY <1>1, AskedParts DEF EditInv
  <2>3. 0 \in Edit!Stored("platform")
    BY DEF Edit!Stored
  <2>4. fresh \in Edit!Objects("platform")
    BY <2>2, <2>3 DEF Edit!Objects
  <2> HIDE DEF fresh
  <2>5. fresh # None
    BY <2>4, NoneOfEdits, KindFacts DEF Edit!NoneAssumption
  <2>6. OneName' => Edit!GPUResource(fresh) = Edit!GPUResource(obj["platform"])
    <3>1. Edit!GPUResource(fresh) = fresh["gpuName"]
      BY <2>5 DEF Edit!GPUResource
    <3>2. ASSUME OneName' PROVE ~Edit!Renaming(fresh)
      BY <2>1, <3>2 DEF OneName
    <3> QED BY <3>1, <3>2 DEF Edit!Renaming
  <2>7. excused \subseteq excused'
    BY <2>1
  <2> QED BY <1>1, <2>1, <2>4, <2>6, <2>7, KindFacts, CreatedWith
<1> QED BY <1>2, <1>3

-----------------------------------------------------------------------------
(* Objects come and go *)

\* A create of what is there writes nothing.
LEMMA CreatedFrom ==
  ASSUME EditInv, NEW p \in Procs, NEW k \in Edit!Kinds \ {"platform", "workspace"}, NEW specs,
         \A spec \in specs : \A f \in DOMAIN spec : spec[f] \in Edit!Stored(k),
         Edit!Created(p, k, specs)
  PROVE  EditInv'
<1>1. at[p] = "idle" /\ UNCHANGED <<about, cache, lapsed, excused>>
  BY DEF Edit!Created
<1>2. CASE obj[k] # None
  <2>1. at' = [at EXCEPT ![p] = "done"] /\ UNCHANGED <<obj, asked, meant>>
    BY <1>2 DEF Edit!Created
  <2> QED BY <1>1, <2>1, Ended
<1>3. CASE obj[k] = None
  <2> DEFINE O(spec) == [f \in Edit!Fields[k] |-> IF f \in DOMAIN spec THEN spec[f] ELSE 0]
  <2>1. PICK spec \in specs : obj' = [obj EXCEPT ![k] = O(spec)] /\ meant' = [meant EXCEPT ![k] = O(spec)]
    BY <1>3 DEF Edit!Created
  <2>2. Edit!Finish(p, k, "done")
    BY <1>3 DEF Edit!Created
  <2>3. 0 \in Edit!Stored(k)
    BY DEF Edit!Stored
  <2>4. O(spec) \in Edit!Objects(k)
    BY <2>3 DEF Edit!Objects
  <2> HIDE DEF O
  <2> QED BY <1>1, <2>1, <2>2, <2>4, CreatedWith
<1> QED BY <1>2, <1>3

\* The six creates, whose specs hold what can be stored.
LEMMA Creating ==
  ASSUME EditInv, NEW p \in Procs, Edit!Creates(p)
  PROVE  EditInv'
<1>1. /\ Edit!Stored("userspace") = 0 .. 2 /\ Edit!Stored("registry") = 0 .. 2
      /\ Edit!Stored("image") = 0 .. 1
      /\ {"userspace", "image", "registry"} \subseteq Edit!Kinds \ {"platform", "workspace"}
  BY KindFacts DEF Edit!Stored
<1>2. CASE Edit!CreateUserSpace(p)
  <2> DEFINE forms == [role : 0 .. 1, amounts : {0, 2, Edit!Emptied}, gpu : 0 .. 1]
             specs == {Edit!QuotaFromForm(form) : form \in forms}
  <2>1. ASSUME NEW form \in forms, NEW f \in DOMAIN Edit!QuotaFromForm(form)
        PROVE  Edit!QuotaFromForm(form)[f] \in 0 .. 2
    <3> DEFINE v == IF form["amounts"] = 3 THEN 1 ELSE form["amounts"]
    <3>1. PICK a \in 0 .. 1, b \in {0, 2, 3}, c \in 0 .. 1 : form = [role |-> a, amounts |-> b, gpu |-> c]
      BY DEF Edit!Emptied
    <3>2. /\ DOMAIN form = {"role", "amounts", "gpu"}
          /\ form["role"] \in 0 .. 1 /\ v \in 0 .. 2 /\ form["gpu"] \in 0 .. 1
      BY <3>1
    <3>3. Edit!QuotaFromForm(form) = [form EXCEPT !["amounts"] = v]
      BY DEF Edit!QuotaFromForm, Edit!Emptied
    <3> HIDE DEF v
    <3>4. f \in DOMAIN form
      BY <3>3
    <3> QED BY <3>2, <3>3, <3>4
  <2>2. \A spec \in specs : \A f \in DOMAIN spec : spec[f] \in Edit!Stored("userspace")
    BY <1>1, <2>1
  <2>3. Edit!Created(p, "userspace", specs)
    BY <1>2 DEF Edit!CreateUserSpace
  <2> HIDE DEF specs
  <2> QED BY <1>1, <2>2, <2>3, CreatedFrom
<1>3. CASE Edit!CreateRegistry(p)
  <2> DEFINE forms == [aws : 0 .. 1, sync : {2, Edit!Emptied}, pullSecret : 0 .. 1]
             specs == {Edit!RegistryFromForm(form) : form \in forms}
  <2>1. ASSUME NEW form \in forms, NEW f \in DOMAIN Edit!RegistryFromForm(form)
        PROVE  Edit!RegistryFromForm(form)[f] \in 0 .. 2
    <3> DEFINE v == IF form["sync"] = 3 THEN 1 ELSE form["sync"]
    <3>1. PICK a \in 0 .. 1, b \in {2, 3}, c \in 0 .. 1 : form = [aws |-> a, sync |-> b, pullSecret |-> c]
      BY DEF Edit!Emptied
    <3>2. /\ DOMAIN form = {"aws", "sync", "pullSecret"}
          /\ form["aws"] \in 0 .. 1 /\ v \in 0 .. 2 /\ form["pullSecret"] \in 0 .. 1
      BY <3>1
    <3>3. Edit!RegistryFromForm(form) = [form EXCEPT !["sync"] = v]
      BY DEF Edit!RegistryFromForm, Edit!Emptied
    <3> HIDE DEF v
    <3>4. f \in DOMAIN form
      BY <3>3
    <3> QED BY <3>2, <3>3, <3>4
  <2>2. \A spec \in specs : \A f \in DOMAIN spec : spec[f] \in Edit!Stored("registry")
    BY <1>1, <2>1
  <2>3. Edit!Created(p, "registry", specs)
    BY <1>3 DEF Edit!CreateRegistry
  <2> HIDE DEF specs
  <2> QED BY <1>1, <2>2, <2>3, CreatedFrom
<1>4. CASE Edit!PostUserSpace(p)
  <2> DEFINE specs == [role : 0 .. 1]
  <2>1. \A spec \in specs : \A f \in DOMAIN spec : spec[f] \in 0 .. 2
    OBVIOUS
  <2>2. Edit!Created(p, "userspace", specs)
    BY <1>4 DEF Edit!PostUserSpace
  <2> HIDE DEF specs
  <2> QED BY <1>1, <2>1, <2>2, CreatedFrom
<1>5. CASE Edit!PostRegistry(p)
  <2> DEFINE specs == [aws : {1}, sync : 1 .. 2, pullSecret : 0 .. 1]
  <2>1. \A spec \in specs : \A f \in DOMAIN spec : spec[f] \in 0 .. 2
    OBVIOUS
  <2>2. Edit!Created(p, "registry", specs)
    BY <1>5 DEF Edit!PostRegistry
  <2> HIDE DEF specs
  <2> QED BY <1>1, <2>1, <2>2, CreatedFrom
<1>6. CASE Edit!CreateImage(p)
  <2> DEFINE specs == [image : {1}, labels : {1}, deprecateAt : 0 .. 1, allowRoot : 0 .. 1,
                       pullSecret : 0 .. 1]
  <2>1. \A spec \in specs : \A f \in DOMAIN spec : spec[f] \in 0 .. 1
    OBVIOUS
  <2>2. Edit!Created(p, "image", specs)
    BY <1>6 DEF Edit!CreateImage
  <2> HIDE DEF specs
  <2> QED BY <1>1, <2>1, <2>2, CreatedFrom
<1>7. CASE Edit!PostImage(p)
  <2> DEFINE specs == [image : {1}, labels : 0 .. 1, deprecated : 0 .. 1]
  <2>1. \A spec \in specs : \A f \in DOMAIN spec : spec[f] \in 0 .. 1
    OBVIOUS
  <2>2. Edit!Created(p, "image", specs)
    BY <1>7 DEF Edit!PostImage
  <2> HIDE DEF specs
  <2> QED BY <1>1, <2>1, <2>2, CreatedFrom
<1> QED BY <1>2, <1>3, <1>4, <1>5, <1>6, <1>7 DEF Edit!Creates

\* What is gone has no fields to keep.
LEMMA Deleting == ASSUME EditInv, NEW p \in Procs, Edit!Deletes(p) PROVE EditInv'
<1>1. PICK k \in Edit!Kinds \ {"platform", "workspace"} : Edit!Deleted(p, k)
  BY KindFacts DEF Edit!Deletes, Edit!DeleteUserSpace, Edit!DeleteImage, Edit!DeleteRegistry
<1>2. /\ at[p] = "idle" /\ Edit!Finish(p, k, "done") /\ obj' = [obj EXCEPT ![k] = None]
      /\ UNCHANGED <<about, cache, lapsed, meant, excused>>
  BY <1>1 DEF Edit!Deleted
<1>3. /\ DOMAIN obj' = Edit!Kinds /\ DOMAIN meant' = Edit!Kinds /\ obj'[k] = None
      /\ \A j \in Edit!Kinds \ {k} : obj'[j] = obj[j] /\ meant'[j] = meant[j]
  BY <1>2 DEF EditInv, EditTypes
<1> QED BY <1>2, <1>3, Written

-----------------------------------------------------------------------------

\* Nothing has been read, and every field has the value it was meant to have.
LEMMA EditInitial == ASSUME Edit!Init PROVE EditInv
<1>1. PICK c \in {None, Edit!Filled("platform")} :
        obj = [userspace |-> [Edit!Filled("userspace") EXCEPT !["role"] = 0, !["disabled"] = 0, !["key2"] = 0],
               image     |-> [Edit!Filled("image") EXCEPT !["deprecated"] = 0],
               registry  |-> Edit!Filled("registry"),
               platform  |-> c,
               workspace |-> [Edit!Filled("workspace") EXCEPT !["gpu"] = Edit!GPUResource(c) + 1]]
  BY DEF Edit!Init
<1>2. /\ DOMAIN obj = Edit!Kinds /\ obj["platform"] = c
      /\ obj["userspace"] = [Edit!Filled("userspace") EXCEPT !["role"] = 0, !["disabled"] = 0, !["key2"] = 0]
      /\ obj["image"] = [Edit!Filled("image") EXCEPT !["deprecated"] = 0]
      /\ obj["registry"] = Edit!Filled("registry")
      /\ obj["workspace"] = [Edit!Filled("workspace") EXCEPT !["gpu"] = Edit!GPUResource(c) + 1]
  BY <1>1, KindFacts
<1>3. ASSUME NEW k \in Edit!Kinds
      PROVE  Edit!Filled(k) \in [Edit!Fields[k] -> 0 .. 1] /\ \A f \in Edit!Fields[k] : Edit!Filled(k)[f] = 1
  BY DEF Edit!Filled
<1>4. Edit!GPUResource(c) \in 0 .. 1
  <2>1. c \in Edit!Objects("platform") \union {None}
    BY <1>3, KindFacts DEF Edit!Objects, Edit!Stored
  <2> QED BY <2>1, GPUResourceType
<1>5. "gpu" \in Edit!Fields["workspace"]
  BY DEF Edit!Fields
<1>6. /\ obj["workspace"] \in [Edit!Fields["workspace"] -> 0 .. 2]
      /\ obj["workspace"]["gpu"] = Edit!GPUResource(c) + 1
  BY <1>2, <1>3, <1>4, <1>5, KindFacts
<1>7. /\ obj["userspace"] \in [Edit!Fields["userspace"] -> 0 .. 1]
      /\ obj["image"] \in [Edit!Fields["image"] -> 0 .. 1]
      /\ obj["registry"] \in [Edit!Fields["registry"] -> 0 .. 1]
      /\ c # None => c \in [Edit!Fields["platform"] -> 0 .. 1]
  <2>4. ASSUME NEW F, NEW S, NEW o \in [F -> S], NEW f, NEW v \in S PROVE [o EXCEPT ![f] = v] \in [F -> S]
    OBVIOUS
  <2>5. 0 \in 0 .. 1
    OBVIOUS
  <2>1. ASSUME NEW F, NEW o \in [F -> 0 .. 1], NEW f PROVE [o EXCEPT ![f] = 0] \in [F -> 0 .. 1]
    BY <2>4, <2>5
  <2>2. obj["image"] \in [Edit!Fields["image"] -> 0 .. 1]
    BY <1>2, <1>3, <2>1, KindFacts
  <2>3. obj["userspace"] \in [Edit!Fields["userspace"] -> 0 .. 1]
    <3> DEFINE o1 == [Edit!Filled("userspace") EXCEPT !["role"] = 0]
               o2 == [o1 EXCEPT !["disabled"] = 0]
               o3 == [o2 EXCEPT !["key2"] = 0]
    <3>1. obj["userspace"] = o3
      BY <1>2, Zenon
    <3>2. o1 \in [Edit!Fields["userspace"] -> 0 .. 1]
      BY <1>3, <2>1, KindFacts
    <3> HIDE DEF o1
    <3>3. o2 \in [Edit!Fields["userspace"] -> 0 .. 1]
      BY <2>1, <3>2
    <3> HIDE DEF o2
    <3>4. o3 \in [Edit!Fields["userspace"] -> 0 .. 1]
      BY <2>1, <3>3
    <3> QED BY <3>1, <3>4
  <2> QED BY <1>2, <1>3, <2>2, <2>3, KindFacts
<1>8. \A k \in Edit!Kinds : obj[k] \in Edit!Objects(k) \union {None}
  <2>1. \A o, F : o \in [F -> 0 .. 1] => o \in [F -> 0 .. 2]
    OBVIOUS
  <2> QED BY <1>2, <1>6, <1>7, <2>1, KindFacts DEF Edit!Objects, Edit!Stored
<1>9. obj["workspace"] # None
  <2>1. obj["workspace"] \in Edit!Objects("workspace")
    BY <1>6 DEF Edit!Objects, Edit!Stored
  <2> QED BY <2>1, NoneOfEdits, KindFacts DEF Edit!NoneAssumption
<1>10. /\ at = [p \in Procs |-> "idle"] /\ asked = [p \in Procs |-> None]
       /\ cache = [config |-> None, fresh |-> FALSE] /\ about \in DOMAIN Edit!Subjects
       /\ meant = [k \in Edit!Kinds |-> IF obj[k] = None THEN Edit!Blank(k) ELSE obj[k]]
  BY DEF Edit!Init
<1>11. cache.config = None /\ cache.fresh = FALSE /\ cache = [config |-> cache.config, fresh |-> cache.fresh]
  BY <1>10
<1>12. EditTypes
  BY <1>2, <1>8, <1>9, <1>10, <1>11 DEF EditTypes
<1>13. StagesHaveTheirKind /\ CacheIsDue /\ FormsMatch
  BY <1>10, <1>11 DEF StagesHaveTheirKind, CacheIsDue, FormsMatch, Edit!Unread
<1>14. NamesAgree
  BY <1>2, <1>6, <1>10, <1>11 DEF NamesAgree, OneName
<1>15. FieldsKept
  BY <1>10 DEF FieldsKept
<1> QED BY <1>12, <1>13, <1>14, <1>15 DEF EditInv

\* Every step keeps the invariant.
LEMMA EditStep == ASSUME EditInv, Edit!Next PROVE EditInv'
<1>1. ASSUME NEW p \in Procs, Edit!Reads(p) PROVE EditInv'
  BY <1>1, ReadsAsStored, ReadsSettings, ReadsResources, ConfigStored DEF Edit!Reads
<1>2. ASSUME NEW p \in Procs, Edit!Writes(p) PROVE EditInv'
  BY <1>2, PlainSaves, QuotaSaves, OnboardingCompleted, CatalogSaves, ImagePatched, RegistrySaves,
     SyncForced, SettingsSaved, SettingsCreated, Invalidated DEF Edit!Writes
<1> QED BY <1>1, <1>2, Creating, Deleting, Expired, DatePassed DEF Edit!Next

\* The part of the console that is about the shared objects.
EditPart == part = "edits" => EditInv

\* Steps of the other parts leave the shared objects alone.
LEMMA EditPartInductive ==
  /\ ConsoleInit => EditPart
  /\ EditPart /\ [ConsoleNext]_<<part, vars, at, asked, editVars, secret, workVars>> => EditPart'
<1>1. ConsoleInit => EditPart
  BY EditInitial DEF ConsoleInit, EditPart
<1>2. ASSUME EditPart, UNCHANGED <<part, at, asked, editVars>> PROVE EditPart'
  <2> SUFFICES ASSUME EditInv PROVE EditInv'
    BY <1>2 DEF EditPart
  <2> QED BY <1>2 DEF editVars, EditInv, EditTypes, StagesHaveTheirKind, CacheIsDue, FormsMatch,
               NamesAgree, FieldsKept, Misread, Edit!KnownLoss, OneName, Edit!Unread
<1>3. ASSUME EditPart, ConsoleNext PROVE EditPart'
  BY <1>3, EditStep DEF ConsoleNext, EditPart
<1> QED BY <1>1, <1>2, <1>3

\* Every screen and handler that patches an object: for every number of requests, a
\* field holds what it was last deliberately given unless two edits overlapped or
\* the loss is a known one.
THEOREM EditsSafe == ConsoleSpec => []EditsKeepTheRest
<1>1. EditPart => EditsKeepTheRest
  BY DEF EditPart, EditInv, FieldsKept, EditsKeepTheRest, Edit!EditsKeepTheRest
<1> QED BY <1>1, EditPartInductive, PTL DEF ConsoleSpec

\* platformConfig and invalidatePlatformConfig: for every number of requests, what
\* the cache serves once every save has invalidated it is what is stored, unless a
\* read that was under way during a save was kept after it, or a Get failed and no
\* settings are served.
THEOREM CacheSafe == ConsoleSpec => []CacheFollowsSaves
<1>1. EditPart => CacheFollowsSaves
  BY DEF EditPart, EditInv, CacheIsDue, CacheFollowsSaves, Edit!CacheFollowsSaves, Edit!Unread
<1> QED BY <1>1, EditPartInductive, PTL DEF ConsoleSpec

=============================================================================
