------------------------------ MODULE GitKeys ------------------------------
(***************************************************************************)
(* The Secret with a person's git-ssh keys, as PutGitSSHKey and            *)
(* DeleteGitSSHKey of internal/ui/k8s.go edit it: each reads the Secret,   *)
(* decides, and writes without a resourceVersion.  Key material and its    *)
(* metadata entry, which are always written together, are one key here.    *)
(***************************************************************************)
EXTENDS Naturals

CONSTANTS Requests,  \* each adds or removes one key
          Hosts,     \* the hosts keys are for
          None       \* no Secret, no key, no request

VARIABLES
  secret,   \* the Secret: the key of each host and the hosts of its config
  pc,       \* where each request is
  req       \* what each request is to do and the Secret it read

vars == <<secret, pc, req>>

\* A request stands for the key it adds; the key of "old" was there before.
KeyIds == Requests \union {"old"}

Empty == [keys |-> [h \in Hosts |-> None], config |-> {}]

Secrets == [keys : [Hosts -> KeyIds \union {None}], config : SUBSET Hosts]

\* What a request has decided on, and the Secret it decided on.
Decisions == [op : {"put", "delete"}, host : Hosts, seen : Secrets \union {None}]

NoneAssumption == None \notin KeyIds /\ None \notin Secrets /\ None \notin Decisions

\* GitSSHHostsFromData.  A Secret that was not found has no hosts.
HostsOf(s) == IF s = None THEN {} ELSE {h \in Hosts : s.keys[h] # None}

KeyOf(s, h) == IF s = None THEN None ELSE s.keys[h]

Init ==
  /\ secret \in {None} \union
       {[keys |-> [h \in Hosts |-> IF h \in held THEN "old" ELSE None], config |-> held] :
          held \in SUBSET Hosts \ {{}}}
  /\ pc = [p \in Requests |-> "idle"]
  /\ req = [p \in Requests |-> None]

Ends(p) ==
  /\ pc' = [pc EXCEPT ![p] = "done"]
  /\ req' = [req EXCEPT ![p] = None]

Decides(p, op, h, next) ==
  /\ pc' = [pc EXCEPT ![p] = next]
  /\ req' = [req EXCEPT ![p] = [op |-> op, host |-> h, seen |-> secret]]

-----------------------------------------------------------------------------
(* handleProfileAddGitSSHKey, PutGitSSHKey *)

\* Mutant of Add: a host that has a key is given another.
AddAnyway(p, h) ==
  /\ pc[p] = "idle"
  /\ Decides(p, "put", h, IF secret = None THEN "create" ELSE "patch")
  /\ UNCHANGED secret

\* The read.  A host that has a key already is refused: ErrGitSSHKeyExists.
Add(p, h) ==
  /\ pc[p] = "idle"
  /\ \/ h \in HostsOf(secret) /\ Ends(p)
     \/ /\ h \notin HostsOf(secret)
        /\ Decides(p, "put", h, IF secret = None THEN "create" ELSE "patch")
  /\ UNCHANGED secret

\* The Secret was not there: it is created, or another request has done so and
\* this one ends in an error.
CreateSecret(p) ==
  /\ pc[p] = "create"
  /\ secret' = IF secret = None
               THEN [keys |-> [Empty.keys EXCEPT ![req[p].host] = p], config |-> {req[p].host}]
               ELSE secret
  /\ Ends(p)

\* The merge patch names what differs from the Secret that was read: the one key
\* and the config rendered from the hosts of that Secret.  A Secret that is gone
\* is an error.
Patch(p, key, config) ==
  /\ secret' = IF secret = None THEN None
               ELSE [keys   |-> [secret.keys EXCEPT ![req[p].host] = key],
                     config |-> config]
  /\ Ends(p)

PatchIn(p) ==
  /\ pc[p] = "patch" /\ req[p].op = "put"
  /\ Patch(p, p, HostsOf(req[p].seen) \union {req[p].host})

-----------------------------------------------------------------------------
(* handleProfileRemoveGitSSHKey, DeleteGitSSHKey *)

\* The read.  A key that is already gone ends the request; the last key takes
\* the Secret with it.
Remove(p, h) ==
  /\ pc[p] = "idle"
  /\ \/ h \notin HostsOf(secret) /\ Ends(p)
     \/ /\ h \in HostsOf(secret)
        /\ Decides(p, "delete", h, IF HostsOf(secret) = {h} THEN "deleteSecret" ELSE "patch")
  /\ UNCHANGED secret

PatchOut(p) ==
  /\ pc[p] = "patch" /\ req[p].op = "delete"
  /\ Patch(p, None, HostsOf(req[p].seen) \ {req[p].host})

DeleteSecret(p) ==
  /\ pc[p] = "deleteSecret"
  /\ secret' = None
  /\ Ends(p)

-----------------------------------------------------------------------------

Next ==
  \E p \in Requests :
    \/ \E h \in Hosts : Add(p, h) \/ Remove(p, h)
    \/ CreateSecret(p) \/ PatchIn(p) \/ PatchOut(p) \/ DeleteSecret(p)

Spec == Init /\ [][Next]_vars

-----------------------------------------------------------------------------

TypeOK ==
  /\ secret \in Secrets \union {None}
  /\ pc \in [Requests -> {"idle", "create", "patch", "deleteSecret", "done"}]
  /\ req \in [Requests -> Decisions \union {None}]

\* Request p makes its write in this step.
Writes(p) == pc[p] # "done" /\ pc'[p] = "done" /\ req[p] # None

\* The Secret as the comments of k8s.go and gitssh.go describe it: there while
\* it holds a key, with a config for exactly those hosts.
Whole(s) == s # None => HostsOf(s) # {} /\ s.config = HostsOf(s)

\* PutGitSSHKey and DeleteGitSSHKey: a stored key changes only by a request to
\* remove that host's key, or by one that read the Secret before that key was
\* stored; a request that saw the key never overwrites it or loses it.  And only
\* a request that read an older Secret leaves one that is not whole.
KeysAreKept ==
  [][/\ \A h \in Hosts : KeyOf(secret, h) # None /\ KeyOf(secret', h) # KeyOf(secret, h) =>
          \E p \in Requests :
            /\ Writes(p)
            /\ \/ req[p].op = "delete" /\ req[p].host = h
               \/ KeyOf(req[p].seen, h) # KeyOf(secret, h)
     /\ Whole(secret) /\ ~Whole(secret') =>
          \E p \in Requests : Writes(p) /\ req[p].seen # secret]_vars

=============================================================================
