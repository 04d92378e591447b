------------------------------ MODULE Accounts ------------------------------
(***************************************************************************)
(* Local accounts: internal/auth/localuser_store.go, reset.go and          *)
(* apitoken_store.go, the handlers of internal/ui that use them (reset.go, *)
(* profile.go, admin_users.go, admin_userspaces.go) and the install hook,  *)
(* internal/bootstrap.                                                     *)
(*                                                                         *)
(* An account, a reset link and an API token are Secrets; the stores have  *)
(* no lock and no cache, only calls to the API server that interleave with *)
(* those of every other request and of every replica of the hook.  A       *)
(* caller may be stopped before any call, or have it refused (Dies).       *)
(*                                                                         *)
(* A password stands for its hash.  One owner stands behind each username. *)
(* Callers, and what is made up at random (links, tokens and generated     *)
(* passwords), are numbers, and are used in their order.                   *)
(***************************************************************************)
EXTENDS Naturals, FiniteSets

CONSTANTS Usernames, Names,  \* of accounts, and of their Secrets
          SecretName,        \* LocalUserSecretName
          Chosen,            \* passwords somebody thought of
          Generated,         \* passwords the hook generates
          Links,             \* reset links
          Tokens,            \* administrator API tokens
          Procs,             \* requests and runs of the hook: each comes once
          None

\* None is nobody and no credential; what is made up is used in its order.
AccountsAssumption ==
  /\ SecretName \in [Usernames -> Names]
  /\ Chosen \cap Generated = {}
  /\ None \notin UNION {Usernames, Chosen, Generated, Tokens}
  /\ UNION {Procs, Generated, Links, Tokens} \subseteq Nat

VARIABLES
  users,    \* per Secret name, the account in it
  space,    \* whether the administrator's UserSpace exists
  links,    \* the reset link Secrets
  tokens,   \* the administrator token Secrets
  boot,     \* the Secret BootstrapSecretName
  proc,     \* what each request or hook is doing
  known,    \* history: passwords and tokens a person has seen or chosen
  uses,     \* history: how often a link was redeemed
  overlap,  \* history: links two requests held at once
  raced,    \* history: two requests issued links at once
  died,     \* history: a hook stopped with something left to publish
  removed,  \* history: an account or a token was removed
  hooked    \* history: the usernames that hooks were configured with

vars == <<users, space, links, tokens, boot, proc, known, uses, overlap, raced, died, removed, hooked>>
history == <<known, uses, overlap, raced, died, removed, hooked>>

Passwords == Chosen \cup Generated
Account == [username : Usernames, pw : Passwords]
NoUser == [username |-> None, pw |-> None]
LinkStates == [state : {"unused", "live", "gone"}, username : Usernames \cup {None}, expired : BOOLEAN]
BootKeys == {"password", "token"}
Boot == [there : BOOLEAN, password : Generated \cup {None}, token : Tokens \cup {None}]
NoBoot == [there |-> FALSE, password |-> None, token |-> None]

Proc == [do : {"none", "create", "hook", "token", "change", "reset", "issue", "remove"},
         at : {"idle", "done", "space", "list", "find", "create", "publish", "read", "patch", "has", "issue",
               "verify", "write", "match", "spend", "clear", "clearing", "logins", "removing"},
         username : Usernames \cup {None}, pw : Passwords \cup {None}, name : Names \cup {None},
         link : Links \cup {None}, expired : BOOLEAN, token : Tokens \cup {None},
         old : Passwords \cup {None}, todo : SUBSET (Links \cup Names)]

Idle == [do |-> "none", at |-> "idle", username |-> None, pw |-> None, name |-> None,
         link |-> None, expired |-> FALSE, token |-> None, old |-> None, todo |-> {}]

At(p, place) == proc[p].at = place
Go(p, place) == proc' = [proc EXCEPT ![p].at = place]
Finish(p) == proc' = [proc EXCEPT ![p] = [Idle EXCEPT !.at = "done"]]
Start(p, job) ==
  /\ At(p, "idle") /\ \A q \in Procs : q < p => ~At(q, "idle")
  /\ proc' = [proc EXCEPT ![p] = job]

\* findByUsername, after a List of the account Secrets.
Found(u) == {n \in Names : users[n].username = u}

\* Before the first install, or after one with a configured password.
Init ==
  /\ users \in {[n \in Names |-> NoUser]} \cup
       {[n \in Names |-> IF n = SecretName[u] THEN [username |-> u, pw |-> pw] ELSE NoUser] :
          u \in Usernames, pw \in Chosen}
  /\ space = (\E n \in Names : users[n] # NoUser)
  /\ links = [l \in Links |-> [state |-> "unused", username |-> None, expired |-> FALSE]]
  /\ tokens = [t \in Tokens |-> "unused"]
  /\ boot = NoBoot
  /\ proc = [p \in Procs |-> Idle]
  /\ known = Chosen /\ uses = [l \in Links |-> 0] /\ overlap = {}
  /\ raced = FALSE /\ died = FALSE /\ removed = FALSE /\ hooked = {}

\* A generated password is not one anybody has, or had.
Unseen(g) ==
  /\ g \notin known /\ boot.password # g
  /\ \A n \in Names : users[n].pw # g
  /\ \A q \in Procs : proc[q].pw # g

Fresh(g) == Unseen(g) /\ \A h \in Generated : h < g => ~Unseen(h)
FreshToken(t) == tokens[t] = "unused" /\ \A s \in Tokens : s < t => tokens[s] # "unused"
FreshLink(l) == links[l].state = "unused" /\ \A k \in Links : k < l => links[k].state # "unused"

-----------------------------------------------------------------------------
(* Creating an account. *)

\* handleAdminCreateLocalUser, and the password of handleAdminCreateUserSpace.
AdminCreates(p, u, pw) ==
  /\ Start(p, [Idle EXCEPT !.do = "create", !.at = "find", !.username = u, !.pw = pw])
  /\ UNCHANGED <<users, space, links, tokens, boot, history>>

\* AdminAccount, with a configured password or a generated one.
HookStarts(p, u, pw) ==
  /\ pw \in Chosen \/ Fresh(pw)
  /\ Start(p, [Idle EXCEPT !.do = "hook", !.at = "space", !.username = u, !.pw = pw])
  /\ hooked' = hooked \cup {u}
  /\ UNCHANGED <<users, space, links, tokens, boot, known, uses, overlap, raced, died, removed>>

\* ensureAdminUserSpace: one that exists will do.
EnsureSpace(p) ==
  /\ At(p, "space") /\ space' = TRUE /\ Go(p, "list")
  /\ UNCHANGED <<users, links, tokens, boot, history>>

\* An account of that name is left as it is.
HookLists(p) ==
  /\ At(p, "list")
  /\ IF Found(proc[p].username) # {} THEN Finish(p) ELSE Go(p, "find")
  /\ UNCHANGED <<users, space, links, tokens, boot, history>>

\* findByUsername in LocalUserStore.Create.
FindFree(p) ==
  /\ At(p, "find") /\ proc[p].do \in {"create", "hook"}
  /\ IF Found(proc[p].username) # {} THEN Finish(p) ELSE Go(p, "create")
  /\ UNCHANGED <<users, space, links, tokens, boot, history>>

\* What follows a create of the account's Secret.
Created(p) ==
  IF proc[p].do = "hook" /\ proc[p].pw \in Generated THEN Go(p, "publish") ELSE Finish(p)

\* Mutant of CreateUser: the Secret gets a generated name, as it once did.
CreateUnderAnyName(p) ==
  /\ At(p, "create")
  /\ \E n \in Names :
       /\ users[n] = NoUser
       /\ users' = [users EXCEPT ![n] = [username |-> proc[p].username, pw |-> proc[p].pw]]
  /\ Created(p)
  /\ UNCHANGED <<space, links, tokens, boot, history>>

\* Mutant of CreateUser: a Secret that is already there counts as created.
CreateOrTakeOver(p) ==
  LET n == SecretName[proc[p].username] IN
  /\ At(p, "create")
  /\ users' = [users EXCEPT ![n] = IF @ = NoUser THEN [username |-> proc[p].username, pw |-> proc[p].pw] ELSE @]
  /\ Created(p)
  /\ UNCHANGED <<space, links, tokens, boot, history>>

\* The create of the Secret in LocalUserStore.Create: its name follows from
\* the username, so the API server refuses a second one.
CreateUser(p) ==
  LET n == SecretName[proc[p].username] IN
  /\ At(p, "create")
  /\ \/ /\ users[n] = NoUser
        /\ users' = [users EXCEPT ![n] = [username |-> proc[p].username, pw |-> proc[p].pw]]
        /\ Created(p)
     \/ users[n] # NoUser /\ Finish(p) /\ UNCHANGED users
  /\ UNCHANGED <<space, links, tokens, boot, history>>

-----------------------------------------------------------------------------
(* The administrator token, and publishing what the hook made up. *)

\* AdminToken: nothing to do when there is one.
TokenHookStarts(p) ==
  /\ Start(p, [Idle EXCEPT !.do = "token", !.at = "has"])
  /\ UNCHANGED <<users, space, links, tokens, boot, history>>

HasAny(p) ==
  /\ At(p, "has")
  /\ IF \E t \in Tokens : tokens[t] = "live" THEN Finish(p) ELSE Go(p, "issue")
  /\ UNCHANGED <<users, space, links, tokens, boot, history>>

\* TokenStore.Issue.
IssueToken(p, t) ==
  /\ At(p, "issue") /\ FreshToken(t)
  /\ tokens' = [tokens EXCEPT ![t] = "live"]
  /\ proc' = [proc EXCEPT ![p].at = "publish", ![p].token = t]
  /\ UNCHANGED <<users, space, links, boot, history>>

Key(p) == IF proc[p].do = "hook" THEN "password" ELSE "token"
Value(p) == IF proc[p].do = "hook" THEN proc[p].pw ELSE proc[p].token

\* writeInitialValues: create the Secret ...
Publish(p) ==
  /\ At(p, "publish")
  /\ \/ /\ ~boot.there
        /\ boot' = [NoBoot EXCEPT !.there = TRUE, ![Key(p)] = Value(p)]
        /\ Finish(p)
     \/ boot.there /\ Go(p, "read") /\ UNCHANGED boot
  /\ UNCHANGED <<users, space, links, tokens, history>>

\* ... or read it, and leave alone a key that is there ...
ReadBoot(p) ==
  /\ At(p, "read")
  /\ IF boot.there /\ boot[Key(p)] = None THEN Go(p, "patch") ELSE Finish(p)
  /\ died' = (died \/ ~boot.there)
  /\ UNCHANGED <<users, space, links, tokens, boot, known, uses, overlap, raced, removed, hooked>>

\* ... or add the key with a merge patch.
PatchBoot(p) ==
  /\ At(p, "patch")
  /\ boot' = IF boot.there THEN [boot EXCEPT ![Key(p)] = Value(p)] ELSE boot
  /\ died' = (died \/ ~boot.there)
  /\ Finish(p)
  /\ UNCHANGED <<users, space, links, tokens, known, uses, overlap, raced, removed, hooked>>

\* The operator reads the Secret and deletes it, as the install notes ask.
OperatorReads ==
  /\ boot.there /\ boot' = NoBoot
  /\ known' = known \cup ({boot.password, boot.token} \ {None})
  /\ UNCHANGED <<users, space, links, tokens, proc, uses, overlap, raced, died, removed, hooked>>

\* TokenStore.Revoke.
RevokeToken(t) ==
  /\ tokens[t] = "live"
  /\ tokens' = [tokens EXCEPT ![t] = "gone"] /\ removed' = TRUE
  /\ UNCHANGED <<users, space, links, boot, proc, known, uses, overlap, raced, died, hooked>>

-----------------------------------------------------------------------------
(* Changing a password, with the old one or with a link. *)

\* handleChangePassword: the form's current password is one its owner knows.
ChangeStarts(p, u, current, pw) ==
  /\ current \in known
  /\ Start(p, [Idle EXCEPT !.do = "change", !.at = "verify", !.username = u, !.pw = pw,
                           !.old = current])
  /\ UNCHANGED <<users, space, links, tokens, boot, history>>

\* SetPassword up to the write: find the account and compare.
Verify(p) ==
  /\ At(p, "verify")
  /\ \/ \E n \in Found(proc[p].username) :
          /\ users[n].pw = proc[p].old
          /\ proc' = [proc EXCEPT ![p].at = "write", ![p].name = n]
     \/ /\ \A n \in Found(proc[p].username) : users[n].pw # proc[p].old
        /\ Finish(p)
  /\ UNCHANGED <<users, space, links, tokens, boot, history>>

\* writePassword: a merge patch of the Secret of that name, whichever account
\* it holds by now.
WritePassword(p) ==
  /\ At(p, "write")
  /\ users' = [users EXCEPT ![proc[p].name] = IF @ = NoUser THEN @ ELSE [@ EXCEPT !.pw = proc[p].pw]]
  /\ Finish(p)
  /\ UNCHANGED <<space, links, tokens, boot, history>>

\* handleResetSubmit, for a link somebody was given.
ResetStarts(p, l, pw) ==
  /\ links[l].state # "unused"
  /\ Start(p, [Idle EXCEPT !.do = "reset", !.at = "match", !.link = l, !.pw = pw])
  /\ UNCHANGED <<users, space, links, tokens, boot, history>>

\* Redeem: the list, and the record in it that matches ...
Match(p) ==
  LET l == proc[p].link IN
  /\ At(p, "match")
  /\ \/ /\ links[l].state = "live"
        /\ proc' = [proc EXCEPT ![p].at = "spend", ![p].username = links[l].username,
                                ![p].expired = links[l].expired]
        /\ overlap' = IF \E q \in Procs \ {p} : At(q, "spend") /\ proc[q].link = l
                      THEN overlap \cup {l} ELSE overlap
     \/ links[l].state = "gone" /\ Finish(p) /\ UNCHANGED overlap
  /\ UNCHANGED <<users, space, links, tokens, boot, known, uses, raced, died, removed, hooked>>

\* ... is deleted; that another request deleted it first is not an error.
Spend(p) ==
  LET l == proc[p].link IN
  /\ At(p, "spend")
  /\ links' = [links EXCEPT ![l].state = "gone"]
  /\ \/ proc[p].expired /\ Finish(p) /\ UNCHANGED uses
     \/ ~proc[p].expired /\ Go(p, "find") /\ uses' = [uses EXCEPT ![l] = @ + 1]
  /\ UNCHANGED <<users, space, tokens, boot, known, overlap, raced, died, removed, hooked>>

\* ResetPassword: a username without an account is an error, the link spent.
FindAccount(p) ==
  /\ At(p, "find") /\ proc[p].do = "reset"
  /\ \/ \E n \in Found(proc[p].username) : proc' = [proc EXCEPT ![p].at = "write", ![p].name = n]
     \/ Found(proc[p].username) = {} /\ Finish(p)
  /\ UNCHANGED <<users, space, links, tokens, boot, history>>

-----------------------------------------------------------------------------
(* Issuing a link. *)

\* handleAdminIssueReset.
IssueStarts(p, u) ==
  /\ Start(p, [Idle EXCEPT !.do = "issue", !.at = "clear", !.username = u])
  /\ raced' = (raced \/ \E q \in Procs : proc[q].do = "issue" /\ proc[q].username = u)
  /\ UNCHANGED <<users, space, links, tokens, boot, known, uses, overlap, died, removed, hooked>>

\* Mutant of Stale: only the expired ones go.
StaleExpiredOnly(l, u) == links[l].state = "live" /\ links[l].expired

\* What clearStaleAndPrevious removes.
Stale(l, u) == links[l].state = "live" /\ (links[l].username = u \/ links[l].expired)

\* The list of clearStaleAndPrevious.
ListStale(p) ==
  /\ At(p, "clear")
  /\ proc' = [proc EXCEPT ![p].at = "clearing", ![p].todo = {l \in Links : Stale(l, proc[p].username)}]
  /\ UNCHANGED <<users, space, links, tokens, boot, history>>

\* Its deletes, one call each.
ClearLink(p, l) ==
  /\ At(p, "clearing") /\ l \in proc[p].todo
  /\ links' = [links EXCEPT ![l].state = "gone"]
  /\ proc' = [proc EXCEPT ![p].todo = @ \ {l}]
  /\ UNCHANGED <<users, space, tokens, boot, history>>

\* The create of ResetStore.Issue.
StoreLink(p, l) ==
  /\ At(p, "clearing") /\ proc[p].todo = {} /\ FreshLink(l)
  /\ links' = [links EXCEPT ![l] = [state |-> "live", username |-> proc[p].username, expired |-> FALSE]]
  /\ Finish(p)
  /\ UNCHANGED <<users, space, tokens, boot, history>>

\* resetTokenTTL passes.
ExpireLink(l) ==
  /\ links[l].state = "live" /\ ~links[l].expired
  /\ links' = [links EXCEPT ![l].expired = TRUE]
  /\ UNCHANGED <<users, space, tokens, boot, proc, history>>

-----------------------------------------------------------------------------
(* Removing an account. *)

\* handleAdminDeleteUserSpace, or handleAdminDeleteLocalUser, which deletes
\* the account's Secret and nothing else.
RemoveStarts(p, u) ==
  /\ Start(p, [Idle EXCEPT !.do = "remove", !.at = "logins", !.username = u])
  /\ space' = FALSE /\ removed' = TRUE
  /\ UNCHANGED <<users, links, tokens, boot, known, uses, overlap, raced, died, hooked>>

RemoveLogin(n) ==
  /\ users[n] # NoUser
  /\ users' = [users EXCEPT ![n] = NoUser] /\ removed' = TRUE
  /\ UNCHANGED <<space, links, tokens, boot, proc, known, uses, overlap, raced, died, hooked>>

\* deleteLoginsFor: FindByOwner, then a delete each.
ListLogins(p) ==
  /\ At(p, "logins")
  /\ proc' = [proc EXCEPT ![p].at = "removing", ![p].todo = Found(proc[p].username)]
  /\ UNCHANGED <<users, space, links, tokens, boot, history>>

DeleteLogin(p) ==
  /\ At(p, "removing")
  /\ \/ \E n \in proc[p].todo :
          /\ users' = [users EXCEPT ![n] = NoUser]
          /\ proc' = [proc EXCEPT ![p].todo = @ \ {n}]
     \/ proc[p].todo = {} /\ Finish(p) /\ UNCHANGED users
  /\ UNCHANGED <<space, links, tokens, boot, history>>

\* A call fails, or the process ends: the request or the hook stops where it
\* is.  died records that what was made up is lost with it.
Dies(p) ==
  /\ proc[p].at \notin {"idle", "done"} /\ Finish(p)
  /\ died' = (died \/ proc[p].at \in {"publish", "read", "patch"})
  /\ UNCHANGED <<users, space, links, tokens, boot, known, uses, overlap, raced, removed, hooked>>

Next ==
  \/ \E p \in Procs :
       \/ \E u \in Usernames :
            \/ \E pw \in Chosen : AdminCreates(p, u, pw)
            \/ \E pw \in Passwords : HookStarts(p, u, pw)
            \/ \E current \in Passwords, pw \in Chosen : ChangeStarts(p, u, current, pw)
            \/ IssueStarts(p, u)
            \/ RemoveStarts(p, u)
       \/ \E l \in Links, pw \in Chosen : ResetStarts(p, l, pw)
       \/ \E l \in Links : ClearLink(p, l) \/ StoreLink(p, l)
       \/ \E t \in Tokens : IssueToken(p, t)
       \/ EnsureSpace(p) \/ HookLists(p) \/ FindFree(p) \/ CreateUser(p)
       \/ TokenHookStarts(p) \/ HasAny(p) \/ Publish(p) \/ ReadBoot(p) \/ PatchBoot(p)
       \/ Verify(p) \/ WritePassword(p) \/ Match(p) \/ Spend(p) \/ FindAccount(p)
       \/ ListStale(p) \/ ListLogins(p) \/ DeleteLogin(p)
       \/ Dies(p)
  \/ OperatorReads
  \/ \E t \in Tokens : RevokeToken(t)
  \/ \E l \in Links : ExpireLink(l)
  \/ \E n \in Names : RemoveLogin(n)

Spec == Init /\ [][Next]_vars

-----------------------------------------------------------------------------
\* The state has its type.
TypeOK ==
  /\ users \in [Names -> Account \cup {NoUser}] /\ space \in BOOLEAN
  /\ links \in [Links -> LinkStates]
  /\ tokens \in [Tokens -> {"unused", "live", "gone"}]
  /\ boot \in Boot
  /\ proc \in [Procs -> Proc]
  /\ known \subseteq Passwords \cup Tokens /\ uses \in [Links -> Nat] /\ overlap \subseteq Links
  /\ raced \in BOOLEAN /\ died \in BOOLEAN /\ removed \in BOOLEAN /\ hooked \subseteq Usernames

\* LocalUserStore.Create looks for the username and then creates: however the
\* lookups of two creators interleave, one username never has two accounts.
OneAccountPerUsername == \A u \in Usernames : Cardinality(Found(u)) <= 1

\* The passwords and tokens that a person has, or will have.
Published == known \cup {boot.password, boot.token}
               \cup {Value(p) : p \in {q \in Procs : proc[q].at \in {"publish", "read", "patch"}}}

\* Every account's password can be read by a person.
EveryoneHasAPassword == \A n \in Names : users[n] # NoUser => users[n].pw \in Published

\* internal/bootstrap: as long as no hook stopped between making a credential
\* up and writing it down, and nobody removed an account or a token, every
\* account's password and some administrator token can be read by a person:
\* two replicas of the hook never publish one value and keep another.  For the
\* passwords the hooks must have been configured with one username.
NoLockoutWithoutCrash ==
  ~died /\ ~removed =>
    /\ (\A u, v \in hooked : u = v) => EveryoneHasAPassword
    /\ (\E t \in Tokens : tokens[t] = "live") =>
         \E t \in Tokens : tokens[t] = "live" /\ t \in Published

\* AdminAccount's comment promises "a Secret holding that password once", of
\* any password it generates.  writeInitialValues leaves a key alone that is
\* there: what a hook with another username generates is not written anywhere.
GeneratedPasswordsAreWritten == ~died /\ ~removed => EveryoneHasAPassword

\* ResetStore.Redeem and Issue: a link is spent twice only when two requests had
\* both read its record before either deleted it, and two links of one account
\* are live together only when two administrators issued them at once.
LinkAbuseNeedsRace ==
  /\ \A l \in Links : uses[l] > 1 => l \in overlap
  /\ \A l, k \in Links :
       l # k /\ links[l].state = "live" /\ links[k].state = "live" /\ links[l].username = links[k].username
         => raced
=============================================================================
