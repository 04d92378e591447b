--------------------------- MODULE AccountsProofs ---------------------------
(***************************************************************************)
(* What holds of Accounts for every number of callers, accounts, links and *)
(* tokens: a username has one account, a link is abused only in a race,    *)
(* and nobody is locked out without a crash.                               *)
(***************************************************************************)
EXTENDS Accounts, FiniteSetTheorems, TLAPS

-----------------------------------------------------------------------------
(* Where a caller can be, and what it carries there *)

Places ==
  [none |-> {"idle", "done"}, create |-> {"find", "create"},
   hook |-> {"space", "list", "find", "create", "publish", "read", "patch"},
   token |-> {"has", "issue", "publish", "read", "patch"},
   change |-> {"verify", "write"}, reset |-> {"match", "spend", "find", "write"},
   issue |-> {"clear", "clearing"}, remove |-> {"logins", "removing"}]

CallerIsInPlace(p) ==
  /\ proc[p].at \in Places[proc[p].do]
  /\ proc[p].do \in {"create", "hook", "change", "issue", "remove"} => proc[p].username \in Usernames
  /\ proc[p].do \in {"create", "change", "reset"} => proc[p].pw \in Chosen
  /\ proc[p].do = "hook" => proc[p].pw \in Passwords /\ proc[p].username \in hooked
  /\ proc[p].do = "reset" => proc[p].link \in Links
  /\ proc[p].at \in {"publish", "read", "patch"} =>
       IF proc[p].do = "hook" THEN proc[p].pw \in Generated ELSE proc[p].token \in Tokens
  /\ proc[p].at = "write" => proc[p].name \in Names
  /\ proc[p].do = "remove" => removed

WhereCallersAre == \A p \in Procs : CallerIsInPlace(p)

TypeInv == TypeOK /\ WhereCallersAre

-----------------------------------------------------------------------------
(* Accounts *)

\* An account is in the Secret that is named after its username.
SecretsAreNamed == \A n \in Names : users[n] # NoUser => n = SecretName[users[n].username]

-----------------------------------------------------------------------------
(* Links *)

\* A link that is still there was never redeemed; while a request holds the
\* record of one, nobody has redeemed it, or two requests held it at once.
SpendersAreAlone ==
  /\ \A l \in Links : links[l].state # "gone" => uses[l] = 0
  /\ \A l \in Links : uses[l] > 1 => l \in overlap
  /\ \A p \in Procs : At(p, "spend") => proc[p].link \in overlap \/ uses[proc[p].link] = 0
  /\ \A p, q \in Procs : At(p, "spend") /\ At(q, "spend") /\ proc[p].link = proc[q].link /\ p # q
                           => proc[p].link \in overlap

\* An administrator who is clearing has every live link of the account on the
\* list, unless another issues one for the same account.
IssuersAreAlone ==
  /\ \A p, q \in Procs : proc[p].do = "issue" /\ proc[q].do = "issue" /\ p # q
                           /\ proc[p].username = proc[q].username => raced
  /\ \A p \in Procs : At(p, "clearing") =>
       \A l \in Links : links[l].state = "live" /\ links[l].username = proc[p].username
                          => l \in proc[p].todo \/ raced
  /\ \A l, k \in Links :
       l # k /\ links[l].state = "live" /\ links[k].state = "live" /\ links[l].username = links[k].username
         => raced

LinksInv == SpendersAreAlone /\ IssuersAreAlone

-----------------------------------------------------------------------------
(* Publishing *)

\* A hook that has made a credential up and not yet written it down.
Publishes(p) == proc[p].at \in {"publish", "read", "patch"}
OneAdminUsername == \A u, v \in hooked : u = v

\* What was chosen is known, and a Secret that is not there holds nothing.
NothingIsForgotten == Chosen \subseteq known /\ (~boot.there => boot = NoBoot)

\* With one username, a generated password that waits to be written is that of
\* the account, it is the only one, and the key it goes to is free.
PublishersAreAlone ==
  ~removed /\ OneAdminUsername =>
    /\ \A p \in Procs : proc[p].do = "hook" /\ Publishes(p) =>
         /\ users[SecretName[proc[p].username]] # NoUser
         /\ boot.password = None
         /\ \A q \in Procs : proc[q].do = "hook" /\ Publishes(q) => q = p
    /\ boot.password # None => \E u \in hooked : users[SecretName[u]] # NoUser

\* The password of every account is known, written down, or on its way there.
PasswordsAreKept ==
  ~died /\ ~removed /\ OneAdminUsername =>
    \A n \in Names : users[n] # NoUser =>
      \/ users[n].pw \in known
      \/ users[n].pw = boot.password
      \/ \E p \in Procs : proc[p].do = "hook" /\ Publishes(p) /\ users[n].pw = proc[p].pw

\* A token that is written down, or on its way there, is a live one.
TokensAreLive ==
  ~removed =>
    /\ boot.token # None => tokens[boot.token] = "live"
    /\ \A p \in Procs : proc[p].do = "token" /\ Publishes(p) => tokens[proc[p].token] = "live"

\* If there is a live token, there is one of which that is true.
SomeTokenIsKept ==
  ~died /\ ~removed /\ (\E t \in Tokens : tokens[t] = "live") =>
    \/ \E t \in Tokens : tokens[t] = "live" /\ (t \in known \/ t = boot.token)
    \/ \E p \in Procs : proc[p].do = "token" /\ Publishes(p)

PublishInv ==
  /\ NothingIsForgotten
  /\ PublishersAreAlone
  /\ PasswordsAreKept
  /\ TokensAreLive
  /\ SomeTokenIsKept

AccountsInv == TypeInv /\ SecretsAreNamed /\ LinksInv /\ PublishInv

-----------------------------------------------------------------------------
(* How a caller moves *)

\* A caller that has come and gone.
Done == [Idle EXCEPT !.at = "done"]

Spots == {"idle", "done", "space", "list", "find", "create", "publish", "read", "patch", "has",
          "issue", "verify", "write", "match", "spend", "clear", "clearing", "logins", "removing"}

\* Caller p is at job now, and nobody else has moved.
Becomes(p, job) ==
  /\ proc' \in [Procs -> Proc]
  /\ proc'[p] = job
  /\ \A q \in Procs \ {p} : proc'[q] = proc[q]

\* Caller p goes on with what it carries.
Moves(p, place) ==
  /\ \E job \in Proc : Becomes(p, job)
  /\ proc'[p].at = place
  /\ proc'[p].do = proc[p].do
  /\ proc'[p].username = proc[p].username
  /\ proc'[p].pw = proc[p].pw
  /\ proc'[p].link = proc[p].link
  /\ proc'[p].token = proc[p].token
  /\ proc'[p].todo = proc[p].todo

\* A caller that has not come yet, or that is gone, carries nothing.
LEMMA IdleFacts ==
  /\ Idle \in Proc /\ Done \in Proc
  /\ Idle.do = "none" /\ Idle.at = "idle"
  /\ Done.do = "none" /\ Done.at = "done"
  BY DEF Idle, Done, Proc

\* Start brings a caller that has not come yet.
LEMMA StartFacts ==
  ASSUME proc \in [Procs -> Proc], NEW p \in Procs, NEW job \in Proc, Start(p, job)
  PROVE  Becomes(p, job) /\ proc[p].at = "idle"
  BY DEF Start, At, Becomes

\* Finish ends a caller.
LEMMA FinishFacts ==
  ASSUME proc \in [Procs -> Proc], NEW p \in Procs, Finish(p)
  PROVE  Becomes(p, Done)
  BY IdleFacts DEF Finish, Done, Becomes

\* Go moves a caller and leaves what it carries alone.
LEMMA GoFacts ==
  ASSUME proc \in [Procs -> Proc], NEW p \in Procs, NEW place \in Spots, Go(p, place)
  PROVE  Moves(p, place)
  <1> DEFINE job == [proc[p] EXCEPT !.at = place]
  <1>1. /\ job \in Proc
        /\ job.at = place /\ job.do = proc[p].do /\ job.username = proc[p].username
        /\ job.pw = proc[p].pw /\ job.link = proc[p].link /\ job.token = proc[p].token
        /\ job.todo = proc[p].todo
    BY DEF Proc, Spots
  <1>2. Becomes(p, job)
    BY <1>1 DEF Go, Becomes
  <1> QED BY <1>1, <1>2 DEF Moves, Becomes

-----------------------------------------------------------------------------
(* What a step that does not disturb an invariant keeps *)

\* A step of one caller keeps every other in its place.
LEMMA OthersStay ==
  ASSUME WhereCallersAre, NEW p \in Procs, NEW job \in Proc, Becomes(p, job),
         hooked \subseteq hooked', removed => removed', CallerIsInPlace(p)'
  PROVE  WhereCallersAre'
  BY DEF WhereCallersAre, CallerIsInPlace, Becomes

\* So does one that goes.
LEMMA GoneStays ==
  ASSUME WhereCallersAre, NEW p \in Procs, Becomes(p, Done), hooked \subseteq hooked', removed => removed'
  PROVE  WhereCallersAre'
  <1>1. CallerIsInPlace(p)'
    BY IdleFacts DEF CallerIsInPlace, Becomes, Places
  <1> QED BY <1>1, OthersStay, IdleFacts

\* And one that goes on within what it does, unless it is about to write or has
\* a token to publish.
LEMMA MoverStays ==
  ASSUME WhereCallersAre, NEW p \in Procs, NEW place, Moves(p, place), hooked' = hooked, removed' = removed,
         place \in Places[proc[p].do], place # "write",
         place \in {"publish", "read", "patch"} =>
           IF proc[p].do = "hook" THEN proc[p].pw \in Generated ELSE proc[p].token \in Tokens
  PROVE  WhereCallersAre'
  <1>1. PICK job \in Proc : Becomes(p, job)
    BY DEF Moves
  <1>2. CallerIsInPlace(p)'
    BY DEF WhereCallersAre, CallerIsInPlace, Moves
  <1> QED BY <1>1, <1>2, OthersStay

\* A step that changes no link, and brings nobody nearer to one, keeps LinksInv.
LEMMA LinksKept ==
  ASSUME LinksInv, UNCHANGED <<links, uses>>, overlap \subseteq overlap', raced => raced',
         \A q \in Procs :
           /\ proc'[q].at = "spend" => proc[q].at = "spend" /\ proc'[q].link = proc[q].link
           /\ proc'[q].do = "issue" => proc[q].do = "issue" /\ proc'[q].username = proc[q].username
           /\ proc'[q].at = "clearing" =>
                /\ proc[q].at = "clearing" /\ proc'[q].username = proc[q].username
                /\ proc'[q].todo = proc[q].todo
  PROVE  LinksInv'
  <1>1. SpendersAreAlone'
    BY DEF LinksInv, SpendersAreAlone, At
  <1>2. IssuersAreAlone'
    BY DEF LinksInv, IssuersAreAlone, At
  <1> QED BY <1>1, <1>2 DEF LinksInv

\* A caller that goes, goes on elsewhere, or comes for something else, does not.
LEMMA LinksLeft ==
  ASSUME LinksInv, NEW p \in Procs, NEW job \in Proc, Becomes(p, job), UNCHANGED <<links, uses>>,
         overlap \subseteq overlap', raced => raced',
         job.at \notin {"spend", "clearing"}, job.do # "issue"
  PROVE  LinksInv'
  BY LinksKept DEF Becomes

\* A step that keeps what is stored, and who publishes what, keeps PublishInv.
LEMMA PublishKept ==
  ASSUME PublishInv, UNCHANGED <<users, tokens, boot, known>>,
         hooked \subseteq hooked', died => died', removed => removed',
         \A q \in Procs :
           /\ proc[q].do \in {"hook", "token"} /\ Publishes(q)
                <=> proc'[q].do \in {"hook", "token"} /\ Publishes(q)'
           /\ proc[q].do \in {"hook", "token"} /\ Publishes(q) =>
                /\ proc'[q].do = proc[q].do /\ proc'[q].username = proc[q].username
                /\ proc'[q].pw = proc[q].pw /\ proc'[q].token = proc[q].token
  PROVE  PublishInv'
  <1>1. OneAdminUsername' => OneAdminUsername
    BY DEF OneAdminUsername
  <1>2. NothingIsForgotten'
    BY DEF PublishInv, NothingIsForgotten
  <1>3. PublishersAreAlone'
    BY <1>1 DEF PublishInv, PublishersAreAlone
  <1>4. PasswordsAreKept'
    BY <1>1 DEF PublishInv, PasswordsAreKept
  <1>5. TokensAreLive'
    BY DEF PublishInv, TokensAreLive
  <1>6. SomeTokenIsKept'
    BY DEF PublishInv, SomeTokenIsKept
  <1> QED BY <1>2, <1>3, <1>4, <1>5, <1>6 DEF PublishInv

\* A caller that publishes neither before nor after does not disturb it.
LEMMA PublishLeft ==
  ASSUME PublishInv, NEW p \in Procs, NEW job \in Proc, Becomes(p, job),
         UNCHANGED <<users, tokens, boot, known>>,
         hooked \subseteq hooked', died => died', removed => removed',
         ~Publishes(p), job.at \notin {"publish", "read", "patch"}
  PROVE  PublishInv'
  <1>1. \A q \in Procs \ {p} : proc'[q] = proc[q]
    BY DEF Becomes
  <1>2. ~Publishes(p)'
    BY DEF Becomes, Publishes
  <1> QED BY <1>1, <1>2, PublishKept DEF Publishes

\* A caller that goes, or goes on, and only reads keeps everything, as long as
\* it is at no link and publishes nothing.
LEMMA WalkKeeps ==
  ASSUME AccountsInv, NEW p \in Procs, NEW job \in Proc, Becomes(p, job), CallerIsInPlace(p)',
         UNCHANGED <<users, links, tokens, boot, known, uses, overlap, raced, died>>,
         space' \in BOOLEAN, hooked \subseteq hooked', hooked' \subseteq Usernames,
         removed => removed', removed' \in BOOLEAN,
         ~Publishes(p), job.at \notin {"spend", "clearing", "publish", "read", "patch"}, job.do # "issue"
  PROVE  AccountsInv'
  <1>1. TypeOK'
    BY DEF AccountsInv, TypeInv, TypeOK, Becomes
  <1>2. WhereCallersAre'
    BY OthersStay DEF AccountsInv, TypeInv
  <1>3. SecretsAreNamed'
    BY DEF AccountsInv, SecretsAreNamed
  <1>4. LinksInv'
    BY LinksLeft DEF AccountsInv
  <1>5. PublishInv'
    BY PublishLeft DEF AccountsInv
  <1> QED BY <1>1, <1>2, <1>3, <1>4, <1>5 DEF AccountsInv, TypeInv

\* Ending is always in place.
LEMMA DoneIsInPlace ==
  ASSUME NEW p \in Procs, Becomes(p, Done)
  PROVE  CallerIsInPlace(p)'
  BY IdleFacts DEF CallerIsInPlace, Becomes, Places

\* A caller that gives up, where it neither publishes nor is at a link.
LEMMA EndKeeps ==
  ASSUME AccountsInv, NEW p \in Procs, Becomes(p, Done), ~Publishes(p),
         UNCHANGED <<users, space, links, tokens, boot, history>>
  PROVE  AccountsInv'
  <1>1. /\ Done \in Proc /\ Done.at \notin {"spend", "clearing", "publish", "read", "patch"}
        /\ Done.do # "issue"
    BY IdleFacts
  <1>2. UNCHANGED <<users, space, links, tokens, boot, known, uses, overlap, raced, died, removed, hooked>>
    BY DEF history
  <1>3. space \in BOOLEAN /\ removed \in BOOLEAN /\ hooked \subseteq Usernames
    BY DEF AccountsInv, TypeInv, TypeOK
  <1> QED BY <1>1, <1>2, <1>3, DoneIsInPlace, WalkKeeps

\* A caller that goes on to a place where it does not write anything yet.
LEMMA MoveKeeps ==
  ASSUME AccountsInv, NEW p \in Procs, NEW place, Moves(p, place), ~Publishes(p),
         proc[p].do # "issue", place \in Places[proc[p].do], place = "write" => proc'[p].name \in Names,
         place \notin {"spend", "publish", "read", "patch"},
         UNCHANGED <<users, links, tokens, boot, history>>, space' \in BOOLEAN
  PROVE  AccountsInv'
  <1>1. PICK job \in Proc : Becomes(p, job)
    BY DEF Moves
  <1>2. job.at = place /\ job.do = proc[p].do
    BY <1>1 DEF Moves, Becomes
  <1>3. UNCHANGED <<users, links, tokens, boot, known, uses, overlap, raced, died, removed, hooked>>
    BY DEF history
  <1>4. CallerIsInPlace(p)'
    BY <1>3 DEF Moves, AccountsInv, TypeInv, WhereCallersAre, CallerIsInPlace
  <1>5. job.at # "clearing"
    <2>1. proc[p].do \in {"none", "create", "hook", "token", "change", "reset", "issue", "remove"}
      BY DEF AccountsInv, TypeInv, TypeOK, Proc
    <2> QED BY <1>2, <2>1 DEF Places
  <1>6. removed \in BOOLEAN /\ hooked \subseteq Usernames
    BY DEF AccountsInv, TypeInv, TypeOK
  <1> QED BY <1>1, <1>2, <1>3, <1>4, <1>5, <1>6, WalkKeeps

-----------------------------------------------------------------------------
(* Every step keeps the invariant *)

\* Who can be where.
LEMMA WhoIsWhere ==
  ASSUME TypeInv, NEW p \in Procs
  PROVE  /\ proc \in [Procs -> Proc] /\ proc[p] \in Proc /\ CallerIsInPlace(p)
         /\ proc[p].at \in {"space", "list"} => proc[p].do = "hook"
         /\ proc[p].at = "find" => proc[p].do \in {"create", "hook", "reset"}
         /\ proc[p].at = "create" => proc[p].do \in {"create", "hook"}
         /\ proc[p].at \in {"publish", "read", "patch"} => proc[p].do \in {"hook", "token"}
         /\ proc[p].at \in {"has", "issue"} => proc[p].do = "token"
         /\ proc[p].at = "verify" => proc[p].do = "change"
         /\ proc[p].at = "write" => proc[p].do \in {"change", "reset"}
         /\ proc[p].at \in {"match", "spend"} => proc[p].do = "reset"
         /\ proc[p].at \in {"clear", "clearing"} => proc[p].do = "issue"
         /\ proc[p].at \in {"logins", "removing"} => proc[p].do = "remove"
  <1>1. proc \in [Procs -> Proc] /\ proc[p] \in Proc /\ CallerIsInPlace(p)
    BY DEF TypeInv, TypeOK, WhereCallersAre
  <1>2. /\ proc[p].do \in {"none", "create", "hook", "token", "change", "reset", "issue", "remove"}
        /\ proc[p].at \in Places[proc[p].do]
    BY <1>1 DEF Proc, CallerIsInPlace
  <1>3. /\ proc[p].at \in {"space", "list"} => proc[p].do = "hook"
        /\ proc[p].at = "find" => proc[p].do \in {"create", "hook", "reset"}
        /\ proc[p].at = "create" => proc[p].do \in {"create", "hook"}
        /\ proc[p].at \in {"publish", "read", "patch"} => proc[p].do \in {"hook", "token"}
        /\ proc[p].at \in {"has", "issue"} => proc[p].do = "token"
        /\ proc[p].at = "verify" => proc[p].do = "change"
        /\ proc[p].at = "write" => proc[p].do \in {"change", "reset"}
        /\ proc[p].at \in {"match", "spend"} => proc[p].do = "reset"
        /\ proc[p].at \in {"clear", "clearing"} => proc[p].do = "issue"
        /\ proc[p].at \in {"logins", "removing"} => proc[p].do = "remove"
    BY <1>2 DEF Places
  <1> QED BY <1>1, <1>3

\* What holds of the history.
LEMMA HistoryType ==
  ASSUME AccountsInv
  PROVE  /\ space \in BOOLEAN /\ removed \in BOOLEAN /\ hooked \subseteq Usernames
         /\ proc \in [Procs -> Proc] /\ TypeInv
  BY DEF AccountsInv, TypeInv, TypeOK

\* How a caller begins.
Begins(job) ==
  \/ job.do = "create" /\ job.at = "find" /\ job.username \in Usernames /\ job.pw \in Chosen
  \/ job.do = "hook" /\ job.at = "space" /\ job.username \in Usernames /\ job.pw \in Passwords
     /\ job.username \in hooked'
  \/ job.do = "token" /\ job.at = "has"
  \/ job.do = "change" /\ job.at = "verify" /\ job.username \in Usernames /\ job.pw \in Chosen
  \/ job.do = "reset" /\ job.at = "match" /\ job.link \in Links /\ job.pw \in Chosen
  \/ job.do = "remove" /\ job.at = "logins" /\ job.username \in Usernames /\ removed'

\* A request, or a hook, that begins.
LEMMA BeginSteps ==
  ASSUME AccountsInv, NEW p \in Procs, NEW u, NEW pw, NEW old, NEW l,
         \/ u \in Usernames /\ pw \in Chosen /\ AdminCreates(p, u, pw)
         \/ u \in Usernames /\ pw \in Passwords /\ HookStarts(p, u, pw)
         \/ TokenHookStarts(p)
         \/ u \in Usernames /\ old \in Passwords /\ pw \in Chosen /\ ChangeStarts(p, u, old, pw)
         \/ l \in Links /\ pw \in Chosen /\ ResetStarts(p, l, pw)
         \/ u \in Usernames /\ RemoveStarts(p, u)
  PROVE  AccountsInv'
  <1>1. PICK job \in Proc : Start(p, job) /\ Begins(job)
    <2>1. CASE u \in Usernames /\ pw \in Chosen /\ AdminCreates(p, u, pw)
      <3> DEFINE job == [Idle EXCEPT !.do = "create", !.at = "find", !.username = u, !.pw = pw]
      <3>1. job \in Proc /\ job.do = "create" /\ job.at = "find" /\ job.username = u /\ job.pw = pw
        BY <2>1 DEF Idle, Proc, Passwords
      <3>2. Start(p, job)
        BY <2>1 DEF AdminCreates
      <3> HIDE DEF job
      <3> QED BY <2>1, <3>1, <3>2 DEF Begins
    <2>2. CASE u \in Usernames /\ pw \in Passwords /\ HookStarts(p, u, pw)
      <3> DEFINE job == [Idle EXCEPT !.do = "hook", !.at = "space", !.username = u, !.pw = pw]
      <3>1. job \in Proc /\ job.do = "hook" /\ job.at = "space" /\ job.username = u /\ job.pw = pw
        BY <2>2 DEF Idle, Proc, Passwords
      <3>2. Start(p, job)
        BY <2>2 DEF HookStarts
      <3> HIDE DEF job
      <3> QED BY <2>2, <3>1, <3>2 DEF Begins, HookStarts
    <2>3. CASE TokenHookStarts(p)
      <3> DEFINE job == [Idle EXCEPT !.do = "token", !.at = "has"]
      <3>1. job \in Proc /\ job.do = "token" /\ job.at = "has"
        BY <2>3 DEF Idle, Proc, Passwords
      <3>2. Start(p, job)
        BY <2>3 DEF TokenHookStarts
      <3> HIDE DEF job
      <3> QED BY <2>3, <3>1, <3>2 DEF Begins
    <2>4. CASE u \in Usernames /\ old \in Passwords /\ pw \in Chosen /\ ChangeStarts(p, u, old, pw)
      <3> DEFINE job == [Idle EXCEPT !.do = "change", !.at = "verify", !.username = u, !.pw = pw,
                                   !.old = old]
      <3>1. job \in Proc /\ job.do = "change" /\ job.at = "verify" /\ job.username = u /\ job.pw = pw
        BY <2>4 DEF Idle, Proc, Passwords
      <3>2. Start(p, job)
        BY <2>4 DEF ChangeStarts
      <3> HIDE DEF job
      <3> QED BY <2>4, <3>1, <3>2 DEF Begins
    <2>5. CASE l \in Links /\ pw \in Chosen /\ ResetStarts(p, l, pw)
      <3> DEFINE job == [Idle EXCEPT !.do = "reset", !.at = "match", !.link = l, !.pw = pw]
      <3>1. job \in Proc /\ job.do = "reset" /\ job.at = "match" /\ job.link = l /\ job.pw = pw
        BY <2>5 DEF Idle, Proc, Passwords
      <3>2. Start(p, job)
        BY <2>5 DEF ResetStarts
      <3> HIDE DEF job
      <3> QED BY <2>5, <3>1, <3>2 DEF Begins
    <2>6. CASE u \in Usernames /\ RemoveStarts(p, u)
      <3> DEFINE job == [Idle EXCEPT !.do = "remove", !.at = "logins", !.username = u]
      <3>1. job \in Proc /\ job.do = "remove" /\ job.at = "logins" /\ job.username = u
        BY <2>6 DEF Idle, Proc, Passwords
      <3>2. Start(p, job)
        BY <2>6 DEF RemoveStarts
      <3> HIDE DEF job
      <3> QED BY <2>6, <3>1, <3>2 DEF Begins, RemoveStarts
    <2> QED BY <2>1, <2>2, <2>3, <2>4, <2>5, <2>6
  <1>2. /\ UNCHANGED <<users, links, tokens, boot, known, uses, overlap, raced, died>>
        /\ space' = space \/ space' = FALSE
        /\ hooked' = hooked \/ (u \in Usernames /\ hooked' = hooked \cup {u})
        /\ removed' = removed \/ removed' = TRUE
    <2>1. UNCHANGED <<users, links, tokens, boot, known, uses, overlap, raced, died>>
      BY DEF AdminCreates, HookStarts, TokenHookStarts, ChangeStarts, ResetStarts, RemoveStarts, history
    <2>2. space' = space \/ space' = FALSE
      BY Zenon DEF AdminCreates, HookStarts, TokenHookStarts, ChangeStarts, ResetStarts, RemoveStarts,
                   history
    <2>3. hooked' = hooked \/ (u \in Usernames /\ hooked' = hooked \cup {u})
      BY Zenon DEF AdminCreates, HookStarts, TokenHookStarts, ChangeStarts, ResetStarts, RemoveStarts,
                   history
    <2>4. removed' = removed \/ removed' = TRUE
      BY Zenon DEF AdminCreates, HookStarts, TokenHookStarts, ChangeStarts, ResetStarts, RemoveStarts,
                   history
    <2> QED BY <2>1, <2>2, <2>3, <2>4
  <1>3. /\ space' \in BOOLEAN
        /\ hooked \subseteq hooked' /\ hooked' \subseteq Usernames
        /\ removed => removed'
        /\ removed' \in BOOLEAN
    <2>1. space' \in BOOLEAN
      BY <1>2, HistoryType
    <2>2. hooked \subseteq hooked' /\ hooked' \subseteq Usernames
      BY <1>2, HistoryType
    <2>3. removed => removed'
      BY <1>2, Zenon
    <2>4. removed' \in BOOLEAN
      BY <1>2, HistoryType
    <2> QED BY <2>1, <2>2, <2>3, <2>4
  <1>4. Becomes(p, job) /\ proc[p].at = "idle"
    BY <1>1, HistoryType, StartFacts
  <1>5. job.at \notin {"spend", "clearing", "publish", "read", "patch", "write"} /\ job.do # "issue"
    BY <1>1 DEF Begins
  <1>6. CallerIsInPlace(p)'
    BY <1>1, <1>4 DEF CallerIsInPlace, Becomes, Places, Begins, Passwords
  <1>7. ~Publishes(p)
    BY <1>4 DEF Publishes
  <1> QED BY <1>2, <1>3, <1>4, <1>5, <1>6, <1>7, WalkKeeps

\* The steps that look something up, and go on or give up.
LEMMA LookSteps ==
  ASSUME AccountsInv, NEW p \in Procs,
         EnsureSpace(p) \/ HookLists(p) \/ FindFree(p) \/ HasAny(p)
  PROVE  AccountsInv'
  <1>1. /\ proc \in [Procs -> Proc] /\ proc[p] \in Proc
        /\ proc[p].at \in {"space", "list", "find", "has"}
        /\ UNCHANGED <<users, links, tokens, boot, history>> /\ space' \in BOOLEAN
        /\ HookLists(p) \/ FindFree(p) \/ HasAny(p) => UNCHANGED space
    BY WhoIsWhere, HistoryType DEF EnsureSpace, HookLists, FindFree, HasAny, At
  <1>2. ~Publishes(p) /\ proc[p].do # "issue"
    BY <1>1, WhoIsWhere, HistoryType DEF Publishes
  <1>3. ASSUME NEW place \in {"list", "find", "create", "issue"}, Go(p, place), place \in Places[proc[p].do]
        PROVE  AccountsInv'
    <2>1. Moves(p, place)
      BY <1>1, <1>3, GoFacts DEF Spots
    <2> QED BY <1>1, <1>2, <1>3, <2>1, MoveKeeps
  <1>4. CASE EnsureSpace(p)
    BY <1>3, <1>4, WhoIsWhere, HistoryType DEF EnsureSpace, At, Places
  <1>5. CASE HookLists(p) /\ Go(p, "find")
    BY <1>3, <1>5, WhoIsWhere, HistoryType DEF HookLists, At, Places
  <1>6. CASE FindFree(p) /\ Go(p, "create")
    BY <1>3, <1>6, WhoIsWhere, HistoryType DEF FindFree, At, Places
  <1>7. CASE HasAny(p) /\ Go(p, "issue")
    BY <1>3, <1>7, WhoIsWhere, HistoryType DEF HasAny, At, Places
  <1>8. CASE (HookLists(p) \/ FindFree(p) \/ HasAny(p)) /\ Finish(p)
    BY <1>1, <1>2, <1>8, FinishFacts, EndKeeps
  <1> QED BY <1>4, <1>5, <1>6, <1>7, <1>8 DEF EnsureSpace, HookLists, FindFree, HasAny

\* SetPassword and ResetPassword find the Secret to write to.
LEMMA FindSteps ==
  ASSUME AccountsInv, NEW p \in Procs, Verify(p) \/ FindAccount(p)
  PROVE  AccountsInv'
  <1>1. /\ proc \in [Procs -> Proc] /\ proc[p] \in Proc
        /\ proc[p].at \in {"verify", "find"} /\ proc[p].do \in {"change", "reset"}
        /\ UNCHANGED <<users, space, links, tokens, boot, history>> /\ space' \in BOOLEAN
    BY WhoIsWhere, HistoryType DEF Verify, FindAccount, At
  <1>2. ~Publishes(p)
    BY <1>1 DEF Publishes
  <1>3. ASSUME NEW n \in Names, proc' = [proc EXCEPT ![p].at = "write", ![p].name = n]
        PROVE  AccountsInv'
    <2> DEFINE job == [proc[p] EXCEPT !.at = "write", !.name = n]
    <2>1. /\ job \in Proc /\ job.at = "write" /\ job.do = proc[p].do /\ job.username = proc[p].username
          /\ job.pw = proc[p].pw /\ job.link = proc[p].link /\ job.token = proc[p].token
          /\ job.todo = proc[p].todo /\ job.name = n
      BY <1>1 DEF Proc
    <2>2. proc' = [proc EXCEPT ![p] = job]
      BY <1>1, <1>3
    <2> HIDE DEF job
    <2>3. Moves(p, "write") /\ proc'[p].name = n
      BY <1>1, <2>1, <2>2 DEF Moves, Becomes
    <2>4. "write" \in Places[proc[p].do] /\ proc[p].do # "issue"
      BY <1>1 DEF Places
    <2> QED BY <1>1, <1>2, <2>3, <2>4, MoveKeeps
  <1>4. CASE Finish(p)
    BY <1>1, <1>2, <1>4, FinishFacts, EndKeeps
  <1> QED BY <1>3, <1>4 DEF Verify, FindAccount, Found

\* deleteLoginsFor lists what it deletes.
LEMMA ListLoginsStep ==
  ASSUME AccountsInv, NEW p \in Procs, ListLogins(p)
  PROVE  AccountsInv'
  <1> DEFINE job == [proc[p] EXCEPT !.at = "removing", !.todo = Found(proc[p].username)]
  <1>1. /\ proc \in [Procs -> Proc] /\ proc[p] \in Proc /\ CallerIsInPlace(p)
        /\ proc[p].at = "logins" /\ proc[p].do = "remove"
    BY WhoIsWhere, HistoryType DEF ListLogins, At
  <1>2. /\ UNCHANGED <<users, space, links, tokens, boot, known, uses, overlap, raced, died, removed, hooked>>
        /\ proc' = [proc EXCEPT ![p].at = "removing", ![p].todo = Found(proc[p].username)]
    BY DEF ListLogins, history
  <1>3. job \in Proc /\ job.at = "removing" /\ job.do = "remove" /\ job.username = proc[p].username
    BY <1>1 DEF Proc, Found
  <1>4. proc' = [proc EXCEPT ![p] = job]
    BY <1>1, <1>2
  <1> HIDE DEF job
  <1>5. Becomes(p, job)
    BY <1>1, <1>3, <1>4 DEF Becomes
  <1>6. CallerIsInPlace(p)'
    BY <1>1, <1>2, <1>3, <1>5 DEF CallerIsInPlace, Becomes, Places
  <1>7. ~Publishes(p)
    BY <1>1 DEF Publishes
  <1> QED BY <1>2, <1>3, <1>5, <1>6, <1>7, HistoryType, WalkKeeps

\* Redeem finds the record of its link: another request may hold it as well.
LEMMA MatchStep ==
  ASSUME AccountsInv, NEW p \in Procs, Match(p)
  PROVE  AccountsInv'
  <1> DEFINE l == proc[p].link
             job == [proc[p] EXCEPT !.at = "spend", !.username = links[l].username, !.expired = links[l].expired]
  <1>1. /\ proc \in [Procs -> Proc] /\ proc[p] \in Proc /\ CallerIsInPlace(p)
        /\ proc[p].at = "match" /\ proc[p].do = "reset" /\ l \in Links
        /\ UNCHANGED <<users, space, links, tokens, boot, known, uses, raced, died, removed, hooked>>
    BY WhoIsWhere, HistoryType DEF Match, At, CallerIsInPlace
  <1>2. ~Publishes(p)
    BY <1>1 DEF Publishes
  <1>3. CASE Finish(p) /\ UNCHANGED overlap
    BY <1>1, <1>2, <1>3, FinishFacts, EndKeeps DEF history
  <1>4. CASE /\ links[l].state = "live"
             /\ proc' = [proc EXCEPT ![p].at = "spend", ![p].username = links[l].username,
                                     ![p].expired = links[l].expired]
             /\ overlap' = IF \E q \in Procs \ {p} : At(q, "spend") /\ proc[q].link = l
                           THEN overlap \cup {l} ELSE overlap
    <2>1. links[l] \in LinkStates
      BY <1>1 DEF AccountsInv, TypeInv, TypeOK
    <2>2. /\ job \in Proc /\ job.at = "spend" /\ job.do = "reset" /\ job.link = l /\ job.pw = proc[p].pw
      BY <1>1, <2>1 DEF Proc, LinkStates
    <2>3. proc' = [proc EXCEPT ![p] = job]
      BY <1>1, <1>4
    <2> HIDE DEF job
    <2>4. Becomes(p, job)
      BY <1>1, <2>2, <2>3 DEF Becomes
    <2>5. CallerIsInPlace(p)'
      BY <1>1, <2>2, <2>4 DEF CallerIsInPlace, Becomes, Places
    <2>6. WhereCallersAre'
      BY <1>1, <2>2, <2>4, <2>5, OthersStay DEF AccountsInv, TypeInv
    <2>7. overlap' \subseteq Links /\ overlap \subseteq overlap'
      BY <1>1, <1>4 DEF AccountsInv, TypeInv, TypeOK
    <2>8. TypeOK'
      BY <1>1, <2>4, <2>7 DEF AccountsInv, TypeInv, TypeOK, Becomes
    <2>9. SpendersAreAlone'
      <3>1. uses[l] = 0
        BY <1>1, <1>4 DEF AccountsInv, LinksInv, SpendersAreAlone
      <3>2. \A q \in Procs \ {p} : At(q, "spend") /\ proc[q].link = l => l \in overlap'
        BY <1>4
      <3>3. /\ \A k \in Links : links[k].state # "gone" => uses[k] = 0
            /\ \A k \in Links : uses[k] > 1 => k \in overlap
            /\ \A q \in Procs : At(q, "spend") => proc[q].link \in overlap \/ uses[proc[q].link] = 0
            /\ \A q, r \in Procs : At(q, "spend") /\ At(r, "spend") /\ proc[q].link = proc[r].link /\ q # r
                                     => proc[q].link \in overlap
        BY DEF AccountsInv, LinksInv, SpendersAreAlone
      <3>4. UNCHANGED <<links, uses>>
        BY <1>1
      <3>5. /\ \A q \in Procs \ {p} : proc'[q] = proc[q]
            /\ proc'[p].link = l
        BY <2>2, <2>4 DEF Becomes
      <3>6. \A q \in Procs : At(q, "spend")' => proc'[q].link \in overlap' \/ uses'[proc'[q].link] = 0
        BY <2>7, <3>1, <3>3, <3>4, <3>5 DEF At
      <3>7. \A q, r \in Procs : At(q, "spend")' /\ At(r, "spend")' /\ proc'[q].link = proc'[r].link /\ q # r
                                 => proc'[q].link \in overlap'
        BY <2>7, <3>2, <3>3, <3>5 DEF At
      <3> QED BY <2>7, <3>3, <3>4, <3>6, <3>7 DEF SpendersAreAlone
    <2>10. IssuersAreAlone'
      BY <1>1, <2>2, <2>4 DEF AccountsInv, LinksInv, IssuersAreAlone, Becomes, At
    <2>11. PublishInv'
      BY <1>1, <1>2, <2>2, <2>4, PublishLeft DEF AccountsInv
    <2>12. SecretsAreNamed'
      BY <1>1 DEF AccountsInv, SecretsAreNamed
    <2> QED BY <2>6, <2>8, <2>9, <2>10, <2>11, <2>12 DEF AccountsInv, TypeInv, LinksInv
  <1> QED BY <1>3, <1>4 DEF Match

\* Redeem deletes the record: the link is redeemed unless it had expired, and
\* for the first time unless another request held it too.
LEMMA SpendStep ==
  ASSUME AccountsInv, NEW p \in Procs, Spend(p)
  PROVE  AccountsInv'
  <1> DEFINE l == proc[p].link
  <1>1. /\ proc \in [Procs -> Proc] /\ proc[p] \in Proc /\ CallerIsInPlace(p)
        /\ proc[p].at = "spend" /\ proc[p].do = "reset" /\ l \in Links
        /\ links' = [links EXCEPT ![l].state = "gone"]
        /\ UNCHANGED <<users, space, tokens, boot, known, overlap, raced, died, removed, hooked>>
    BY WhoIsWhere, HistoryType DEF Spend, At, CallerIsInPlace
  <1>2. ~Publishes(p)
    BY <1>1 DEF Publishes
  <1>3. \/ Becomes(p, Done) /\ uses' = uses
        \/ Moves(p, "find") /\ uses' = [uses EXCEPT ![l] = @ + 1]
    BY <1>1, FinishFacts, GoFacts DEF Spend, Spots
  <1>4. PICK job \in Proc : Becomes(p, job)
    BY <1>3, IdleFacts DEF Moves
  <1>5. job.at \in {"done", "find"} /\ job.do \in {"none", "reset"}
    BY <1>1, <1>3, <1>4, IdleFacts DEF Becomes, Moves
  <1>6. WhereCallersAre'
    <2>1. CASE Becomes(p, Done)
      BY <1>1, <2>1, GoneStays DEF AccountsInv, TypeInv
    <2>2. CASE Moves(p, "find")
      <3>1. "find" \in Places[proc[p].do]
        BY <1>1 DEF Places
      <3> QED BY <1>1, <2>2, <3>1, MoverStays DEF AccountsInv, TypeInv
    <2> QED BY <1>3, <2>1, <2>2
  <1>7. /\ links \in [Links -> LinkStates] /\ uses \in [Links -> Nat]
        /\ links' \in [Links -> LinkStates] /\ uses' \in [Links -> Nat]
        /\ links'[l].state = "gone" /\ links'[l].username = links[l].username
        /\ \A k \in Links \ {l} : links'[k] = links[k] /\ uses'[k] = uses[k]
        /\ uses'[l] = uses[l] \/ uses'[l] = uses[l] + 1
    BY <1>1, <1>3 DEF AccountsInv, TypeInv, TypeOK, LinkStates
  <1>8. TypeOK'
    BY <1>1, <1>4, <1>7 DEF AccountsInv, TypeInv, TypeOK, Becomes
  <1>9. SpendersAreAlone'
    <2>1. /\ \A k \in Links : links[k].state # "gone" => uses[k] = 0
          /\ \A k \in Links : uses[k] > 1 => k \in overlap
          /\ \A q \in Procs : At(q, "spend") => proc[q].link \in overlap \/ uses[proc[q].link] = 0
          /\ \A q, r \in Procs : At(q, "spend") /\ At(r, "spend") /\ proc[q].link = proc[r].link /\ q # r
                                   => proc[q].link \in overlap
      BY DEF AccountsInv, LinksInv, SpendersAreAlone
    <2>2. /\ \A q \in Procs \ {p} : proc'[q] = proc[q]
          /\ proc'[p].at # "spend"
      BY <1>4, <1>5 DEF Becomes
    <2>3. \A k \in Links : links'[k].state # "gone" => uses'[k] = 0
      BY <1>7, <2>1
    <2>4. \A k \in Links : uses'[k] > 1 => k \in overlap'
      <3>1. l \in overlap \/ uses[l] = 0
        BY <1>1, <2>1 DEF At
      <3>2. uses'[l] > 1 => l \in overlap
        BY <1>1, <1>7, <3>1
      <3> QED BY <1>1, <1>7, <2>1, <3>2
    <2>5. \A q \in Procs : At(q, "spend")' => proc'[q].link \in overlap' \/ uses'[proc'[q].link] = 0
      <3>1. SUFFICES ASSUME NEW q \in Procs, proc'[q].at = "spend"
                     PROVE  proc[q].link \in overlap \/ uses'[proc[q].link] = 0
        BY <1>1, <2>2 DEF At
      <3>2. q # p /\ proc[q].at = "spend"
        BY <2>2, <3>1
      <3>3. CASE proc[q].link = l
        BY <1>1, <2>1, <3>2, <3>3 DEF At
      <3>4. CASE proc[q].link # l
        <4>1. proc[q].link \in Links
          BY <3>2, WhoIsWhere, HistoryType DEF CallerIsInPlace
        <4> QED BY <1>7, <2>1, <3>2, <3>4, <4>1 DEF At
      <3> QED BY <3>3, <3>4
    <2>6. \A q, r \in Procs : At(q, "spend")' /\ At(r, "spend")' /\ proc'[q].link = proc'[r].link /\ q # r
                               => proc'[q].link \in overlap'
      BY <1>1, <2>1, <2>2 DEF At
    <2> QED BY <2>3, <2>4, <2>5, <2>6 DEF SpendersAreAlone
  <1>10. IssuersAreAlone'
    BY <1>1, <1>4, <1>5, <1>7 DEF AccountsInv, LinksInv, IssuersAreAlone, Becomes, At
  <1>11. PublishInv'
    BY <1>1, <1>2, <1>4, <1>5, PublishLeft DEF AccountsInv
  <1>12. SecretsAreNamed'
    BY <1>1 DEF AccountsInv, SecretsAreNamed
  <1> QED BY <1>6, <1>8, <1>9, <1>10, <1>11, <1>12 DEF AccountsInv, TypeInv, LinksInv

\* A link that expires is as live as it was.
LEMMA ExpireStep ==
  ASSUME AccountsInv, NEW l \in Links, ExpireLink(l)
  PROVE  AccountsInv'
  <1>1. /\ UNCHANGED <<users, space, tokens, boot, proc, known, uses, overlap, raced, died, removed, hooked>>
        /\ links' = [links EXCEPT ![l].expired = TRUE]
        /\ links \in [Links -> LinkStates]
    BY DEF ExpireLink, history, AccountsInv, TypeInv, TypeOK
  <1>2. /\ links' \in [Links -> LinkStates]
        /\ \A k \in Links : links'[k].state = links[k].state /\ links'[k].username = links[k].username
    BY <1>1 DEF LinkStates
  <1>3. TypeOK'
    BY <1>1, <1>2 DEF AccountsInv, TypeInv, TypeOK
  <1>4. WhereCallersAre' /\ SecretsAreNamed'
    BY <1>1 DEF AccountsInv, TypeInv, WhereCallersAre, CallerIsInPlace, SecretsAreNamed
  <1>5. LinksInv'
    BY <1>1, <1>2 DEF AccountsInv, LinksInv, SpendersAreAlone, IssuersAreAlone, At
  <1>6. PublishInv'
    BY <1>1, PublishKept DEF AccountsInv, Publishes
  <1> QED BY <1>3, <1>4, <1>5, <1>6 DEF AccountsInv, TypeInv

\* An administrator who begins to issue a link races with one who is at it.
LEMMA IssueStartsStep ==
  ASSUME AccountsInv, NEW p \in Procs, NEW u \in Usernames, IssueStarts(p, u)
  PROVE  AccountsInv'
  <1> DEFINE job == [Idle EXCEPT !.do = "issue", !.at = "clear", !.username = u]
             Rival == \E q \in Procs : proc[q].do = "issue" /\ proc[q].username = u
  <1>1. /\ UNCHANGED <<users, space, links, tokens, boot, known, uses, overlap, died, removed, hooked>>
        /\ Start(p, job)
        /\ raced' = (raced \/ Rival)
    BY DEF IssueStarts
  <1>2. job \in Proc /\ job.do = "issue" /\ job.at = "clear" /\ job.username = u
    BY DEF Idle, Proc
  <1> HIDE DEF job
  <1>3. Becomes(p, job) /\ proc[p].at = "idle"
    BY <1>1, <1>2, HistoryType, StartFacts
  <1>4. ~Publishes(p)
    BY <1>3 DEF Publishes
  <1>5. (raced => raced') /\ (Rival => raced')
    BY <1>1, Zenon
  <1>6. raced' \in BOOLEAN
    BY <1>1 DEF AccountsInv, TypeInv, TypeOK
  <1>7. TypeOK'
    BY <1>1, <1>3, <1>6 DEF AccountsInv, TypeInv, TypeOK, Becomes
  <1>8. CallerIsInPlace(p)'
    BY <1>2, <1>3 DEF CallerIsInPlace, Becomes, Places
  <1>9. WhereCallersAre' /\ SecretsAreNamed'
    BY <1>1, <1>2, <1>3, <1>8, OthersStay DEF AccountsInv, TypeInv, SecretsAreNamed
  <1>10. SpendersAreAlone'
    BY <1>1, <1>2, <1>3 DEF AccountsInv, LinksInv, SpendersAreAlone, Becomes, At
  <1>11. IssuersAreAlone'
    <2>1. /\ \A q \in Procs \ {p} : proc'[q] = proc[q]
          /\ proc'[p].do = "issue" /\ proc'[p].at = "clear" /\ proc'[p].username = u
      BY <1>2, <1>3 DEF Becomes
    <2>2. \A q, r \in Procs : proc'[q].do = "issue" /\ proc'[r].do = "issue" /\ q # r
                               /\ proc'[q].username = proc'[r].username => raced'
      BY <1>5, <2>1 DEF AccountsInv, LinksInv, IssuersAreAlone
    <2>3. \A q \in Procs : At(q, "clearing")' =>
            \A l \in Links : links'[l].state = "live" /\ links'[l].username = proc'[q].username
                              => l \in proc'[q].todo \/ raced'
      BY <1>1, <1>5, <2>1 DEF AccountsInv, LinksInv, IssuersAreAlone, At
    <2>4. \A l, k \in Links :
            l # k /\ links'[l].state = "live" /\ links'[k].state = "live" /\ links'[l].username = links'[k].username
              => raced'
      BY <1>1, <1>5 DEF AccountsInv, LinksInv, IssuersAreAlone
    <2> QED BY <2>2, <2>3, <2>4 DEF IssuersAreAlone
  <1>12. PublishInv'
    BY <1>1, <1>2, <1>3, <1>4, PublishLeft DEF AccountsInv
  <1> QED BY <1>7, <1>9, <1>10, <1>11, <1>12 DEF AccountsInv, TypeInv, LinksInv

\* clearStaleAndPrevious lists what it deletes: every live link of the account.
LEMMA ListStaleStep ==
  ASSUME AccountsInv, NEW p \in Procs, ListStale(p)
  PROVE  AccountsInv'
  <1> DEFINE list == {l \in Links : Stale(l, proc[p].username)}
             job == [proc[p] EXCEPT !.at = "clearing", !.todo = list]
  <1>1. /\ proc \in [Procs -> Proc] /\ proc[p] \in Proc /\ CallerIsInPlace(p)
        /\ proc[p].at = "clear" /\ proc[p].do = "issue"
        /\ UNCHANGED <<users, space, links, tokens, boot, known, uses, overlap, raced, died, removed, hooked>>
        /\ proc' = [proc EXCEPT ![p].at = "clearing", ![p].todo = list]
    BY WhoIsWhere, HistoryType DEF ListStale, At, history
  <1>2. /\ job \in Proc /\ job.at = "clearing" /\ job.do = "issue" /\ job.username = proc[p].username
        /\ job.todo = list
    BY <1>1 DEF Proc
  <1>3. proc' = [proc EXCEPT ![p] = job]
    BY <1>1, <1>2
  <1>4. \A l \in Links : links[l].state = "live" /\ links[l].username = proc[p].username => l \in list
    BY DEF Stale
  <1> HIDE DEF job, list
  <1>5. Becomes(p, job)
    BY <1>1, <1>2, <1>3 DEF Becomes
  <1>6. ~Publishes(p)
    BY <1>1 DEF Publishes
  <1>7. TypeOK'
    BY <1>1, <1>5 DEF AccountsInv, TypeInv, TypeOK, Becomes
  <1>8. CallerIsInPlace(p)'
    BY <1>1, <1>2, <1>5 DEF CallerIsInPlace, Becomes, Places
  <1>9. WhereCallersAre' /\ SecretsAreNamed'
    BY <1>1, <1>2, <1>5, <1>8, OthersStay DEF AccountsInv, TypeInv, SecretsAreNamed
  <1>10. SpendersAreAlone'
    BY <1>1, <1>2, <1>5 DEF AccountsInv, LinksInv, SpendersAreAlone, Becomes, At
  <1>11. IssuersAreAlone'
    BY <1>1, <1>2, <1>4, <1>5 DEF AccountsInv, LinksInv, IssuersAreAlone, Becomes, At
  <1>12. PublishInv'
    BY <1>1, <1>2, <1>5, <1>6, PublishLeft DEF AccountsInv
  <1> QED BY <1>7, <1>9, <1>10, <1>11, <1>12 DEF AccountsInv, TypeInv, LinksInv

\* It deletes them one by one.
LEMMA ClearLinkStep ==
  ASSUME AccountsInv, NEW p \in Procs, NEW l \in Links, ClearLink(p, l)
  PROVE  AccountsInv'
  <1> DEFINE job == [proc[p] EXCEPT !.todo = @ \ {l}]
  <1>1. /\ proc \in [Procs -> Proc] /\ proc[p] \in Proc /\ CallerIsInPlace(p)
        /\ proc[p].at = "clearing" /\ proc[p].do = "issue"
        /\ UNCHANGED <<users, space, tokens, boot, known, uses, overlap, raced, died, removed, hooked>>
        /\ proc' = [proc EXCEPT ![p].todo = @ \ {l}]
        /\ links' = [links EXCEPT ![l].state = "gone"]
        /\ links \in [Links -> LinkStates]
    BY WhoIsWhere, HistoryType DEF ClearLink, At, history, AccountsInv, TypeInv, TypeOK
  <1>2. /\ job \in Proc /\ job.at = "clearing" /\ job.do = "issue" /\ job.username = proc[p].username
        /\ job.todo = proc[p].todo \ {l}
    BY <1>1 DEF Proc
  <1>3. proc' = [proc EXCEPT ![p] = job]
    BY <1>1, <1>2
  <1>4. /\ links' \in [Links -> LinkStates] /\ links'[l].state = "gone"
        /\ \A k \in Links \ {l} : links'[k] = links[k]
    BY <1>1 DEF LinkStates
  <1> HIDE DEF job
  <1>5. Becomes(p, job)
    BY <1>1, <1>2, <1>3 DEF Becomes
  <1>6. ~Publishes(p)
    BY <1>1 DEF Publishes
  <1>7. TypeOK'
    BY <1>1, <1>4, <1>5 DEF AccountsInv, TypeInv, TypeOK, Becomes
  <1>8. CallerIsInPlace(p)'
    BY <1>1, <1>2, <1>5 DEF CallerIsInPlace, Becomes, Places
  <1>9. WhereCallersAre' /\ SecretsAreNamed'
    BY <1>1, <1>2, <1>5, <1>8, OthersStay DEF AccountsInv, TypeInv, SecretsAreNamed
  <1>10. SpendersAreAlone'
    BY <1>1, <1>2, <1>4, <1>5 DEF AccountsInv, LinksInv, SpendersAreAlone, Becomes, At
  <1>11. IssuersAreAlone'
    BY <1>1, <1>2, <1>4, <1>5 DEF AccountsInv, LinksInv, IssuersAreAlone, Becomes, At
  <1>12. PublishInv'
    BY <1>1, <1>2, <1>5, <1>6, PublishLeft DEF AccountsInv
  <1> QED BY <1>7, <1>9, <1>10, <1>11, <1>12 DEF AccountsInv, TypeInv, LinksInv

\* And the new link is the only live one of its account, or there was a race.
LEMMA StoreLinkStep ==
  ASSUME AccountsInv, NEW p \in Procs, NEW l \in Links, StoreLink(p, l)
  PROVE  AccountsInv'
  <1> DEFINE fresh == [state |-> "live", username |-> proc[p].username, expired |-> FALSE]
  <1>1. /\ proc \in [Procs -> Proc] /\ proc[p] \in Proc /\ CallerIsInPlace(p)
        /\ proc[p].at = "clearing" /\ proc[p].do = "issue" /\ proc[p].todo = {}
        /\ UNCHANGED <<users, space, tokens, boot, known, uses, overlap, raced, died, removed, hooked>>
        /\ links' = [links EXCEPT ![l] = fresh] /\ links[l].state = "unused"
        /\ links \in [Links -> LinkStates]
    BY WhoIsWhere, HistoryType DEF StoreLink, At, history, AccountsInv, TypeInv, TypeOK, FreshLink
  <1>2. Becomes(p, Done)
    BY <1>1, FinishFacts DEF StoreLink
  <1>3. /\ links' \in [Links -> LinkStates]
        /\ links'[l].state = "live" /\ links'[l].username = proc[p].username
        /\ \A k \in Links \ {l} : links'[k] = links[k]
    BY <1>1 DEF LinkStates, Proc
  <1>4. ~Publishes(p)
    BY <1>1 DEF Publishes
  <1>5. TypeOK'
    BY <1>1, <1>2, <1>3 DEF AccountsInv, TypeInv, TypeOK, Becomes
  <1>6. WhereCallersAre' /\ SecretsAreNamed'
    BY <1>1, <1>2, GoneStays DEF AccountsInv, TypeInv, SecretsAreNamed
  <1>7. SpendersAreAlone'
    BY <1>1, <1>2, <1>3, IdleFacts DEF AccountsInv, LinksInv, SpendersAreAlone, Becomes, At
  <1>8. IssuersAreAlone'
    <2>1. /\ \A q \in Procs \ {p} : proc'[q] = proc[q]
          /\ proc'[p].do = "none" /\ proc'[p].at = "done"
      BY <1>2, IdleFacts DEF Becomes
    <2>2. \A q, r \in Procs : proc'[q].do = "issue" /\ proc'[r].do = "issue" /\ q # r
                               /\ proc'[q].username = proc'[r].username => raced'
      BY <1>1, <2>1 DEF AccountsInv, LinksInv, IssuersAreAlone
    <2>3. \A q \in Procs : At(q, "clearing")' =>
            \A k \in Links : links'[k].state = "live" /\ links'[k].username = proc'[q].username
                              => k \in proc'[q].todo \/ raced'
      <3>1. SUFFICES ASSUME NEW q \in Procs, proc'[q].at = "clearing", NEW k \in Links,
                            links'[k].state = "live", links'[k].username = proc'[q].username
                     PROVE  k \in proc'[q].todo \/ raced
        BY <1>1 DEF At
      <3>2. q # p /\ proc'[q] = proc[q] /\ proc[q].at = "clearing" /\ proc[q].do = "issue"
        BY <2>1, <3>1, WhoIsWhere, HistoryType
      <3>3. CASE k = l
        BY <1>1, <1>3, <3>1, <3>2, <3>3 DEF AccountsInv, LinksInv, IssuersAreAlone
      <3>4. CASE k # l
        BY <1>3, <3>1, <3>2, <3>4 DEF AccountsInv, LinksInv, IssuersAreAlone, At
      <3> QED BY <3>3, <3>4
    <2>4. \A k \in Links : links[k].state = "live" /\ links[k].username = proc[p].username => raced
      BY <1>1 DEF AccountsInv, LinksInv, IssuersAreAlone, At
    <2>5. \A k, j \in Links :
            k # j /\ links'[k].state = "live" /\ links'[j].state = "live" /\ links'[k].username = links'[j].username
              => raced'
      BY <1>1, <1>3, <2>4 DEF AccountsInv, LinksInv, IssuersAreAlone
    <2> QED BY <2>2, <2>3, <2>5 DEF IssuersAreAlone
  <1>9. PublishInv'
    BY <1>1, <1>2, <1>4, PublishLeft, IdleFacts DEF AccountsInv
  <1> QED BY <1>5, <1>6, <1>7, <1>8, <1>9 DEF AccountsInv, TypeInv, LinksInv

\* LocalUserStore.Create writes a Secret that was free, so nobody else has a
\* password on its way to that account.
LEMMA CreateUserStep ==
  ASSUME AccountsAssumption, AccountsInv, NEW p \in Procs, CreateUser(p)
  PROVE  AccountsInv'
  <1> DEFINE u == proc[p].username
             n == SecretName[u]
             account == [username |-> u, pw |-> proc[p].pw]
  <1>1. /\ proc \in [Procs -> Proc] /\ proc[p] \in Proc /\ CallerIsInPlace(p)
        /\ proc[p].at = "create" /\ proc[p].do \in {"create", "hook"}
        /\ UNCHANGED <<space, links, tokens, boot, known, uses, overlap, raced, died, removed, hooked>>
    BY WhoIsWhere, HistoryType DEF CreateUser, At, history
  <1>2. /\ u \in Usernames /\ n \in Names /\ proc[p].pw \in Passwords
        /\ proc[p].do = "create" => proc[p].pw \in Chosen
        /\ proc[p].do = "hook" => u \in hooked
    BY <1>1 DEF CallerIsInPlace, AccountsAssumption, Passwords
  <1>3. ~Publishes(p)
    BY <1>1 DEF Publishes
  <1>4. CASE Finish(p) /\ UNCHANGED users
    BY <1>1, <1>3, <1>4, FinishFacts, EndKeeps DEF history
  <1>5. CASE users[n] = NoUser /\ users' = [users EXCEPT ![n] = account] /\ Created(p)
    <2>1. \/ Moves(p, "publish") /\ proc[p].do = "hook" /\ proc[p].pw \in Generated
          \/ Becomes(p, Done) /\ proc[p].pw \in Chosen
      BY <1>1, <1>2, <1>5, FinishFacts, GoFacts DEF Created, Spots, Passwords
    <2>2. PICK job \in Proc : Becomes(p, job)
      BY <2>1, IdleFacts DEF Moves
    <2>3. job.at \in {"publish", "done"} /\ job.do \in {"hook", "none"}
      BY <2>1, <2>2, IdleFacts DEF Moves, Becomes
    <2>4. /\ users \in [Names -> Account \cup {NoUser}] /\ users' \in [Names -> Account \cup {NoUser}]
          /\ users'[n] = account /\ account # NoUser
          /\ \A k \in Names \ {n} : users'[k] = users[k]
      BY <1>2, <1>5 DEF AccountsInv, TypeInv, TypeOK, Account, NoUser, AccountsAssumption
    <2>5. TypeOK'
      BY <1>1, <2>2, <2>4 DEF AccountsInv, TypeInv, TypeOK, Becomes
    <2>6. WhereCallersAre'
      <3>1. CASE Becomes(p, Done)
        BY <1>1, <3>1, GoneStays DEF AccountsInv, TypeInv
      <3>2. CASE Moves(p, "publish") /\ proc[p].do = "hook" /\ proc[p].pw \in Generated
        <4>1. "publish" \in Places[proc[p].do]
          BY <3>2 DEF Places
        <4> QED BY <1>1, <3>2, <4>1, MoverStays DEF AccountsInv, TypeInv
      <3> QED BY <2>1, <3>1, <3>2
    <2>7. SecretsAreNamed'
      BY <2>4 DEF AccountsInv, SecretsAreNamed
    <2>8. LinksInv'
      BY <1>1, <2>2, <2>3, LinksLeft DEF AccountsInv
    <2>9. NothingIsForgotten'
      BY <1>1 DEF AccountsInv, PublishInv, NothingIsForgotten
    <2>10. PublishersAreAlone'
      <3>1. SUFFICES ASSUME ~removed, OneAdminUsername
            PROVE  /\ \A r \in Procs : proc'[r].do = "hook" /\ Publishes(r)' =>
                        /\ users'[SecretName[proc'[r].username]] # NoUser
                        /\ boot.password = None
                        /\ \A q \in Procs : proc'[q].do = "hook" /\ Publishes(q)' => q = r
                   /\ boot.password # None => \E v \in hooked : users'[SecretName[v]] # NoUser
        BY <1>1 DEF PublishersAreAlone, OneAdminUsername
      <3>2. /\ \A r \in Procs : proc[r].do = "hook" /\ Publishes(r) =>
                 /\ users[SecretName[proc[r].username]] # NoUser
                 /\ boot.password = None
                 /\ \A q \in Procs : proc[q].do = "hook" /\ Publishes(q) => q = r
            /\ boot.password # None => \E v \in hooked : users[SecretName[v]] # NoUser
        BY <3>1 DEF AccountsInv, PublishInv, PublishersAreAlone
      <3>3. \A v \in Usernames : users[SecretName[v]] # NoUser => users'[SecretName[v]] # NoUser
        BY <2>4 DEF AccountsAssumption
      <3>4. \A r \in Procs : proc[r].do = "hook" => proc[r].username \in hooked /\ proc[r].username \in Usernames
        BY WhoIsWhere, HistoryType DEF CallerIsInPlace
      <3>5. \A q \in Procs \ {p} : proc'[q] = proc[q]
        BY <2>2 DEF Becomes
      <3>6. boot.password # None => \E v \in hooked : users'[SecretName[v]] # NoUser
        BY <3>2, <3>3, HistoryType
      <3>7. CASE Becomes(p, Done)
        BY <3>2, <3>3, <3>4, <3>5, <3>6, <3>7, IdleFacts DEF Becomes, Publishes
      <3>8. CASE Moves(p, "publish") /\ proc[p].do = "hook"
        <4>1. \A v \in hooked : v = u
          BY <1>2, <3>1, <3>8 DEF OneAdminUsername
        <4>2. boot.password = None
          BY <1>5, <3>2, <4>1
        <4>3. \A q \in Procs : ~(proc[q].do = "hook" /\ Publishes(q))
          BY <1>5, <3>2, <3>4, <4>1
        <4>4. users'[SecretName[proc'[p].username]] # NoUser
          BY <2>4, <3>8 DEF Moves
        <4> QED BY <3>5, <3>6, <4>2, <4>3, <4>4 DEF Publishes
      <3> QED BY <2>1, <3>7, <3>8
    <2>11. PasswordsAreKept'
      <3>1. SUFFICES ASSUME ~died, ~removed, OneAdminUsername, NEW k \in Names, users'[k] # NoUser
            PROVE  \/ users'[k].pw \in known
                   \/ users'[k].pw = boot.password
                   \/ \E r \in Procs : proc'[r].do = "hook" /\ Publishes(r)' /\ users'[k].pw = proc'[r].pw
        BY <1>1 DEF PasswordsAreKept, OneAdminUsername
      <3>2. CASE k = n
        <4>1. users'[k].pw = proc[p].pw
          BY <2>4, <3>2
        <4>2. CASE Becomes(p, Done) /\ proc[p].pw \in Chosen
          BY <4>1, <4>2 DEF AccountsInv, PublishInv, NothingIsForgotten
        <4>3. CASE Moves(p, "publish") /\ proc[p].do = "hook"
          BY <4>1, <4>3 DEF Moves, Publishes
        <4> QED BY <2>1, <4>2, <4>3
      <3>3. CASE k # n
        <4>1. users'[k] = users[k]
          BY <2>4, <3>3
        <4>2. \A q \in Procs : Publishes(q) => proc'[q] = proc[q]
          BY <1>3, <2>2 DEF Becomes
        <4> QED BY <3>1, <4>1, <4>2 DEF AccountsInv, PublishInv, PasswordsAreKept, Publishes
      <3> QED BY <3>2, <3>3
    <2>12. TokensAreLive' /\ SomeTokenIsKept'
      <3>1. /\ \A q \in Procs \ {p} : proc'[q] = proc[q]
            /\ proc'[p].do # "token" /\ proc[p].do # "token"
        BY <1>1, <2>2, <2>3 DEF Becomes
      <3>2. TokensAreLive'
        BY <1>1, <3>1 DEF AccountsInv, PublishInv, TokensAreLive, Publishes
      <3>3. SomeTokenIsKept'
        BY <1>1, <3>1 DEF AccountsInv, PublishInv, SomeTokenIsKept, Publishes
      <3> QED BY <3>2, <3>3
    <2> QED BY <2>5, <2>6, <2>7, <2>8, <2>9, <2>10, <2>11, <2>12 DEF AccountsInv, TypeInv, PublishInv
  <1> QED BY <1>4, <1>5 DEF CreateUser

\* A new password is one that its owner chose.
LEMMA WritePasswordStep ==
  ASSUME AccountsAssumption, AccountsInv, NEW p \in Procs, WritePassword(p)
  PROVE  AccountsInv'
  <1> DEFINE n == proc[p].name
             account == IF users[n] = NoUser THEN NoUser ELSE [users[n] EXCEPT !.pw = proc[p].pw]
  <1>1. /\ proc \in [Procs -> Proc] /\ CallerIsInPlace(p)
        /\ proc[p].at = "write" /\ proc[p].do \in {"change", "reset"}
        /\ n \in Names /\ proc[p].pw \in Chosen
        /\ UNCHANGED <<space, links, tokens, boot, known, uses, overlap, raced, died, removed, hooked>>
        /\ users' = [users EXCEPT ![n] = account]
    BY WhoIsWhere, HistoryType DEF WritePassword, At, history, CallerIsInPlace
  <1>2. Becomes(p, Done)
    BY <1>1, FinishFacts DEF WritePassword
  <1>3. ~Publishes(p)
    BY <1>1 DEF Publishes
  <1>4. /\ users \in [Names -> Account \cup {NoUser}] /\ users' \in [Names -> Account \cup {NoUser}]
        /\ \A k \in Names \ {n} : users'[k] = users[k]
        /\ users[n] = NoUser => users'[n] = NoUser
        /\ users[n] # NoUser => /\ users'[n].username = users[n].username /\ users'[n].pw = proc[p].pw
                                /\ users'[n] # NoUser
    <2>1. users \in [Names -> Account \cup {NoUser}] /\ None \notin Usernames
      BY DEF AccountsInv, TypeInv, TypeOK, AccountsAssumption
    <2>2. CASE users[n] = NoUser
      BY <1>1, <2>1, <2>2
    <2>3. CASE users[n] # NoUser
      <3>1. users[n] \in Account
        BY <1>1, <2>1, <2>3
      <3>2. account \in Account /\ account.username = users[n].username /\ account.pw = proc[p].pw
        BY <1>1, <2>3, <3>1 DEF Account, Passwords
      <3>3. account # NoUser
        BY <2>1, <3>2 DEF Account, NoUser
      <3> HIDE DEF account
      <3> QED BY <1>1, <2>1, <2>3, <3>2, <3>3
    <2> QED BY <2>2, <2>3
  <1>5. TypeOK'
    BY <1>1, <1>2, <1>4 DEF AccountsInv, TypeInv, TypeOK, Becomes
  <1>6. WhereCallersAre'
    BY <1>1, <1>2, GoneStays DEF AccountsInv, TypeInv
  <1>7. SecretsAreNamed'
    BY <1>4 DEF AccountsInv, SecretsAreNamed
  <1>8. LinksInv'
    BY <1>1, <1>2, LinksLeft, IdleFacts DEF AccountsInv
  <1>9. /\ \A q \in Procs \ {p} : proc'[q] = proc[q]
        /\ ~Publishes(p)'
    BY <1>2, IdleFacts DEF Becomes, Publishes
  <1>10. NothingIsForgotten'
    BY <1>1 DEF AccountsInv, PublishInv, NothingIsForgotten
  <1>11. PublishersAreAlone'
    <2>1. \A k \in Names : users[k] # NoUser => users'[k] # NoUser
      BY <1>4
    <2>2. \A v \in Usernames : users[SecretName[v]] # NoUser => users'[SecretName[v]] # NoUser
      BY <2>1 DEF AccountsAssumption
    <2>3. \A q \in Procs : proc[q].do = "hook" => proc[q].username \in Usernames
      BY WhoIsWhere, HistoryType DEF CallerIsInPlace
    <2> QED BY <1>1, <1>3, <1>9, <2>2, <2>3, HistoryType
         DEF AccountsInv, PublishInv, PublishersAreAlone, Publishes, OneAdminUsername
  <1>12. PasswordsAreKept'
    <2>1. \A k \in Names : users'[k] # NoUser =>
            \/ users'[k].pw = users[k].pw /\ users[k] # NoUser
            \/ users'[k].pw \in known
      BY <1>1, <1>4 DEF AccountsInv, PublishInv, NothingIsForgotten
    <2>2. \A q \in Procs : Publishes(q) => proc'[q] = proc[q]
      BY <1>3, <1>9
    <2> QED BY <1>1, <2>1, <2>2 DEF AccountsInv, PublishInv, PasswordsAreKept, Publishes, OneAdminUsername
  <1>13. TokensAreLive' /\ SomeTokenIsKept'
    BY <1>1, <1>3, <1>9 DEF AccountsInv, PublishInv, TokensAreLive, SomeTokenIsKept, Publishes
  <1> QED BY <1>5, <1>6, <1>7, <1>8, <1>10, <1>11, <1>12, <1>13 DEF AccountsInv, TypeInv, PublishInv

\* Once an account or a token was removed, nothing is promised of the rest.
LEMMA RemovedKeeps ==
  ASSUME PublishInv, removed', UNCHANGED <<boot, known>>
  PROVE  PublishInv'
  BY DEF PublishInv, NothingIsForgotten, PublishersAreAlone, PasswordsAreKept, TokensAreLive, SomeTokenIsKept

\* An account, or a token, is removed.
LEMMA RemoveSteps ==
  ASSUME AccountsInv,
         \/ \E n \in Names : RemoveLogin(n)
         \/ \E p \in Procs : DeleteLogin(p)
         \/ \E t \in Tokens : RevokeToken(t)
  PROVE  AccountsInv'
  <1>1. CASE \E n \in Names : RemoveLogin(n)
    <2>1. PICK n \in Names : /\ users' = [users EXCEPT ![n] = NoUser] /\ removed' = TRUE
                             /\ UNCHANGED <<space, links, tokens, boot, proc, known, uses, overlap, raced, died, hooked>>
      BY <1>1 DEF RemoveLogin
    <2>2. TypeOK'
      BY <2>1 DEF AccountsInv, TypeInv, TypeOK
    <2>3. WhereCallersAre'
      BY <2>1 DEF AccountsInv, TypeInv, WhereCallersAre, CallerIsInPlace
    <2>4. SecretsAreNamed'
      BY <2>1 DEF AccountsInv, TypeInv, TypeOK, SecretsAreNamed
    <2>5. LinksInv'
      BY <2>1, LinksKept DEF AccountsInv
    <2>6. PublishInv'
      BY <2>1, RemovedKeeps DEF AccountsInv
    <2> QED BY <2>2, <2>3, <2>4, <2>5, <2>6 DEF AccountsInv, TypeInv
  <1>2. CASE \E p \in Procs : DeleteLogin(p)
    <2>1. PICK p \in Procs : DeleteLogin(p)
      BY <1>2
    <2>2. /\ proc \in [Procs -> Proc] /\ proc[p] \in Proc /\ CallerIsInPlace(p)
          /\ proc[p].at = "removing" /\ proc[p].do = "remove" /\ removed
          /\ UNCHANGED <<space, links, tokens, boot, known, uses, overlap, raced, died, removed, hooked>>
      BY <2>1, WhoIsWhere, HistoryType DEF DeleteLogin, At, history, CallerIsInPlace
    <2>3. CASE Finish(p) /\ UNCHANGED users
      BY <2>2, <2>3, FinishFacts, EndKeeps DEF history, Publishes
    <2>4. ASSUME NEW n \in proc[p].todo, users' = [users EXCEPT ![n] = NoUser],
                 proc' = [proc EXCEPT ![p].todo = @ \ {n}]
          PROVE  AccountsInv'
      <3> DEFINE job == [proc[p] EXCEPT !.todo = @ \ {n}]
      <3>1. job \in Proc /\ job.at = "removing" /\ job.do = "remove" /\ job.username = proc[p].username
        BY <2>2 DEF Proc
      <3>2. proc' = [proc EXCEPT ![p] = job]
        BY <2>2, <2>4
      <3> HIDE DEF job
      <3>3. Becomes(p, job)
        BY <2>2, <3>1, <3>2 DEF Becomes
      <3>4. users' \in [Names -> Account \cup {NoUser}]
        BY <2>4 DEF AccountsInv, TypeInv, TypeOK
      <3>5. TypeOK'
        BY <2>2, <3>3, <3>4 DEF AccountsInv, TypeInv, TypeOK, Becomes
      <3>6. CallerIsInPlace(p)'
        BY <2>2, <3>1, <3>3 DEF CallerIsInPlace, Becomes, Places
      <3>7. WhereCallersAre'
        BY <2>2, <3>1, <3>3, <3>6, OthersStay DEF AccountsInv, TypeInv
      <3>8. SecretsAreNamed'
        BY <2>4 DEF AccountsInv, TypeInv, TypeOK, SecretsAreNamed
      <3>9. LinksInv'
        BY <2>2, <3>1, <3>3, LinksLeft DEF AccountsInv
      <3>10. PublishInv'
        BY <2>2, RemovedKeeps DEF AccountsInv
      <3> QED BY <3>5, <3>7, <3>8, <3>9, <3>10 DEF AccountsInv, TypeInv
    <2> QED BY <2>1, <2>3, <2>4 DEF DeleteLogin
  <1>3. CASE \E t \in Tokens : RevokeToken(t)
    <2>1. PICK t \in Tokens : /\ tokens' = [tokens EXCEPT ![t] = "gone"] /\ removed' = TRUE
                              /\ UNCHANGED <<users, space, links, boot, proc, known, uses, overlap, raced, died, hooked>>
      BY <1>3 DEF RevokeToken
    <2>2. TypeOK'
      BY <2>1 DEF AccountsInv, TypeInv, TypeOK
    <2>3. WhereCallersAre' /\ SecretsAreNamed'
      BY <2>1 DEF AccountsInv, TypeInv, WhereCallersAre, CallerIsInPlace, SecretsAreNamed
    <2>4. LinksInv'
      BY <2>1, LinksKept DEF AccountsInv
    <2>5. PublishInv'
      BY <2>1, RemovedKeeps DEF AccountsInv
    <2> QED BY <2>2, <2>3, <2>4, <2>5 DEF AccountsInv, TypeInv
  <1> QED BY <1>1, <1>2, <1>3

\* A hook that is done publishing: it wrote its credential down, it left one
\* alone that was there, or its credential is lost and died records it.
LEMMA PublisherGoes ==
  ASSUME AccountsAssumption, AccountsInv, NEW p \in Procs, Publishes(p), Becomes(p, Done),
         UNCHANGED <<users, tokens, known, removed, hooked>>, died => died', ~boot'.there => boot' = NoBoot,
         \/ died' /\ boot' = boot
         \/ boot' = boot /\ proc[p].do = "hook" /\ boot.password # None
         \/ boot' = boot /\ proc[p].do = "token" /\ boot.token # None
         \/ proc[p].do = "hook" /\ boot'.password = proc[p].pw /\ boot'.token = boot.token
         \/ proc[p].do = "token" /\ boot'.token = proc[p].token /\ boot'.password = boot.password
  PROVE  PublishInv'
  <1>1. /\ \A q \in Procs \ {p} : proc'[q] = proc[q]
        /\ ~Publishes(p)' /\ proc'[p].do = "none"
    BY IdleFacts DEF Becomes, Publishes
  <1>2. /\ proc[p].do \in {"hook", "token"}
        /\ proc[p].do = "hook" => proc[p].username \in hooked
        /\ proc[p].do = "token" => proc[p].token \in Tokens
    BY WhoIsWhere, HistoryType DEF Publishes, CallerIsInPlace
  <1>3. NothingIsForgotten'
    BY DEF AccountsInv, PublishInv, NothingIsForgotten
  <1>4. PublishersAreAlone'
    <2>1. SUFFICES ASSUME ~removed, OneAdminUsername
          PROVE  /\ \A r \in Procs : proc'[r].do = "hook" /\ Publishes(r)' =>
                      /\ users[SecretName[proc'[r].username]] # NoUser
                      /\ boot'.password = None
                      /\ \A q \in Procs : proc'[q].do = "hook" /\ Publishes(q)' => q = r
                 /\ boot'.password # None => \E v \in hooked : users[SecretName[v]] # NoUser
      BY DEF PublishersAreAlone, OneAdminUsername
    <2>2. /\ \A r \in Procs : proc[r].do = "hook" /\ Publishes(r) =>
               /\ users[SecretName[proc[r].username]] # NoUser
               /\ boot.password = None
               /\ \A q \in Procs : proc[q].do = "hook" /\ Publishes(q) => q = r
          /\ boot.password # None => \E v \in hooked : users[SecretName[v]] # NoUser
      BY <2>1 DEF AccountsInv, PublishInv, PublishersAreAlone
    <2>3. CASE proc[p].do = "hook"
      <3>1. \A r \in Procs : ~(proc'[r].do = "hook" /\ Publishes(r)')
        BY <1>1, <2>2, <2>3 DEF Publishes
      <3>2. users[SecretName[proc[p].username]] # NoUser
        BY <2>2, <2>3
      <3> QED BY <1>2, <2>3, <3>1, <3>2
    <2>4. CASE proc[p].do = "token"
      <3>1. boot'.password = boot.password
        BY <2>4
      <3> QED BY <1>1, <2>2, <3>1 DEF Publishes
    <2> QED BY <1>2, <2>3, <2>4
  <1>5. PasswordsAreKept'
    <2>1. SUFFICES ASSUME ~died', ~removed, OneAdminUsername, NEW k \in Names, users[k] # NoUser
          PROVE  \/ users[k].pw \in known
                 \/ users[k].pw = boot'.password
                 \/ \E r \in Procs : proc'[r].do = "hook" /\ Publishes(r)' /\ users[k].pw = proc'[r].pw
      BY DEF PasswordsAreKept, OneAdminUsername
    <2>2. \/ users[k].pw \in known
          \/ users[k].pw = boot.password
          \/ \E r \in Procs : proc[r].do = "hook" /\ Publishes(r) /\ users[k].pw = proc[r].pw
      BY <2>1 DEF AccountsInv, PublishInv, PasswordsAreKept
    <2>3. CASE proc[p].do = "token"
      <3>1. boot'.password = boot.password
        BY <2>1, <2>3
      <3>2. \A r \in Procs : proc[r].do = "hook" => proc'[r] = proc[r]
        BY <1>1, <2>3
      <3> QED BY <2>2, <3>1, <3>2 DEF Publishes
    <2>4. CASE proc[p].do = "hook"
      <3>1. /\ boot.password = None
            /\ \A q \in Procs : proc[q].do = "hook" /\ Publishes(q) => q = p
        BY <2>1, <2>4 DEF AccountsInv, PublishInv, PublishersAreAlone
      <3>2. boot'.password = proc[p].pw
        BY <2>1, <2>4, <3>1
      <3>3. users[k].pw # None
        BY <2>1 DEF AccountsInv, TypeInv, TypeOK, Account, Passwords, AccountsAssumption
      <3> QED BY <2>2, <3>1, <3>2, <3>3
    <2> QED BY <1>2, <2>3, <2>4
  <1>6. TokensAreLive'
    <2>1. SUFFICES ASSUME ~removed
          PROVE  /\ boot'.token # None => tokens[boot'.token] = "live"
                 /\ \A r \in Procs : proc'[r].do = "token" /\ Publishes(r)' => tokens[proc'[r].token] = "live"
      BY DEF TokensAreLive
    <2>2. /\ boot.token # None => tokens[boot.token] = "live"
          /\ \A r \in Procs : proc[r].do = "token" /\ Publishes(r) => tokens[proc[r].token] = "live"
      BY <2>1 DEF AccountsInv, PublishInv, TokensAreLive
    <2> QED BY <1>1, <2>2 DEF Publishes
  <1>7. SomeTokenIsKept'
    <2>1. SUFFICES ASSUME ~died', ~removed, \E t \in Tokens : tokens[t] = "live"
          PROVE  \/ \E t \in Tokens : tokens[t] = "live" /\ (t \in known \/ t = boot'.token)
                 \/ \E r \in Procs : proc'[r].do = "token" /\ Publishes(r)'
      BY DEF SomeTokenIsKept
    <2>2. \/ \E t \in Tokens : tokens[t] = "live" /\ (t \in known \/ t = boot.token)
          \/ \E r \in Procs : proc[r].do = "token" /\ Publishes(r)
      BY <2>1 DEF AccountsInv, PublishInv, SomeTokenIsKept
    <2>3. CASE proc[p].do = "hook"
      <3>1. boot'.token = boot.token
        BY <2>1, <2>3
      <3>2. \A r \in Procs : proc[r].do = "token" => proc'[r] = proc[r]
        BY <1>1, <2>3
      <3> QED BY <2>2, <3>1, <3>2 DEF Publishes
    <2>4. CASE proc[p].do = "token"
      <3>1. \/ boot'.token = proc[p].token
            \/ boot'.token = boot.token /\ boot.token # None
        BY <2>1, <2>4
      <3>2. /\ tokens[proc[p].token] = "live"
            /\ boot.token # None => tokens[boot.token] = "live" /\ boot.token \in Tokens
        BY <2>1, <2>4 DEF AccountsInv, PublishInv, TokensAreLive, TypeInv, TypeOK, Boot
      <3> QED BY <1>2, <2>4, <3>1, <3>2
    <2> QED BY <1>2, <2>3, <2>4
  <1> QED BY <1>3, <1>4, <1>5, <1>6, <1>7 DEF PublishInv

\* Such a step touches no account and no link.
LEMMA PublisherStays ==
  ASSUME AccountsInv, NEW p \in Procs, NEW job \in Proc, Becomes(p, job), CallerIsInPlace(p)',
         UNCHANGED <<users, space, links, uses, overlap, raced, removed, hooked>>,
         tokens' \in [Tokens -> {"unused", "live", "gone"}], boot' \in Boot,
         known' \subseteq Passwords \cup Tokens, died' \in BOOLEAN,
         job.at \notin {"spend", "clearing"}, job.do # "issue", PublishInv'
  PROVE  AccountsInv'
  <1>1. TypeOK'
    BY DEF AccountsInv, TypeInv, TypeOK, Becomes
  <1>2. WhereCallersAre' /\ SecretsAreNamed'
    BY OthersStay DEF AccountsInv, TypeInv, SecretsAreNamed
  <1>3. LinksInv'
    BY LinksLeft DEF AccountsInv
  <1> QED BY <1>1, <1>2, <1>3 DEF AccountsInv, TypeInv

\* TokenStore.Issue: the token is on its way to the Secret.
LEMMA IssueTokenStep ==
  ASSUME AccountsInv, NEW p \in Procs, NEW t \in Tokens, IssueToken(p, t)
  PROVE  AccountsInv'
  <1> DEFINE job == [proc[p] EXCEPT !.at = "publish", !.token = t]
  <1>1. /\ proc \in [Procs -> Proc] /\ proc[p] \in Proc /\ CallerIsInPlace(p)
        /\ proc[p].at = "issue" /\ proc[p].do = "token"
        /\ UNCHANGED <<users, space, links, boot, known, uses, overlap, raced, died, removed, hooked>>
        /\ proc' = [proc EXCEPT ![p].at = "publish", ![p].token = t]
        /\ tokens' = [tokens EXCEPT ![t] = "live"]
    BY WhoIsWhere, HistoryType DEF IssueToken, At, history
  <1>2. job \in Proc /\ job.at = "publish" /\ job.do = "token" /\ job.token = t
    BY <1>1 DEF Proc
  <1>3. proc' = [proc EXCEPT ![p] = job]
    BY <1>1, <1>2
  <1> HIDE DEF job
  <1>4. Becomes(p, job)
    BY <1>1, <1>2, <1>3 DEF Becomes
  <1>5. CallerIsInPlace(p)'
    BY <1>2, <1>4 DEF CallerIsInPlace, Becomes, Places
  <1>6. /\ tokens' \in [Tokens -> {"unused", "live", "gone"}] /\ boot' \in Boot
        /\ known' \subseteq Passwords \cup Tokens /\ died' \in BOOLEAN
        /\ tokens'[t] = "live"
        /\ \A s \in Tokens : tokens[s] = "live" => tokens'[s] = "live"
        /\ boot.token \in Tokens \cup {None}
    BY <1>1 DEF AccountsInv, TypeInv, TypeOK, Boot
  <1>7. /\ \A q \in Procs \ {p} : proc'[q] = proc[q]
        /\ proc'[p].do = "token" /\ proc'[p].token = t /\ Publishes(p)'
        /\ ~Publishes(p)
    BY <1>1, <1>2, <1>4 DEF Becomes, Publishes
  <1>8. PublishInv'
    <2>1. NothingIsForgotten' /\ PublishersAreAlone' /\ PasswordsAreKept'
      BY <1>1, <1>7 DEF AccountsInv, PublishInv, NothingIsForgotten, PublishersAreAlone, PasswordsAreKept,
                        OneAdminUsername, Publishes
    <2>2. TokensAreLive'
      <3>1. \A q \in Procs : proc[q].do = "token" /\ Publishes(q) => proc[q].token \in Tokens
        BY WhoIsWhere, HistoryType DEF CallerIsInPlace, Publishes
      <3> QED BY <1>1, <1>6, <1>7, <3>1 DEF AccountsInv, PublishInv, TokensAreLive, Publishes
    <2>3. SomeTokenIsKept'
      BY <1>7 DEF SomeTokenIsKept
    <2> QED BY <2>1, <2>2, <2>3 DEF PublishInv
  <1> QED BY <1>1, <1>2, <1>4, <1>5, <1>6, <1>8, PublisherStays

\* What a hook has to write down.
LEMMA KeyFacts ==
  ASSUME AccountsInv, NEW p \in Procs, Publishes(p)
  PROVE  \/ proc[p].do = "hook" /\ Key(p) = "password" /\ Value(p) = proc[p].pw /\ proc[p].pw \in Generated
         \/ proc[p].do = "token" /\ Key(p) = "token" /\ Value(p) = proc[p].token /\ proc[p].token \in Tokens
  BY WhoIsWhere, HistoryType DEF Publishes, Key, Value, CallerIsInPlace

\* A hook that goes on publishing.
LEMMA PublisherMoves ==
  ASSUME AccountsInv, NEW p \in Procs, Publishes(p), NEW place \in {"read", "patch"}, Moves(p, place),
         UNCHANGED <<users, space, links, tokens, boot, known, uses, overlap, raced, died, removed, hooked>>
  PROVE  AccountsInv'
  <1>1. PICK job \in Proc : Becomes(p, job)
    BY DEF Moves
  <1>2. /\ proc[p].do \in {"hook", "token"} /\ CallerIsInPlace(p)
        /\ IF proc[p].do = "hook" THEN proc[p].pw \in Generated ELSE proc[p].token \in Tokens
    BY WhoIsWhere, HistoryType DEF Publishes, CallerIsInPlace
  <1>3. place \in Places[proc[p].do]
    BY <1>2 DEF Places
  <1>4. WhereCallersAre'
    BY <1>2, <1>3, MoverStays DEF AccountsInv, TypeInv
  <1>5. job.at = place /\ job.do = proc[p].do
    BY <1>1 DEF Moves, Becomes
  <1>6. PublishInv'
    <2>1. Publishes(p)' /\ \A q \in Procs \ {p} : proc'[q] = proc[q]
      BY <1>1 DEF Moves, Becomes, Publishes
    <2>2. \A q \in Procs : Publishes(q)' <=> Publishes(q)
      BY <2>1 DEF Publishes
    <2> QED BY <2>1, <2>2, PublishKept DEF AccountsInv, Moves
  <1>7. CallerIsInPlace(p)'
    BY <1>4 DEF WhereCallersAre
  <1>8. /\ tokens' \in [Tokens -> {"unused", "live", "gone"}] /\ boot' \in Boot
        /\ known' \subseteq Passwords \cup Tokens /\ died' \in BOOLEAN
    BY DEF AccountsInv, TypeInv, TypeOK
  <1> QED BY <1>1, <1>2, <1>5, <1>6, <1>7, <1>8, PublisherStays

\* A hook that is done publishing keeps the rest.
LEMMA PublisherEnds ==
  ASSUME AccountsInv, NEW p \in Procs, Becomes(p, Done), PublishInv', boot' \in Boot, died' \in BOOLEAN,
         UNCHANGED <<users, space, links, tokens, known, uses, overlap, raced, removed, hooked>>
  PROVE  AccountsInv'
  <1>1. tokens' \in [Tokens -> {"unused", "live", "gone"}] /\ known' \subseteq Passwords \cup Tokens
    BY DEF AccountsInv, TypeInv, TypeOK
  <1> QED BY <1>1, IdleFacts, DoneIsInPlace, PublisherStays

\* writeInitialValues creates the Secret, or goes on to read it.
LEMMA PublishStep ==
  ASSUME AccountsAssumption, AccountsInv, NEW p \in Procs, Publish(p)
  PROVE  AccountsInv'
  <1>1. /\ Publishes(p) /\ proc \in [Procs -> Proc] /\ boot \in Boot /\ died \in BOOLEAN
        /\ UNCHANGED <<users, space, links, tokens, known, uses, overlap, raced, died, removed, hooked>>
    BY DEF Publish, At, Publishes, history, AccountsInv, TypeInv, TypeOK
  <1>2. CASE boot.there /\ Go(p, "read") /\ UNCHANGED boot
    BY <1>1, <1>2, GoFacts, PublisherMoves DEF Spots
  <1>3. CASE ~boot.there /\ boot' = [NoBoot EXCEPT !.there = TRUE, ![Key(p)] = Value(p)] /\ Finish(p)
    <2>1. Becomes(p, Done)
      BY <1>1, <1>3, FinishFacts
    <2>2. boot.password = None /\ boot.token = None
      BY <1>3 DEF AccountsInv, PublishInv, NothingIsForgotten, NoBoot
    <2>3. /\ boot' \in Boot /\ boot'.there
          /\ \/ proc[p].do = "hook" /\ boot'.password = proc[p].pw /\ boot'.token = None
             \/ proc[p].do = "token" /\ boot'.token = proc[p].token /\ boot'.password = None
      <3>1. CASE proc[p].do = "hook" /\ Key(p) = "password" /\ Value(p) = proc[p].pw /\ proc[p].pw \in Generated
        <4>1. boot' = [there |-> TRUE, password |-> proc[p].pw, token |-> None]
          BY <1>3, <3>1 DEF NoBoot
        <4> QED BY <3>1, <4>1 DEF Boot
      <3>2. CASE proc[p].do = "token" /\ Key(p) = "token" /\ Value(p) = proc[p].token /\ proc[p].token \in Tokens
        <4>1. boot' = [there |-> TRUE, password |-> None, token |-> proc[p].token]
          BY <1>3, <3>2 DEF NoBoot
        <4> QED BY <3>2, <4>1 DEF Boot
      <3> QED BY <1>1, <3>1, <3>2, KeyFacts
    <2>4. PublishInv'
      BY <1>1, <2>1, <2>2, <2>3, PublisherGoes
    <2> QED BY <1>1, <2>1, <2>3, <2>4, PublisherEnds
  <1> QED BY <1>2, <1>3 DEF Publish

\* It reads the Secret: a key that is there stays, and if nobody else publishes
\* there is none, unless it is that of another token.
LEMMA ReadBootStep ==
  ASSUME AccountsAssumption, AccountsInv, NEW p \in Procs, ReadBoot(p)
  PROVE  AccountsInv'
  <1>1. /\ Publishes(p) /\ proc \in [Procs -> Proc] /\ boot \in Boot /\ died \in BOOLEAN
        /\ UNCHANGED <<users, space, links, tokens, boot, known, uses, overlap, raced, removed, hooked>>
    BY DEF ReadBoot, At, Publishes, AccountsInv, TypeInv, TypeOK
  <1>2. CASE boot.there
    <2>1. UNCHANGED died
      BY <1>1, <1>2 DEF ReadBoot
    <2>2. CASE Go(p, "patch")
      BY <1>1, <2>1, <2>2, GoFacts, PublisherMoves DEF Spots
    <2>3. CASE boot[Key(p)] # None /\ Finish(p)
      <3>1. Becomes(p, Done)
        BY <1>1, <2>3, FinishFacts
      <3>2. \/ proc[p].do = "hook" /\ boot.password # None
            \/ proc[p].do = "token" /\ boot.token # None
        BY <1>1, <2>3, KeyFacts DEF Boot
      <3>3. PublishInv'
        BY <1>1, <1>2, <2>1, <3>1, <3>2, PublisherGoes
      <3> QED BY <1>1, <2>1, <3>1, <3>3, PublisherEnds
    <2> QED BY <1>2, <2>2, <2>3 DEF ReadBoot
  <1>3. CASE ~boot.there
    <2>1. died'
      BY <1>3 DEF ReadBoot
    <2>2. died' \in BOOLEAN
      BY <1>1 DEF ReadBoot
    <2>3. Becomes(p, Done)
      BY <1>1, <1>3, FinishFacts DEF ReadBoot
    <2>4. boot = NoBoot
      BY <1>3 DEF AccountsInv, PublishInv, NothingIsForgotten
    <2>5. PublishInv'
      BY <1>1, <1>3, <2>1, <2>3, <2>4, PublisherGoes
    <2> QED BY <1>1, <2>2, <2>3, <2>5, PublisherEnds
  <1> QED BY <1>2, <1>3

\* Or adds its key, if the Secret is still there.
LEMMA PatchBootStep ==
  ASSUME AccountsAssumption, AccountsInv, NEW p \in Procs, PatchBoot(p)
  PROVE  AccountsInv'
  <1>1. /\ Publishes(p) /\ proc \in [Procs -> Proc] /\ boot \in Boot /\ died \in BOOLEAN
        /\ UNCHANGED <<users, space, links, tokens, known, uses, overlap, raced, removed, hooked>>
        /\ Finish(p)
    BY DEF PatchBoot, At, Publishes, AccountsInv, TypeInv, TypeOK
  <1>2. Becomes(p, Done)
    BY <1>1, FinishFacts
  <1>3. CASE boot.there
    <2>1. UNCHANGED died
      BY <1>1, <1>3 DEF PatchBoot
    <2>2. /\ boot' \in Boot /\ boot'.there
          /\ \/ proc[p].do = "hook" /\ boot'.password = proc[p].pw /\ boot'.token = boot.token
             \/ proc[p].do = "token" /\ boot'.token = proc[p].token /\ boot'.password = boot.password
      <3>1. boot' = [boot EXCEPT ![Key(p)] = Value(p)]
        BY <1>3 DEF PatchBoot
      <3>2. CASE proc[p].do = "hook" /\ Key(p) = "password" /\ Value(p) = proc[p].pw /\ proc[p].pw \in Generated
        <4>1. boot' = [boot EXCEPT !.password = proc[p].pw]
          BY <3>1, <3>2
        <4> QED BY <1>1, <1>3, <3>2, <4>1 DEF Boot
      <3>3. CASE proc[p].do = "token" /\ Key(p) = "token" /\ Value(p) = proc[p].token /\ proc[p].token \in Tokens
        <4>1. boot' = [boot EXCEPT !.token = proc[p].token]
          BY <3>1, <3>3
        <4> QED BY <1>1, <1>3, <3>3, <4>1 DEF Boot
      <3> QED BY <1>1, <3>2, <3>3, KeyFacts
    <2>3. PublishInv'
      BY <1>1, <1>2, <2>1, <2>2, PublisherGoes
    <2> QED BY <1>1, <1>2, <2>1, <2>2, <2>3, PublisherEnds
  <1>4. CASE ~boot.there
    <2>1. died' /\ boot' = boot
      BY <1>4 DEF PatchBoot
    <2>2. died' \in BOOLEAN
      BY <1>1 DEF PatchBoot
    <2>3. boot = NoBoot
      BY <1>4 DEF AccountsInv, PublishInv, NothingIsForgotten
    <2>4. PublishInv'
      BY <1>1, <1>2, <1>4, <2>1, <2>3, PublisherGoes
    <2> QED BY <1>1, <1>2, <2>1, <2>2, <2>4, PublisherEnds
  <1> QED BY <1>3, <1>4

\* A caller that stops where it is: only what a hook had to write is lost.
LEMMA DiesStep ==
  ASSUME AccountsAssumption, AccountsInv, NEW p \in Procs, Dies(p)
  PROVE  AccountsInv'
  <1>1. /\ Finish(p) /\ proc \in [Procs -> Proc] /\ boot \in Boot /\ died \in BOOLEAN
        /\ UNCHANGED <<users, space, links, tokens, boot, known, uses, overlap, raced, removed, hooked>>
        /\ died' = (died \/ Publishes(p))
    BY DEF Dies, Publishes, AccountsInv, TypeInv, TypeOK
  <1>2. Becomes(p, Done)
    BY <1>1, FinishFacts
  <1>3. CASE Publishes(p)
    <2>1. died'
      BY <1>1, <1>3
    <2>2. died' \in BOOLEAN
      BY <1>1
    <2>3. ~boot'.there => boot' = NoBoot
      BY <1>1 DEF AccountsInv, PublishInv, NothingIsForgotten
    <2>4. PublishInv'
      BY <1>1, <1>2, <1>3, <2>1, <2>3, PublisherGoes
    <2> QED BY <1>1, <1>2, <2>2, <2>4, PublisherEnds
  <1>4. CASE ~Publishes(p)
    <2>1. UNCHANGED died
      BY <1>1, <1>4
    <2> QED BY <1>1, <1>2, <1>4, <2>1, EndKeeps DEF history
  <1> QED BY <1>3, <1>4

\* What the operator has read is known.
LEMMA OperatorReadsStep ==
  ASSUME AccountsAssumption, AccountsInv, OperatorReads
  PROVE  AccountsInv'
  <1>1. /\ boot \in Boot /\ boot' = NoBoot /\ proc' = proc
        /\ known' = known \cup ({boot.password, boot.token} \ {None})
        /\ UNCHANGED <<users, space, links, tokens, uses, overlap, raced, died, removed, hooked>>
    BY DEF OperatorReads, AccountsInv, TypeInv, TypeOK
  <1>2. /\ boot.password \in Generated \cup {None} /\ boot.token \in Tokens \cup {None}
        /\ boot'.password = None /\ boot'.token = None /\ boot' \in Boot
    BY <1>1 DEF Boot, NoBoot
  <1>3. TypeOK'
    <2>1. known' \subseteq Passwords \cup Tokens
      BY <1>1, <1>2 DEF AccountsInv, TypeInv, TypeOK, Passwords
    <2> QED BY <1>1, <1>2, <2>1 DEF AccountsInv, TypeInv, TypeOK
  <1>4. WhereCallersAre' /\ SecretsAreNamed'
    BY <1>1 DEF AccountsInv, TypeInv, WhereCallersAre, CallerIsInPlace, SecretsAreNamed
  <1>5. LinksInv'
    BY <1>1, LinksKept DEF AccountsInv
  <1>6. PublishInv'
    <2>1. NothingIsForgotten' /\ PublishersAreAlone' /\ TokensAreLive'
      BY <1>1, <1>2 DEF AccountsInv, PublishInv, NothingIsForgotten, PublishersAreAlone, TokensAreLive,
                        OneAdminUsername, Publishes
    <2>2. PasswordsAreKept'
      <3>1. \A n \in Names : users[n] # NoUser => users[n].pw # None
        BY DEF AccountsInv, TypeInv, TypeOK, Account, Passwords, AccountsAssumption
      <3> QED BY <1>1, <3>1 DEF AccountsInv, PublishInv, PasswordsAreKept, OneAdminUsername, Publishes
    <2>3. SomeTokenIsKept'
      <3>1. None \notin Tokens
        BY DEF AccountsAssumption
      <3> QED BY <1>1, <3>1 DEF AccountsInv, PublishInv, SomeTokenIsKept, Publishes
    <2> QED BY <2>1, <2>2, <2>3 DEF PublishInv
  <1> QED BY <1>3, <1>4, <1>5, <1>6 DEF AccountsInv, TypeInv

-----------------------------------------------------------------------------
(* What holds of every behaviour *)

\* The invariant holds before the first install, and after one.
LEMMA InitKeeps ==
  ASSUME AccountsAssumption, Init
  PROVE  AccountsInv
  <1>1. /\ users \in [Names -> Account \cup {NoUser}]
        /\ \A n \in Names : users[n] # NoUser => n = SecretName[users[n].username] /\ users[n].pw \in Chosen
    <2>1. CASE users = [n \in Names |-> NoUser]
      BY <2>1
    <2>2. ASSUME NEW u \in Usernames, NEW pw \in Chosen,
                 users = [n \in Names |-> IF n = SecretName[u] THEN [username |-> u, pw |-> pw] ELSE NoUser]
          PROVE  <1>1
      <3>1. [username |-> u, pw |-> pw] \in Account
        BY DEF Account, Passwords
      <3> QED BY <2>2, <3>1
    <2> QED BY <2>1, <2>2 DEF Init
  <1>2. /\ space \in BOOLEAN /\ boot = NoBoot /\ known = Chosen /\ overlap = {} /\ hooked = {}
        /\ raced = FALSE /\ died = FALSE /\ removed = FALSE
        /\ proc = [p \in Procs |-> Idle] /\ tokens = [t \in Tokens |-> "unused"]
        /\ links = [l \in Links |-> [state |-> "unused", username |-> None, expired |-> FALSE]]
        /\ uses = [l \in Links |-> 0]
    BY DEF Init
  <1>3. /\ \A p \in Procs : proc[p] = Idle
        /\ proc \in [Procs -> Proc] /\ NoBoot \in Boot /\ ~NoBoot.there
        /\ NoBoot.password = None /\ NoBoot.token = None
        /\ links \in [Links -> LinkStates]
    BY <1>2, IdleFacts DEF NoBoot, Boot, LinkStates
  <1>4. TypeOK
    BY <1>1, <1>2, <1>3 DEF TypeOK, Passwords
  <1>5. WhereCallersAre
    BY <1>3, IdleFacts DEF WhereCallersAre, CallerIsInPlace, Places
  <1>6. SecretsAreNamed
    BY <1>1 DEF SecretsAreNamed
  <1>7. LinksInv
    BY <1>2, <1>3, IdleFacts DEF LinksInv, SpendersAreAlone, IssuersAreAlone, At
  <1>8. PublishInv
    BY <1>1, <1>2, <1>3, IdleFacts DEF PublishInv, NothingIsForgotten, PublishersAreAlone, PasswordsAreKept,
                               TokensAreLive, SomeTokenIsKept, Publishes
  <1> QED BY <1>4, <1>5, <1>6, <1>7, <1>8 DEF AccountsInv, TypeInv

\* Every step keeps it.
LEMMA NextKeeps ==
  ASSUME AccountsAssumption, AccountsInv, [Next]_vars
  PROVE  AccountsInv'
  <1>1. ASSUME NEW p \in Procs,
               \/ \E u \in Usernames :
                    \/ \E pw \in Chosen : AdminCreates(p, u, pw)
                    \/ \E pw \in Passwords : HookStarts(p, u, pw)
                    \/ \E current \in Passwords, pw \in Chosen : ChangeStarts(p, u, current, pw)
                    \/ RemoveStarts(p, u)
               \/ \E l \in Links, pw \in Chosen : ResetStarts(p, l, pw)
               \/ TokenHookStarts(p)
        PROVE  AccountsInv'
    BY <1>1, BeginSteps
  <1>2. ASSUME NEW p \in Procs,
               \/ EnsureSpace(p) \/ HookLists(p) \/ FindFree(p) \/ HasAny(p)
               \/ Verify(p) \/ FindAccount(p) \/ ListLogins(p)
               \/ CreateUser(p) \/ WritePassword(p)
        PROVE  AccountsInv'
    BY <1>2, LookSteps, FindSteps, ListLoginsStep, CreateUserStep, WritePasswordStep
  <1>3. ASSUME NEW p \in Procs,
               \/ \E u \in Usernames : IssueStarts(p, u)
               \/ \E l \in Links : ClearLink(p, l) \/ StoreLink(p, l)
               \/ Match(p) \/ Spend(p) \/ ListStale(p)
        PROVE  AccountsInv'
    BY <1>3, IssueStartsStep, ClearLinkStep, StoreLinkStep, MatchStep, SpendStep, ListStaleStep
  <1>4. ASSUME NEW p \in Procs,
               \/ \E t \in Tokens : IssueToken(p, t)
               \/ Publish(p) \/ ReadBoot(p) \/ PatchBoot(p) \/ Dies(p)
        PROVE  AccountsInv'
    BY <1>4, IssueTokenStep, PublishStep, ReadBootStep, PatchBootStep, DiesStep
  <1>5. CASE \/ OperatorReads
             \/ \E t \in Tokens : RevokeToken(t)
             \/ \E l \in Links : ExpireLink(l)
             \/ \E n \in Names : RemoveLogin(n)
             \/ \E p \in Procs : DeleteLogin(p)
    BY <1>5, OperatorReadsStep, ExpireStep, RemoveSteps
  <1>6. CASE UNCHANGED vars
    <2>1. UNCHANGED <<users, space, links, tokens, boot, proc, known, uses, overlap, raced, died, removed, hooked>>
      BY <1>6 DEF vars
    <2>2. TypeOK'
      BY <2>1 DEF AccountsInv, TypeInv, TypeOK
    <2>3. WhereCallersAre' /\ SecretsAreNamed'
      BY <2>1 DEF AccountsInv, TypeInv, WhereCallersAre, CallerIsInPlace, SecretsAreNamed
    <2>4. LinksInv'
      BY <2>1, LinksKept DEF AccountsInv
    <2>5. PublishInv'
      BY <2>1, PublishKept DEF AccountsInv, Publishes
    <2> QED BY <2>2, <2>3, <2>4, <2>5 DEF AccountsInv, TypeInv
  <1> QED BY <1>1, <1>2, <1>3, <1>4, <1>5, <1>6 DEF Next

\* The inductive invariant: callers are where they belong, an account is in the
\* Secret that is named after it, and nobody is alone with a link, an account's
\* links or a credential unless the history says so.
THEOREM AccountsInvariant ==
  ASSUME AccountsAssumption
  PROVE  Spec => []AccountsInv
  <1>1. Init => AccountsInv
    BY InitKeeps
  <1>2. AccountsInv /\ [Next]_vars => AccountsInv'
    BY NextKeeps
  <1> QED BY <1>1, <1>2, PTL DEF Spec

\* The state has its type.
THEOREM TypeCorrect ==
  ASSUME AccountsAssumption
  PROVE  Spec => []TypeOK
  <1>1. AccountsInv => TypeOK
    BY DEF AccountsInv, TypeInv
  <1> QED BY <1>1, AccountsInvariant, PTL

\* LocalUserStore.Create: one username never has two accounts, since the name
\* of the Secret follows from it.
THEOREM AccountsAreUnique ==
  ASSUME AccountsAssumption
  PROVE  Spec => []OneAccountPerUsername
  <1>1. AccountsInv => OneAccountPerUsername
    <2>1. SUFFICES ASSUME AccountsInv, NEW u \in Usernames
                   PROVE  Cardinality(Found(u)) <= 1
      BY DEF OneAccountPerUsername
    <2>2. Found(u) \subseteq {SecretName[u]}
      BY <2>1 DEF AccountsInv, SecretsAreNamed, Found, NoUser, AccountsAssumption
    <2>3. IsFiniteSet({SecretName[u]}) /\ Cardinality({SecretName[u]}) = 1
      BY FS_Singleton
    <2>4. Cardinality(Found(u)) <= Cardinality({SecretName[u]})
      BY <2>2, <2>3, FS_Subset
    <2> QED BY <2>3, <2>4
  <1> QED BY <1>1, AccountsInvariant, PTL

\* ResetStore: a link is spent twice, or an account has two live links, only
\* when two requests were at it at once.
THEOREM LinksNeedARace ==
  ASSUME AccountsAssumption
  PROVE  Spec => []LinkAbuseNeedsRace
  <1>1. AccountsInv => LinkAbuseNeedsRace
    BY DEF AccountsInv, LinksInv, SpendersAreAlone, IssuersAreAlone, LinkAbuseNeedsRace
  <1> QED BY <1>1, AccountsInvariant, PTL

\* internal/bootstrap: unless a hook stopped before it wrote down what it had
\* made up, or something was removed, some administrator token can be read by a
\* person, and with one configured username so can every password.
THEOREM NobodyIsLockedOut ==
  ASSUME AccountsAssumption
  PROVE  Spec => []NoLockoutWithoutCrash
  <1>1. AccountsInv => NoLockoutWithoutCrash
    <2>1. SUFFICES ASSUME AccountsInv, ~died, ~removed
          PROVE  /\ (\A u, v \in hooked : u = v) => EveryoneHasAPassword
                 /\ (\E t \in Tokens : tokens[t] = "live") =>
                      \E t \in Tokens : tokens[t] = "live" /\ t \in Published
      BY DEF NoLockoutWithoutCrash
    <2>2. \A p \in Procs : Publishes(p) => Value(p) \in Published
      BY DEF Publishes, Published
    <2>3. known \subseteq Published /\ {boot.password, boot.token} \subseteq Published
      BY DEF Published
    <2>4. ASSUME \A u, v \in hooked : u = v, NEW n \in Names, users[n] # NoUser
          PROVE  users[n].pw \in Published
      <3>1. \/ users[n].pw \in known
            \/ users[n].pw = boot.password
            \/ \E p \in Procs : proc[p].do = "hook" /\ Publishes(p) /\ users[n].pw = proc[p].pw
        BY <2>1, <2>4 DEF AccountsInv, PublishInv, PasswordsAreKept, OneAdminUsername
      <3> QED BY <2>2, <2>3, <3>1 DEF Value
    <2>5. ASSUME NEW s \in Tokens, tokens[s] = "live"
          PROVE  \E t \in Tokens : tokens[t] = "live" /\ t \in Published
      <3>1. \/ \E t \in Tokens : tokens[t] = "live" /\ (t \in known \/ t = boot.token)
            \/ \E p \in Procs : proc[p].do = "token" /\ Publishes(p)
        BY <2>1, <2>5 DEF AccountsInv, PublishInv, SomeTokenIsKept
      <3>2. ASSUME NEW p \in Procs, proc[p].do = "token", Publishes(p)
            PROVE  \E t \in Tokens : tokens[t] = "live" /\ t \in Published
        <4>1. proc[p].token \in Tokens /\ Value(p) = proc[p].token
          BY <2>1, <3>2, KeyFacts
        <4>2. tokens[proc[p].token] = "live"
          BY <2>1, <3>2 DEF AccountsInv, PublishInv, TokensAreLive
        <4> QED BY <2>2, <3>2, <4>1, <4>2
      <3> QED BY <2>3, <3>1, <3>2
    <2> QED BY <2>4, <2>5 DEF EveryoneHasAPassword
  <1> QED BY <1>1, AccountsInvariant, PTL
=============================================================================
