------------------------------ MODULE Sessions ------------------------------
(***************************************************************************)
(* Signing in, the session behind a cookie, and signing out:               *)
(* internal/auth/session.go, internal/ui/auth_handlers.go (LoginFlow),     *)
(* login.go, middleware.go, api_middleware.go (cookies), challenges.go,    *)
(* csrf.go and the identity kept for the onboarding wizard.                *)
(*                                                                         *)
(* The UI process keeps four maps in memory, each under a lock of its own: *)
(* the sessions, the identities resolved for them, the CSRF tokens and the *)
(* login challenges.  A request walks over them one lock at a time, so any *)
(* two requests interleave between two maps.  A restart empties all four.  *)
(*                                                                         *)
(* A session identifier, a state and a token are random and never repeat:  *)
(* a fresh model value stands for each.  An expiry is kept as the time     *)
(* left until then, which Tick counts down.  Left out: cookies'            *)
(* attributes, the redirect target after login, the role in an identity    *)
(* (UserSpaceAdmission has it), nonce and PKCE values, wording.            *)
(***************************************************************************)
EXTENDS Naturals, FiniteSets

CONSTANTS Sids,         \* session identifiers
          Challenges,   \* states of login challenges
          Reqs,         \* HTTP requests that may be under way together
          None,         \* no session, no challenge
          TTLs,         \* the idle windows: sessionTTL, rememberedSessionTTL
          ChallengeTTL  \* defaultChallengeTTL

ASSUME SessionsAssumption ==
  /\ TTLs \subseteq Nat \ {0} /\ TTLs # {}
  /\ ChallengeTTL \in Nat \ {0}
  /\ None \notin Sids \cup Challenges

VARIABLES
  sessions,    \* SessionStore.sessions
  identities,  \* LoginFlow.identities: the sessions that have one
  csrf,        \* CSRFStore.tokens: the sessions that have one
  challenges,  \* ChallengeStore.challenges
  request,     \* per request, where its handler stands
  issued,      \* history: the identifiers a session was created under
  opener,      \* history: the challenge a session was opened with
  turnedDown   \* history: the sessions that outlived a token Refresh turned down

vars == <<sessions, identities, csrf, challenges, request, issued, opener, turnedDown>>
maps == <<sessions, identities, csrf, challenges>>
history == <<issued, opener, turnedDown>>

NoSession == [left |-> 0, ttl |-> 0]
Providers == {"github", "oidc"}
NoChallenge == [left |-> 0, by |-> "none"]

\* "get" to "forget" are sessionIdentity, entered for several reasons.
Places == {"idle", "get", "identity", "forget", "refresh", "unrefresh", "ensure",
           "valid", "onboarding", "delete", "drop", "csrf", "create", "store"}
Reasons == {"check", "mint", "logout", "landing"}
LoginKinds == {"local", "api", "callback"}
Kinds == {"page", "logout", "onboarding"} \cup LoginKinds

Request == [at : Places, why : Reasons, kind : Kinds, sid : Sids \cup {None},
            ttl : TTLs, ch : Challenges \cup {None}]

Idle == [at |-> "idle", why |-> "check", kind |-> "page", sid |-> None,
         ttl |-> CHOOSE t \in TTLs : TRUE, ch |-> None]

Live(s) == sessions[s] # NoSession /\ sessions[s].left > 0
At(r, place) == request[r].at = place

Go(r, place) == request' = [request EXCEPT ![r].at = place]
Enter(r, why) == request' = [request EXCEPT ![r].at = "get", ![r].why = why]
Finish(r) == request' = [request EXCEPT ![r] = Idle]

Init ==
  /\ sessions = [s \in Sids |-> NoSession]
  /\ identities = {}
  /\ csrf = {}
  /\ challenges = [c \in Challenges |-> NoChallenge]
  /\ request = [r \in Reqs |-> Idle]
  /\ issued = {} /\ opener = [s \in Sids |-> None] /\ turnedDown = {}

-----------------------------------------------------------------------------
(* Signing in. *)

\* newChallenge, which ChallengeStore.Put keeps with its provider.
Challenge(p) == [left |-> ChallengeTTL, by |-> p]

\* beginLogin: a fresh state.
BeginLogin(c, p) ==
  /\ challenges[c] = NoChallenge /\ \A s \in Sids : opener[s] # c
  /\ \A r \in Reqs : request[r].ch # c
  /\ challenges' = [challenges EXCEPT ![c] = Challenge(p)]
  /\ UNCHANGED <<sessions, identities, csrf, request, history>>

\* ChallengeStore.Take: whatever comes of it, the challenge is gone.
Take(c) == challenges' = [challenges EXCEPT ![c] = NoChallenge]

\* What the provider answers when the code is redeemed: whether it takes the
\* code and the verifier, and what the token it gives then proves.
Answers == [{"code", "token", "nonce", "email", "username", "verified"} -> BOOLEAN]

OIDCIdentifies(a) == a.code /\ a.token /\ a.nonce /\ (a.email \/ a.username)
GitHubIdentifies(a) == a.code /\ a.token /\ a.email /\ a.verified
Identifies(p, a) == IF p = "github" THEN GitHubIdentifies(a) ELSE OIDCIdentifies(a)

\* handleCompleteLogin up to the claims: the browser brings back the state
\* its cookie holds, to the path of some provider.
Callback(r, c, p, ttl) ==
  /\ At(r, "idle")
  /\ Take(c)
  /\ \E identified \in {Identifies(p, a) : a \in Answers} :
       IF identified /\ challenges[c].left > 0 /\ challenges[c].by = p
         THEN request' = [request EXCEPT ![r] =
                [Idle EXCEPT !.at = "create", !.kind = "callback", !.ch = c, !.ttl = ttl]]
         ELSE UNCHANGED request
  /\ UNCHANGED <<sessions, identities, csrf, history>>

\* handleLocalLogin, with the right user name and password (Accounts says
\* which those are).
LocalLogin(r, ttl) ==
  /\ At(r, "idle")
  /\ request' = [request EXCEPT ![r] = [Idle EXCEPT !.at = "create", !.kind = "local", !.ttl = ttl]]
  /\ UNCHANGED <<maps, history>>

\* handleAPILocalLogin: the shorter window, and no landing page to look up.
APILogin(r, ttl) ==
  /\ At(r, "idle") /\ \A t \in TTLs : ttl <= t
  /\ request' = [request EXCEPT ![r] = [Idle EXCEPT !.at = "create", !.kind = "api", !.ttl = ttl]]
  /\ UNCHANGED <<maps, history>>

\* ResolveByEmail: exactly one UserSpace of that owner.
Resolves(found) == found = 1

\* sessionIdentityFrom, the one gate of every way in: the namespace is there
\* and the account is not disabled.
Admits(published, disabled) == published /\ ~disabled

LoginFails(r, found, published, disabled) ==
  /\ At(r, "create") /\ ~(Resolves(found) /\ Admits(published, disabled))
  /\ Finish(r)
  /\ UNCHANGED <<maps, history>>

\* SessionStore.CreateWithTTL.
Create(r, s, found, published, disabled) ==
  /\ At(r, "create") /\ Resolves(found) /\ Admits(published, disabled) /\ s \notin issued
  /\ sessions' = [sessions EXCEPT ![s] = [left |-> request[r].ttl, ttl |-> request[r].ttl]]
  /\ request' = [request EXCEPT ![r].at = "store", ![r].sid = s, ![r].ch = None]
  /\ issued' = issued \cup {s}
  /\ opener' = [opener EXCEPT ![s] = request[r].ch]
  /\ UNCHANGED <<identities, csrf, challenges, turnedDown>>

\* storeIdentity.
StoreIdentity(r) ==
  /\ At(r, "store")
  /\ identities' = identities \cup {request[r].sid}
  /\ Go(r, "ensure")
  /\ UNCHANGED <<sessions, csrf, challenges, history>>

-----------------------------------------------------------------------------
(* A request that brings the cookie of a session. *)

\* Any request may bring an identifier that was handed out, also one whose
\* session has ended meanwhile.
Arrive(r, kind, s) ==
  /\ At(r, "idle") /\ s \in issued
  /\ \A q \in Reqs : request[q].sid = s => request[q].kind \notin LoginKinds
  /\ request' = [request EXCEPT ![r] = [Idle EXCEPT !.at = "get", !.kind = kind, !.sid = s]]
  /\ UNCHANGED <<maps, history>>

\* SessionStore.Get: an expired session is deleted by whoever asks for it.
Get(r) ==
  LET s == request[r].sid IN
  /\ At(r, "get")
  /\ sessions' = [sessions EXCEPT ![s] = IF Live(s) THEN @ ELSE NoSession]
  /\ Go(r, IF Live(s) THEN "identity" ELSE "forget")
  /\ UNCHANGED <<identities, csrf, challenges, history>>

\* What sessionIdentity's caller does with an error: withSession drops the
\* CSRF token, MintTokenForSession gives up, Logout takes a missing session
\* for success and a missing identity for a failure.
Failed(r, missing) ==
  CASE request[r].why = "check" -> Go(r, "csrf")
    [] request[r].why = "logout" /\ missing -> Go(r, "csrf")
    [] OTHER -> Finish(r)

\* deleteIdentity in sessionIdentity.
Forget(r) ==
  /\ At(r, "forget")
  /\ identities' = identities \ {request[r].sid}
  /\ Failed(r, TRUE)
  /\ UNCHANGED <<sessions, csrf, challenges, history>>

\* The second half of sessionIdentity.
ReadIdentity(r) ==
  /\ At(r, "identity")
  /\ IF request[r].sid \notin identities
       THEN Failed(r, FALSE)
       ELSE CASE request[r].why = "check"   -> Enter(r, "mint")
              [] request[r].why = "mint"    -> Go(r, "refresh")
              [] request[r].why = "logout"  -> Go(r, "delete")
              [] request[r].why = "landing" -> Finish(r)
  /\ UNCHANGED <<maps, history>>

\* Mint asks the API server, which may refuse or not answer.
MintFails(r) ==
  /\ At(r, "refresh") /\ Finish(r)
  /\ UNCHANGED <<maps, history>>

\* Mutant of Refresh: the session that was read before the token was minted
\* is written back, whether it is still there or not.
RefreshBlindly(r, usable) ==
  LET s == request[r].sid IN
  /\ At(r, "refresh")
  /\ sessions' = [sessions EXCEPT ![s] = [left |-> request[r].ttl, ttl |-> request[r].ttl]]
  /\ Go(r, "ensure")
  /\ UNCHANGED <<identities, csrf, challenges, history>>

\* A token was minted.  SessionStore.Refresh turns it down before it looks at the
\* session when the token is empty or its expiry is not to come (the two clocks
\* disagree); otherwise it moves the expiry of a session that is still there.
Refresh(r, usable) ==
  LET s == request[r].sid
      kept == usable /\ Live(s)
  IN
  /\ At(r, "refresh")
  /\ sessions' = [sessions EXCEPT ![s] =
       IF ~usable THEN @ ELSE IF Live(s) THEN [@ EXCEPT !.left = sessions[s].ttl] ELSE NoSession]
  /\ Go(r, IF kept THEN "ensure" ELSE "unrefresh")
  /\ turnedDown' = IF usable \/ sessions[s] = NoSession THEN turnedDown ELSE turnedDown \cup {s}
  /\ UNCHANGED <<identities, csrf, challenges, issued, opener>>

\* deleteIdentity in MintTokenForSession, whatever Refresh failed on: a session
\* whose token was turned down stays, without its identity.
Unrefresh(r) ==
  /\ At(r, "unrefresh")
  /\ identities' = identities \ {request[r].sid}
  /\ Finish(r)
  /\ UNCHANGED <<sessions, csrf, challenges, history>>

\* CSRFStore.Ensure, at the end of a login and in every request.  A login of a
\* browser then looks up where to send it (landingPath).
Ensure(r) ==
  /\ At(r, "ensure")
  /\ csrf' = csrf \cup {request[r].sid}
  /\ CASE request[r].kind = "api" -> Finish(r)
       [] request[r].kind \in {"local", "callback"} -> Enter(r, "landing")
       [] OTHER -> Go(r, "valid")
  /\ UNCHANGED <<sessions, identities, challenges, history>>

\* CSRFStore.Valid, asked for what changes something: carries says whether
\* the request brings the token.  Then the handler runs; what most of them do
\* is not in these maps.
Valid(r, method, carries) ==
  /\ At(r, "valid") /\ (request[r].kind # "page" => method # "GET")
  /\ IF method # "GET" /\ ~(carries /\ request[r].sid \in csrf) THEN Finish(r)
     ELSE CASE request[r].kind = "page"       -> Finish(r)
            [] request[r].kind = "onboarding" -> Go(r, "onboarding")
            [] request[r].kind = "logout"     -> Enter(r, "logout")
  /\ UNCHANGED <<maps, history>>

\* Mutant of CompleteOnboarding: the identity read at the start is stored.
CompleteOnboardingBlindly(r) ==
  /\ At(r, "onboarding")
  /\ identities' = identities \cup {request[r].sid}
  /\ Finish(r)
  /\ UNCHANGED <<sessions, csrf, challenges, history>>

\* handleOnboardingComplete: a patch of the UserSpace, which may fail, and
\* MarkOnboardingCompleted, which rewrites the identity if it is still there.
CompleteOnboarding(r) ==
  /\ At(r, "onboarding")
  /\ identities' = identities \cup ({request[r].sid} \cap identities)
  /\ Finish(r)
  /\ UNCHANGED <<sessions, csrf, challenges, history>>

-----------------------------------------------------------------------------
(* handleLogout and LoginFlow.Logout: sessionIdentity, then one map after the *)
(* other.                                                                     *)

\* Mutant of DeleteSession: signing out does no more than clear the cookie.
ClearCookieOnly(r) ==
  /\ At(r, "delete") /\ Finish(r)
  /\ UNCHANGED <<maps, history>>

\* SessionStore.Delete.
DeleteSession(r) ==
  /\ At(r, "delete")
  /\ sessions' = [sessions EXCEPT ![request[r].sid] = NoSession]
  /\ Go(r, "drop")
  /\ UNCHANGED <<identities, csrf, challenges, history>>

\* deleteIdentity in Logout.
DropIdentity(r) ==
  /\ At(r, "drop")
  /\ identities' = identities \ {request[r].sid}
  /\ Go(r, "csrf")
  /\ UNCHANGED <<sessions, csrf, challenges, history>>

\* CSRFStore.Delete, of a logout and of a request without a session.
DropToken(r) ==
  /\ At(r, "csrf")
  /\ csrf' = csrf \ {request[r].sid}
  /\ Finish(r)
  /\ UNCHANGED <<sessions, identities, challenges, history>>

-----------------------------------------------------------------------------
(* The world around the process. *)

Tick ==
  /\ sessions' = [s \in Sids |-> [sessions[s] EXCEPT !.left = IF @ = 0 THEN 0 ELSE @ - 1]]
  /\ challenges' = [c \in Challenges |-> [challenges[c] EXCEPT !.left = IF @ = 0 THEN 0 ELSE @ - 1]]
  /\ UNCHANGED <<identities, csrf, request, history>>

\* The UI runs one replica: a restart drops the maps and what is under way.
Restart ==
  /\ sessions' = [s \in Sids |-> NoSession]
  /\ identities' = {}
  /\ csrf' = {}
  /\ challenges' = [c \in Challenges |-> NoChallenge]
  /\ request' = [r \in Reqs |-> Idle]
  /\ UNCHANGED <<history>>

Step(r) ==
  \/ \E found \in 0 .. 2, published, disabled \in BOOLEAN :
       \/ LoginFails(r, found, published, disabled)
       \/ \E s \in Sids : Create(r, s, found, published, disabled)
  \/ \E m \in {"GET", "POST"}, carries \in BOOLEAN : Valid(r, m, carries)
  \/ \E usable \in BOOLEAN : Refresh(r, usable)
  \/ StoreIdentity(r) \/ Get(r) \/ Forget(r) \/ ReadIdentity(r) \/ MintFails(r) \/ Unrefresh(r)
  \/ Ensure(r) \/ CompleteOnboarding(r) \/ DeleteSession(r) \/ DropIdentity(r) \/ DropToken(r)

Next ==
  \/ \E r \in Reqs :
       \/ Step(r)
       \/ \E t \in TTLs : LocalLogin(r, t) \/ APILogin(r, t) \/ \E c \in Challenges, p \in Providers : Callback(r, c, p, t)
       \/ \E s \in Sids, k \in {"page", "logout", "onboarding"} : Arrive(r, k, s)
  \/ \E c \in Challenges, p \in Providers : BeginLogin(c, p)
  \/ Tick \/ Restart

Spec == Init /\ [][Next]_vars

-----------------------------------------------------------------------------

TypeOK ==
  /\ sessions \in [Sids -> [left : Nat, ttl : TTLs] \cup {NoSession}]
  /\ identities \subseteq issued
  /\ csrf \subseteq issued
  /\ challenges \in [Challenges -> [left : Nat, by : Providers] \cup {NoChallenge}]
  /\ request \in [Reqs -> Request]
  /\ issued \subseteq Sids
  /\ opener \in [Sids -> Challenges \cup {None}]
  /\ turnedDown \subseteq issued

\* While a session is good and its login is over, the identity behind it and
\* the token of its forms are there, unless a token minted for it was turned down.
SignedInIsComplete ==
  \A s \in Sids \ turnedDown :
    Live(s) /\ (\A r \in Reqs : request[r].sid = s => request[r].kind \notin LoginKinds)
      => s \in csrf \cap identities

\* With no request under way, a session and its identity are there together, and
\* a session that a token was turned down for has none.
NothingOutlivesSession ==
  (\A r \in Reqs : At(r, "idle"))
    => \A s \in issued : s \in identities <=> sessions[s] # NoSession /\ s \notin turnedDown

\* Three maps keep what is known of a session and no lock spans two of them
\* (auth_handlers.go, middleware.go).  However requests interleave, a logout of the
\* same session, an expiry or a mint that fails among them, somebody who is signed
\* in has everything a request needs, and no way out of a request leaves an
\* identity without a session.  One way leaves a session without an identity, for
\* good: a minted token that Refresh turns down (MintTokenForSession).
SessionMapsAgree == SignedInIsComplete /\ NothingOutlivesSession

\* The maps implement what signing in promises (Logins): an ended session is
\* never good again, also when a request that began before the end is still
\* minting a token for it, and a challenge opens one session at most, also
\* when its callback arrives twice.
L == INSTANCE Logins WITH
       open  <- {s \in Sids : Live(s)},
       ended <- {s \in issued : ~Live(s)}

LoginsRefined == L!Spec

\* Signing out works: however a logout ends, with a redirect, an error page
\* or a restart, the session it was asked to end is not good any more, even
\* when a second logout or an expiry got in between (handleLogout).  Only where a
\* token was turned down does Logout find no identity, show an error page and
\* leave the session as it is.
LogoutEnds ==
  [][\A r \in Reqs, s \in Sids \ turnedDown :
       request[r].why = "logout" /\ request[r].sid = s /\ request'[r].at = "idle" => ~Live(s)']_vars
=============================================================================
