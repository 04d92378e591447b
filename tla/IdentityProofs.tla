--------------------------- MODULE IdentityProofs ---------------------------
(***************************************************************************)
(* What holds of the two halves of signing in.                             *)
(*                                                                         *)
(*   - Sessions, for every number of sessions, challenges and requests     *)
(*     under way, and for every idle window: the three maps agree, signing *)
(*     out works, and the maps implement Logins.                           *)
(*   - MCIdentity: the local accounts have beside the sessions what        *)
(*     AccountsProofs shows of them alone.                                 *)
(***************************************************************************)
EXTENDS MCIdentity, TLAPS

-----------------------------------------------------------------------------
(* The inductive invariant *)

\* Where the handler of a request can stand, and with which session: a login
\* looks its session up once, to land, and a session is named by nobody before
\* it is issued.
WhereRequestsAre ==
  \A r \in Reqs :
    /\ At(r, "idle") => request[r] = Idle
    /\ request[r].sid = None <=> request[r].at \in {"idle", "create"}
    /\ request[r].sid \in issued \cup {None}
    /\ At(r, "create") \/ At(r, "store") => request[r].kind \in LoginKinds
    /\ request[r].kind \in LoginKinds =>
         request[r].at \in {"create", "store", "ensure", "get", "identity", "forget"}
    /\ request[r].at \in {"get", "identity", "forget"} =>
         (request[r].kind \in LoginKinds <=> request[r].why = "landing")
    /\ request[r].why = "logout" =>
         request[r].at \in {"get", "identity", "forget", "delete", "drop", "csrf"}

\* Until its login is over, a session is known to the login alone.
LoginsAreAlone ==
  \A q, r \in Reqs :
    request[r].kind \in LoginKinds /\ request[r].sid # None
      /\ request[q].sid = request[r].sid => q = r

\* A session is there only under an identifier that was issued, and it is there,
\* with no token turned down yet, until its login has stored the identity.
IssuedIsThere ==
  /\ \A s \in Sids : sessions[s] # NoSession => s \in issued
  /\ \A r \in Reqs : At(r, "store") =>
       sessions[request[r].sid] # NoSession /\ request[r].sid \notin turnedDown

\* A session is gone, or a token was turned down for it: neither is undone.
Spoilt(s) == sessions[s] = NoSession \/ s \in turnedDown

\* Whoever is about to remove the identity or the token of a session has seen
\* that the session is gone, or was told that its token was turned down.
CleanersComeAfter ==
  \A r \in Reqs :
    /\ request[r].at \in {"forget", "drop"} => sessions[request[r].sid] = NoSession
    /\ request[r].at \in {"unrefresh", "csrf"} => Spoilt(request[r].sid)

\* A session lacks its identity, or its token, only until its login put it there.
LoginIsOnItsWay ==
  \A s \in Sids : ~Spoilt(s) =>
    /\ s \in identities \/ \E r \in Reqs : At(r, "store") /\ request[r].sid = s
    /\ s \in csrf \/ \E r \in Reqs : request[r].at \in {"store", "ensure"} /\ request[r].sid = s
                                     /\ request[r].kind \in LoginKinds

\* An identity that should not be there is one that somebody is about to remove.
CleanerIsOnItsWay ==
  \A s \in identities : Spoilt(s) =>
    \E r \in Reqs : request[r].at \in {"forget", "unrefresh", "drop"} /\ request[r].sid = s

MapsInv ==
  /\ WhereRequestsAre
  /\ LoginsAreAlone
  /\ IssuedIsThere
  /\ CleanersComeAfter
  /\ LoginIsOnItsWay
  /\ CleanerIsOnItsWay

\* A challenge is in one place: pending, redeemed by one request, or behind one
\* session.
ChallengeIsOnce ==
  /\ \A c \in Challenges : challenges[c] # NoChallenge =>
       /\ \A s \in Sids : opener[s] # c
       /\ \A r \in Reqs : request[r].ch # c
  /\ \A r \in Reqs : request[r].ch # None =>
       /\ \A s \in Sids : opener[s] # request[r].ch
       /\ \A q \in Reqs : request[q].ch = request[r].ch => q = r
  /\ \A r \in Reqs : request[r].ch # None => At(r, "create")

-----------------------------------------------------------------------------
(* How a handler moves *)

\* A request between two requests is one.
LEMMA IdleType == Idle \in Request
  <1>1. (CHOOSE t \in TTLs : TRUE) \in TTLs
    BY SessionsAssumption
  <1> QED BY <1>1 DEF Idle, Request, Places, Reasons, Kinds, LoginKinds

\* The handler of a request moves on.
Moves(r, place, why) ==
  /\ request' \in [Reqs -> Request]
  /\ \A q \in Reqs \ {r} : request'[q] = request[q]
  /\ request'[r].at = place
  /\ request'[r].why = why
  /\ request'[r].kind = request[r].kind
  /\ request'[r].sid = request[r].sid
  /\ request'[r].ch = request[r].ch

\* The handler of a request is done.
Ends(r) ==
  /\ request' \in [Reqs -> Request]
  /\ \A q \in Reqs \ {r} : request'[q] = request[q]
  /\ request'[r] = Idle

\* Go moves the handler of one request and leaves all else of it alone.
LEMMA GoFacts ==
  ASSUME request \in [Reqs -> Request], NEW r \in Reqs, NEW place \in Places, Go(r, place)
  PROVE  Moves(r, place, request[r].why)
  BY DEF Go, Request, Moves

\* Enter sends a handler into sessionIdentity.
LEMMA EnterFacts ==
  ASSUME request \in [Reqs -> Request], NEW r \in Reqs, NEW why \in Reasons, Enter(r, why)
  PROVE  Moves(r, "get", why)
  BY DEF Enter, Request, Places, Moves

\* Finish ends a handler.
LEMMA FinishFacts ==
  ASSUME request \in [Reqs -> Request], NEW r \in Reqs, Finish(r)
  PROVE  Ends(r)
  BY IdleType DEF Finish, Ends

\* What a handler at work can rely on.
LEMMA HandlerFacts ==
  ASSUME TypeOK, MapsInv, NEW r \in Reqs
  PROVE  /\ request[r] \in Request
         /\ request[r].at \notin {"idle", "create"} => request[r].sid \in issued /\ request[r].sid \in Sids
  BY DEF TypeOK, MapsInv, WhereRequestsAre, Request

\* No identity and no token is kept for an identifier that is none.
LEMMA MapFacts ==
  ASSUME TypeOK
  PROVE  issued \subseteq Sids /\ identities \subseteq Sids /\ csrf \subseteq Sids
  BY DEF TypeOK

\* A move within the places its kind of request may be in keeps the requests
\* where they belong.
LEMMA MoveKeeps ==
  ASSUME TypeOK, MapsInv, NEW r \in Reqs, NEW place, NEW why, Moves(r, place, why), issued' = issued,
         request[r].at \notin {"idle", "create"},
         place \notin {"idle", "create", "store"},
         request[r].kind \in LoginKinds => place \in {"ensure", "get", "identity", "forget"},
         place \in {"get", "identity", "forget"} => (request[r].kind \in LoginKinds <=> why = "landing"),
         why = "logout" => place \in {"get", "identity", "forget", "delete", "drop", "csrf"}
  PROVE  WhereRequestsAre' /\ LoginsAreAlone'
  <1>1. WhereRequestsAre'
    BY HandlerFacts DEF MapsInv, WhereRequestsAre, At, Moves
  <1>2. LoginsAreAlone'
    BY DEF MapsInv, LoginsAreAlone, Moves
  <1> QED BY <1>1, <1>2

\* So does the end of a request.
LEMMA EndKeeps ==
  ASSUME TypeOK, MapsInv, NEW r \in Reqs, Ends(r), issued' = issued
  PROVE  WhereRequestsAre' /\ LoginsAreAlone'
  <1>1. /\ Idle.at = "idle" /\ Idle.why = "check" /\ Idle.kind \notin LoginKinds
        /\ Idle.sid = None
    BY DEF Idle, LoginKinds
  <1>2. WhereRequestsAre'
    BY <1>1 DEF MapsInv, WhereRequestsAre, At, Ends
  <1>3. LoginsAreAlone'
    BY <1>1 DEF MapsInv, LoginsAreAlone, Ends
  <1> QED BY <1>2, <1>3

-----------------------------------------------------------------------------
(* Each step keeps the maps in agreement *)

\* A handler that changes no map loses nothing unless it was the one to put
\* something there or to take it away.
LEMMA WalkKeeps ==
  ASSUME TypeOK, MapsInv, NEW r \in Reqs, UNCHANGED <<maps, history>>,
         request[r].at \notin {"store", "ensure", "forget", "unrefresh", "drop"},
         \/ Ends(r)
         \/ \E place, why :
              /\ Moves(r, place, why)
              /\ WhereRequestsAre' /\ LoginsAreAlone'
              /\ place \notin {"store", "forget", "unrefresh", "drop"}
              /\ place = "csrf" => Spoilt(request[r].sid)
  PROVE  TypeOK' /\ MapsInv'
  <1>1. /\ UNCHANGED <<sessions, identities, csrf, challenges, issued, opener, turnedDown>>
        /\ request' \in [Reqs -> Request]
        /\ \A q \in Reqs \ {r} : request'[q] = request[q]
    BY DEF maps, history, Ends, Moves
  <1>2. TypeOK'
    BY <1>1 DEF TypeOK
  <1>3. WhereRequestsAre' /\ LoginsAreAlone'
    BY <1>1, EndKeeps
  <1>4. request'[r].at \notin {"store", "forget", "unrefresh", "drop"}
    BY DEF Ends, Moves, Idle
  <1>5. request'[r].at = "csrf" => Spoilt(request'[r].sid)
    BY DEF Ends, Moves, Idle
  <1>6. IssuedIsThere'
    BY <1>1, <1>4 DEF MapsInv, IssuedIsThere, At
  <1>7. CleanersComeAfter'
    BY <1>1, <1>4, <1>5 DEF MapsInv, CleanersComeAfter, Spoilt
  <1>8. LoginIsOnItsWay'
    BY <1>1, <1>4 DEF MapsInv, LoginIsOnItsWay, Spoilt, At
  <1>9. CleanerIsOnItsWay'
    BY <1>1, <1>4 DEF MapsInv, CleanerIsOnItsWay, Spoilt
  <1> QED BY <1>2, <1>3, <1>6, <1>7, <1>8, <1>9 DEF MapsInv

\* Where a session is asked for and its identity is missing, it has ended or a
\* token was turned down: the login that would still store it knows it alone.
LEMMA MissingIdentity ==
  ASSUME TypeOK, MapsInv, NEW r \in Reqs, At(r, "identity"), request[r].sid \notin identities
  PROVE  Spoilt(request[r].sid)
  <1>1. request[r].sid \in Sids
    BY HandlerFacts DEF At
  <1>2. SUFFICES ASSUME ~Spoilt(request[r].sid) PROVE FALSE
    OBVIOUS
  <1>3. PICK q \in Reqs : At(q, "store") /\ request[q].sid = request[r].sid
    BY <1>1, <1>2 DEF MapsInv, LoginIsOnItsWay, Spoilt
  <1>4. request[q].kind \in LoginKinds /\ request[q].sid # None
    BY <1>3 DEF MapsInv, WhereRequestsAre, At
  <1>5. q = r
    BY <1>3, <1>4 DEF MapsInv, LoginsAreAlone
  <1> QED BY <1>3, <1>5 DEF At

\* The second half of sessionIdentity takes nobody out of line.
LEMMA ReadIdentityStep ==
  ASSUME TypeOK, MapsInv, NEW r \in Reqs, ReadIdentity(r)
  PROVE  TypeOK' /\ MapsInv'
  <1>1. /\ request[r].at = "identity" /\ UNCHANGED <<maps, history>>
        /\ request[r] \in Request /\ issued' = issued
        /\ request \in [Reqs -> Request]
        /\ request[r].kind \in LoginKinds <=> request[r].why = "landing"
    BY HandlerFacts DEF ReadIdentity, At, history, MapsInv, WhereRequestsAre, TypeOK
  <1>2. {"csrf", "refresh", "delete"} \subseteq Places /\ {"mint"} \subseteq Reasons
    BY DEF Places, Reasons
  <1>3. \/ Ends(r)
        \/ /\ request[r].why \in {"check", "logout"} /\ Spoilt(request[r].sid)
           /\ Moves(r, "csrf", request[r].why)
        \/ request[r].why = "check" /\ Moves(r, "get", "mint")
        \/ request[r].why = "mint" /\ Moves(r, "refresh", "mint")
        \/ request[r].why = "logout" /\ Moves(r, "delete", "logout")
    <2>1. CASE request[r].sid \notin identities
      <3>1. Failed(r, FALSE)
        BY <2>1 DEF ReadIdentity
      <3>2. CASE request[r].why = "check"
        BY <1>1, <1>2, <2>1, <3>1, <3>2, GoFacts, MissingIdentity DEF Failed, At
      <3>3. CASE request[r].why # "check"
        BY <1>1, <3>1, <3>3, FinishFacts DEF Failed
      <3> QED BY <3>2, <3>3
    <2>2. CASE request[r].sid \in identities
      <3>1. CASE request[r].why = "check"
        BY <1>1, <1>2, <2>2, <3>1, EnterFacts DEF ReadIdentity
      <3>2. CASE request[r].why = "mint"
        BY <1>1, <1>2, <2>2, <3>2, GoFacts DEF ReadIdentity
      <3>3. CASE request[r].why = "logout"
        BY <1>1, <1>2, <2>2, <3>3, GoFacts DEF ReadIdentity
      <3>4. CASE request[r].why = "landing"
        BY <1>1, <1>2, <2>2, <3>4, FinishFacts DEF ReadIdentity
      <3> QED BY <1>1, <3>1, <3>2, <3>3, <3>4 DEF Request, Reasons
    <2> QED BY <2>1, <2>2
  <1>4. CASE Ends(r)
    BY <1>1, <1>4, WalkKeeps
  <1>5. ASSUME NEW place, NEW why, Moves(r, place, why),
               \/ /\ request[r].why \in {"check", "logout"} /\ Spoilt(request[r].sid)
                  /\ place = "csrf" /\ why = request[r].why
               \/ request[r].why = "check" /\ place = "get" /\ why = "mint"
               \/ request[r].why = "mint" /\ place = "refresh" /\ why = "mint"
               \/ request[r].why = "logout" /\ place = "delete" /\ why = "logout"
        PROVE  TypeOK' /\ MapsInv'
    <2>1. WhereRequestsAre' /\ LoginsAreAlone'
      BY <1>1, <1>5, MoveKeeps
    <2> QED BY <1>1, <1>5, <2>1, WalkKeeps
  <1> QED BY <1>3, <1>4, <1>5

\* Nor does the check of the CSRF token.
LEMMA ValidStep ==
  ASSUME TypeOK, MapsInv, NEW r \in Reqs, NEW m, NEW carries, Valid(r, m, carries)
  PROVE  TypeOK' /\ MapsInv'
  <1>1. /\ request[r].at = "valid" /\ UNCHANGED <<maps, history>>
        /\ request[r] \in Request /\ issued' = issued
        /\ request \in [Reqs -> Request]
        /\ request[r].kind \in {"page", "onboarding", "logout"}
        /\ request[r].kind \notin LoginKinds /\ request[r].why # "logout"
    BY HandlerFacts
       DEF Valid, At, history, MapsInv, WhereRequestsAre, TypeOK, Request, Kinds
  <1>2. "onboarding" \in Places /\ "logout" \in Reasons
    BY DEF Places, Reasons
  <1>3. \/ Finish(r)
        \/ Go(r, "onboarding")
        \/ Enter(r, "logout")
    BY <1>1 DEF Valid
  <1>4. \/ Ends(r)
        \/ Moves(r, "onboarding", request[r].why)
        \/ Moves(r, "get", "logout")
    BY <1>1, <1>2, <1>3, FinishFacts, GoFacts, EnterFacts
  <1>5. CASE Ends(r)
    BY <1>1, <1>5, WalkKeeps
  <1>6. CASE Moves(r, "onboarding", request[r].why)
    <2>1. WhereRequestsAre' /\ LoginsAreAlone'
      BY <1>1, <1>6, MoveKeeps
    <2> QED BY <1>1, <1>6, <2>1, WalkKeeps
  <1>7. CASE Moves(r, "get", "logout")
    <2>1. WhereRequestsAre' /\ LoginsAreAlone'
      BY <1>1, <1>7, MoveKeeps
    <2> QED BY <1>1, <1>7, <2>1, WalkKeeps
  <1> QED BY <1>4, <1>5, <1>6, <1>7

\* Nor does a request that gives up before it has changed anything.
LEMMA GiveUpStep ==
  ASSUME TypeOK, MapsInv, NEW r \in Reqs,
         MintFails(r) \/ \E found, published, disabled : LoginFails(r, found, published, disabled)
  PROVE  TypeOK' /\ MapsInv'
  <1>1. /\ request[r].at \in {"refresh", "create"} /\ UNCHANGED <<maps, history>>
        /\ Finish(r)
    BY DEF MintFails, LoginFails, At
  <1>2. Ends(r)
    BY <1>1, FinishFacts DEF TypeOK
  <1> QED BY <1>1, <1>2, WalkKeeps

\* SessionStore.Get, Refresh and Delete: whoever removes a session, or has its
\* token turned down, goes on to remove its identity.
LEMMA SessionSteps ==
  ASSUME TypeOK, MapsInv, NEW r \in Reqs, Get(r) \/ DeleteSession(r) \/ \E usable \in BOOLEAN : Refresh(r, usable)
  PROVE  TypeOK' /\ MapsInv'
  <1> DEFINE s == request[r].sid
  <1>1. /\ request[r].at \in {"get", "refresh", "delete"}
        /\ UNCHANGED <<identities, csrf, challenges, issued, opener>>
        /\ request[r] \in Request /\ request \in [Reqs -> Request]
        /\ s \in Sids /\ s \in issued
    BY HandlerFacts DEF Get, Refresh, DeleteSession, At, history, TypeOK
  <1> DEFINE turned == turnedDown' \ turnedDown
  <1>2. {"identity", "forget", "ensure", "unrefresh", "drop"} \subseteq Places
    BY DEF Places
  <1>3. /\ sessions' \in [Sids -> [left : Nat, ttl : TTLs] \cup {NoSession}]
        /\ \A t \in Sids \ {s} : sessions'[t] = sessions[t]
    BY <1>1, SessionsAssumption DEF Get, Refresh, DeleteSession, TypeOK, Live, NoSession
  <1>4. \E place \in Places :
          /\ Go(r, place)
          /\ \/ request[r].at = "get" /\ place \in {"identity", "forget"}
             \/ request[r].at = "refresh" /\ place \in {"ensure", "unrefresh"}
             \/ request[r].at = "delete" /\ place = "drop"
          /\ place \in {"forget", "drop"} => sessions'[s] = NoSession
          /\ place = "unrefresh" => sessions'[s] = NoSession \/ s \in turnedDown'
          /\ turnedDown \subseteq turnedDown' /\ turned \subseteq {s}
          /\ turned # {} => place = "unrefresh"
          /\ sessions[s] = NoSession => sessions'[s] = NoSession
          /\ place \in {"identity", "ensure"} =>
               sessions[s] # NoSession /\ sessions'[s] # NoSession
    <2>1. CASE Get(r) /\ Live(s)
      BY <1>1, <1>2, <2>1 DEF Get, Live, At, TypeOK, history
    <2>2. CASE Get(r) /\ ~Live(s)
      BY <1>1, <1>2, <2>2 DEF Get, Live, At, TypeOK, history
    <2>3. CASE Refresh(r, TRUE) /\ Live(s)
      <3>1. sessions[s] \in [left : Nat, ttl : TTLs] /\ sessions[s].ttl # 0
        BY <1>1, <2>3, SessionsAssumption DEF Live, TypeOK
      <3>2. sessions'[s] = [sessions[s] EXCEPT !.left = sessions[s].ttl]
        BY <1>1, <2>3 DEF Refresh, TypeOK
      <3>3. sessions'[s] # NoSession
        BY <3>1, <3>2 DEF NoSession
      <3> QED BY <1>2, <2>3, <3>3 DEF Refresh, Live, At
    <2>4. CASE Refresh(r, TRUE) /\ ~Live(s)
      BY <1>1, <1>2, <2>4 DEF Refresh, Live, At, TypeOK, Spoilt
    <2>6. CASE Refresh(r, FALSE)
      BY <1>1, <1>2, <2>6 DEF Refresh, At, TypeOK, Spoilt
    <2>5. CASE DeleteSession(r)
      BY <1>1, <1>2, <2>5 DEF DeleteSession, At, TypeOK, history
    <2> QED BY <2>1, <2>2, <2>3, <2>4, <2>5, <2>6
  <1>5. PICK place \in Places :
          /\ Moves(r, place, request[r].why)
          /\ \/ request[r].at = "get" /\ place \in {"identity", "forget"}
             \/ request[r].at = "refresh" /\ place \in {"ensure", "unrefresh"}
             \/ request[r].at = "delete" /\ place = "drop"
          /\ place \in {"forget", "drop"} => sessions'[s] = NoSession
          /\ place = "unrefresh" => sessions'[s] = NoSession \/ s \in turnedDown'
          /\ turnedDown \subseteq turnedDown' /\ turned \subseteq {s}
          /\ turned # {} => place = "unrefresh"
          /\ sessions[s] = NoSession => sessions'[s] = NoSession
          /\ place \in {"identity", "ensure"} =>
               sessions[s] # NoSession /\ sessions'[s] # NoSession
    BY <1>1, <1>4, GoFacts
  <1>6. TypeOK'
    BY <1>1, <1>3, <1>5 DEF TypeOK, Moves
  <1>7. WhereRequestsAre' /\ LoginsAreAlone'
    <2>1. /\ request[r].kind \in LoginKinds => request[r].at = "get"
          /\ request[r].at = "get" => (request[r].kind \in LoginKinds <=> request[r].why = "landing")
          /\ request[r].why = "logout" => request[r].at \in {"get", "delete"}
      BY <1>1 DEF MapsInv, WhereRequestsAre
    <2> QED BY <1>1, <1>5, <2>1, MoveKeeps
  <1>8. /\ turned \subseteq {s} /\ turnedDown \subseteq turnedDown'
        /\ \A t \in Sids : Spoilt(t) => Spoilt(t)'
        /\ \A t \in Sids : ~Spoilt(t) /\ Spoilt(t)' => t = s /\ place \in {"forget", "unrefresh", "drop"}
        /\ \A t \in Sids : sessions'[t] # NoSession => sessions[t] # NoSession
        /\ \A t \in Sids : sessions[t] = NoSession => sessions'[t] = NoSession
        /\ \A t \in Sids : sessions[t] # NoSession /\ sessions'[t] = NoSession =>
             t = s /\ place \in {"forget", "unrefresh", "drop"}
    <2>1. turned \subseteq {s} /\ turnedDown \subseteq turnedDown'
      BY <1>5
    <2>2. \A t \in Sids : sessions[t] = NoSession => sessions'[t] = NoSession
      BY <1>1, <1>3, <1>5
    <2>3. \A t \in Sids : sessions[t] # NoSession /\ sessions'[t] = NoSession =>
            t = s /\ place \in {"forget", "unrefresh", "drop"}
      BY <1>1, <1>3, <1>5
    <2>4. \A t \in Sids : t \in turned => t = s /\ place = "unrefresh"
      BY <1>5
    <2> QED BY <2>1, <2>2, <2>3, <2>4 DEF Spoilt
  <1>9. IssuedIsThere'
    <2>1. \A t \in Sids : sessions'[t] # NoSession => t \in issued'
      BY <1>1, <1>8 DEF MapsInv, IssuedIsThere
    <2>2. ASSUME NEW q \in Reqs, request'[q].at = "store"
          PROVE  sessions'[request'[q].sid] # NoSession /\ request'[q].sid \notin turnedDown'
      <3>1. q # r
        BY <1>5, <2>2 DEF Moves
      <3>2. request'[q] = request[q] /\ request[q].at = "store"
        BY <1>5, <2>2, <3>1 DEF Moves
      <3>3. request[q].kind \in LoginKinds /\ request[q].sid # None /\ request[q].sid \in Sids
        BY <3>2, HandlerFacts DEF MapsInv, WhereRequestsAre, At
      <3>4. request[q].sid # s
        BY <3>1, <3>3 DEF MapsInv, LoginsAreAlone
      <3> QED BY <1>3, <1>8, <3>2, <3>3, <3>4 DEF MapsInv, IssuedIsThere, At
    <2> QED BY <2>1, <2>2 DEF IssuedIsThere, At
  <1>10. CleanersComeAfter'
    <2> SUFFICES ASSUME NEW q \in Reqs
                 PROVE  /\ request'[q].at \in {"forget", "drop"} => sessions'[request'[q].sid] = NoSession
                        /\ request'[q].at \in {"unrefresh", "csrf"} =>
                             sessions'[request'[q].sid] = NoSession \/ request'[q].sid \in turnedDown'
      BY DEF CleanersComeAfter, Spoilt
    <2>1. CASE q = r
      BY <1>5, <2>1 DEF Moves
    <2>2. CASE q # r
      BY <1>5, <1>8, <2>2, HandlerFacts DEF Moves, MapsInv, CleanersComeAfter, Spoilt
    <2> QED BY <2>1, <2>2
  <1>11. LoginIsOnItsWay'
    BY <1>1, <1>5, <1>8 DEF MapsInv, LoginIsOnItsWay, Spoilt, WhereRequestsAre, Moves, At
  <1>12. CleanerIsOnItsWay'
    <2> SUFFICES ASSUME NEW t \in identities', Spoilt(t)'
                 PROVE  \E q \in Reqs : request'[q].at \in {"forget", "unrefresh", "drop"}
                                        /\ request'[q].sid = t
      BY DEF CleanerIsOnItsWay, Spoilt
    <2>1. t \in Sids /\ t \in identities
      BY <1>1, MapFacts
    <2>2. CASE Spoilt(t)
      BY <1>1, <1>5, <2>1, <2>2 DEF MapsInv, CleanerIsOnItsWay, Spoilt, Moves
    <2>3. CASE ~Spoilt(t)
      BY <1>5, <1>8, <2>1, <2>3 DEF Moves
    <2> QED BY <2>2, <2>3
  <1> QED BY <1>6, <1>7, <1>9, <1>10, <1>11, <1>12 DEF MapsInv

\* deleteIdentity: all three callers have seen that the session is gone, or that
\* its token was turned down.
LEMMA IdentityRemoved ==
  ASSUME TypeOK, MapsInv, NEW r \in Reqs, Forget(r) \/ Unrefresh(r) \/ DropIdentity(r)
  PROVE  TypeOK' /\ MapsInv'
  <1> DEFINE s == request[r].sid
  <1>1. /\ request[r].at \in {"forget", "unrefresh", "drop"}
        /\ UNCHANGED <<sessions, csrf, challenges, issued, opener, turnedDown>>
        /\ identities' = identities \ {s}
        /\ request[r] \in Request /\ request \in [Reqs -> Request]
        /\ s \in Sids /\ Spoilt(s)
    BY HandlerFacts
       DEF Forget, Unrefresh, DropIdentity, At, history, TypeOK, MapsInv, CleanersComeAfter, Spoilt
  <1>2. Ends(r) \/ (Moves(r, "csrf", request[r].why) /\ request[r].kind \notin LoginKinds)
    <2>1. "csrf" \in Places
      BY DEF Places
    <2>2. request[r].kind \in LoginKinds => request[r].at = "forget" /\ request[r].why = "landing"
      BY <1>1 DEF MapsInv, WhereRequestsAre
    <2>3. Finish(r) \/ (Go(r, "csrf") /\ request[r].why # "landing")
          \/ (Go(r, "csrf") /\ request[r].at = "drop")
      BY <1>1 DEF Forget, Unrefresh, DropIdentity, Failed, At
    <2> QED BY <1>1, <2>1, <2>2, <2>3, GoFacts, FinishFacts
  <1>3. /\ request' \in [Reqs -> Request]
        /\ \A q \in Reqs \ {r} : request'[q] = request[q]
        /\ request'[r].at \in {"idle", "csrf"}
        /\ request'[r].at = "csrf" => request'[r].sid = s
    BY <1>2 DEF Ends, Moves, Idle
  <1>4. TypeOK'
    BY <1>1, <1>3 DEF TypeOK
  <1>5. WhereRequestsAre' /\ LoginsAreAlone'
    <2>1. CASE Ends(r)
      BY <1>1, <2>1, EndKeeps
    <2>2. CASE Moves(r, "csrf", request[r].why) /\ request[r].kind \notin LoginKinds
      BY <1>1, <2>2, MoveKeeps
    <2> QED BY <1>2, <2>1, <2>2
  <1>6. IssuedIsThere'
    BY <1>1, <1>3 DEF MapsInv, IssuedIsThere, At
  <1>7. CleanersComeAfter'
    BY <1>1, <1>3 DEF MapsInv, CleanersComeAfter, Spoilt
  <1>8. LoginIsOnItsWay'
    BY <1>1, <1>3 DEF MapsInv, LoginIsOnItsWay, Spoilt, At
  <1>9. CleanerIsOnItsWay'
    BY <1>1, <1>3 DEF MapsInv, CleanerIsOnItsWay, Spoilt
  <1> QED BY <1>4, <1>5, <1>6, <1>7, <1>8, <1>9 DEF MapsInv

\* storeIdentity finds the session its login created.
LEMMA StoreIdentityStep ==
  ASSUME TypeOK, MapsInv, NEW r \in Reqs, StoreIdentity(r)
  PROVE  TypeOK' /\ MapsInv'
  <1> DEFINE s == request[r].sid
  <1>1. /\ request[r].at = "store"
        /\ UNCHANGED <<sessions, csrf, challenges, issued, opener, turnedDown>>
        /\ identities' = identities \cup {s}
        /\ request[r] \in Request /\ request \in [Reqs -> Request]
        /\ s \in Sids /\ s \in issued /\ ~Spoilt(s)
        /\ request[r].kind \in LoginKinds /\ request[r].why # "logout"
    BY HandlerFacts
       DEF StoreIdentity, At, history, TypeOK, MapsInv, IssuedIsThere, WhereRequestsAre, Spoilt
  <1>2. Moves(r, "ensure", request[r].why)
    BY <1>1, GoFacts DEF StoreIdentity, Places
  <1>3. TypeOK'
    BY <1>1, <1>2 DEF TypeOK, Moves
  <1>4. WhereRequestsAre' /\ LoginsAreAlone'
    BY <1>1, <1>2, MoveKeeps
  <1>5. IssuedIsThere'
    BY <1>1, <1>2 DEF MapsInv, IssuedIsThere, At, Moves
  <1>6. CleanersComeAfter'
    BY <1>1, <1>2 DEF MapsInv, CleanersComeAfter, Spoilt, Moves
  <1>7. LoginIsOnItsWay'
    BY <1>1, <1>2 DEF MapsInv, LoginIsOnItsWay, Spoilt, At, Moves
  <1>8. CleanerIsOnItsWay'
    BY <1>1, <1>2 DEF MapsInv, CleanerIsOnItsWay, Spoilt, Moves
  <1> QED BY <1>3, <1>4, <1>5, <1>6, <1>7, <1>8 DEF MapsInv

\* CSRFStore.Ensure, the last thing a login puts in place.
LEMMA EnsureStep ==
  ASSUME TypeOK, MapsInv, NEW r \in Reqs, Ensure(r)
  PROVE  TypeOK' /\ MapsInv'
  <1> DEFINE s == request[r].sid
  <1>1. /\ request[r].at = "ensure"
        /\ UNCHANGED <<sessions, identities, challenges, issued, opener, turnedDown>>
        /\ csrf' = csrf \cup {s}
        /\ request[r] \in Request /\ request \in [Reqs -> Request]
        /\ s \in Sids /\ s \in issued /\ request[r].why # "logout"
    BY HandlerFacts DEF Ensure, At, history, TypeOK, MapsInv, WhereRequestsAre
  <1>2. \/ Ends(r)
        \/ Moves(r, "get", "landing") /\ request[r].kind \in LoginKinds
        \/ Moves(r, "valid", request[r].why) /\ request[r].kind \notin LoginKinds
    <2>1. /\ request[r].kind = "api" => Finish(r)
          /\ request[r].kind \in {"local", "callback"} => Enter(r, "landing")
          /\ request[r].kind \notin {"api", "local", "callback"} => Go(r, "valid")
      BY DEF Ensure
    <2>2. "valid" \in Places /\ "landing" \in Reasons
      BY DEF Places, Reasons
    <2> QED BY <1>1, <2>1, <2>2, FinishFacts, EnterFacts, GoFacts DEF LoginKinds
  <1>3. /\ request' \in [Reqs -> Request]
        /\ \A q \in Reqs \ {r} : request'[q] = request[q]
        /\ request'[r].at \in {"idle", "get", "valid"}
    BY <1>2 DEF Ends, Moves, Idle
  <1>4. TypeOK'
    BY <1>1, <1>3 DEF TypeOK
  <1>5. WhereRequestsAre' /\ LoginsAreAlone'
    <2>1. CASE Ends(r)
      BY <1>1, <2>1, EndKeeps
    <2>2. CASE Moves(r, "get", "landing") /\ request[r].kind \in LoginKinds
      BY <1>1, <2>2, MoveKeeps
    <2>3. CASE Moves(r, "valid", request[r].why) /\ request[r].kind \notin LoginKinds
      BY <1>1, <2>3, MoveKeeps
    <2> QED BY <1>2, <2>1, <2>2, <2>3
  <1>6. IssuedIsThere'
    BY <1>1, <1>3 DEF MapsInv, IssuedIsThere, At
  <1>7. CleanersComeAfter'
    BY <1>1, <1>3 DEF MapsInv, CleanersComeAfter, Spoilt
  <1>8. LoginIsOnItsWay'
    BY <1>1, <1>3 DEF MapsInv, LoginIsOnItsWay, Spoilt, At
  <1>9. CleanerIsOnItsWay'
    BY <1>1, <1>3 DEF MapsInv, CleanerIsOnItsWay, Spoilt
  <1> QED BY <1>4, <1>5, <1>6, <1>7, <1>8, <1>9 DEF MapsInv

\* MarkOnboardingCompleted brings no identity back, and CSRFStore.Delete takes
\* the token of a session that is gone or has no identity.
LEMMA LastSteps ==
  ASSUME TypeOK, MapsInv, NEW r \in Reqs, CompleteOnboarding(r) \/ DropToken(r)
  PROVE  TypeOK' /\ MapsInv'
  <1> DEFINE s == request[r].sid
  <1>1. /\ request[r].at \in {"onboarding", "csrf"}
        /\ UNCHANGED <<sessions, identities, challenges, issued, opener, turnedDown>>
        /\ csrf' = csrf \/ (csrf' = csrf \ {s} /\ Spoilt(s))
        /\ Finish(r) /\ request \in [Reqs -> Request]
    BY DEF CompleteOnboarding, DropToken, At, history, TypeOK, MapsInv, CleanersComeAfter, Spoilt
  <1>2. Ends(r)
    BY <1>1, FinishFacts
  <1>3. /\ request' \in [Reqs -> Request]
        /\ \A q \in Reqs \ {r} : request'[q] = request[q]
        /\ request'[r].at = "idle"
    BY <1>2 DEF Ends, Idle
  <1>4. TypeOK'
    BY <1>1, <1>3 DEF TypeOK
  <1>5. WhereRequestsAre' /\ LoginsAreAlone'
    BY <1>1, <1>2, EndKeeps
  <1>6. IssuedIsThere'
    BY <1>1, <1>3 DEF MapsInv, IssuedIsThere, At
  <1>7. CleanersComeAfter'
    BY <1>1, <1>3 DEF MapsInv, CleanersComeAfter, Spoilt
  <1>8. LoginIsOnItsWay'
    BY <1>1, <1>3 DEF MapsInv, LoginIsOnItsWay, Spoilt, At
  <1>9. CleanerIsOnItsWay'
    BY <1>1, <1>3 DEF MapsInv, CleanerIsOnItsWay, Spoilt
  <1> QED BY <1>4, <1>5, <1>6, <1>7, <1>8, <1>9 DEF MapsInv

\* SessionStore.CreateWithTTL: an identifier nobody has heard of.
LEMMA CreateStep ==
  ASSUME TypeOK, MapsInv, NEW r \in Reqs, NEW s \in Sids, NEW found, NEW published, NEW disabled,
         Create(r, s, found, published, disabled)
  PROVE  TypeOK' /\ MapsInv'
  <1>1. /\ request[r].at = "create" /\ s \notin issued
        /\ UNCHANGED <<identities, csrf, challenges, turnedDown>> /\ issued' = issued \cup {s}
        /\ request[r] \in Request /\ request \in [Reqs -> Request] /\ request[r].ttl \in TTLs
        /\ request[r].kind \in LoginKinds /\ request[r].why # "logout"
        /\ request[r].ch \in Challenges \cup {None}
        /\ s # None /\ \A q \in Reqs : request[q].sid # s
        /\ sessions[s] = NoSession /\ s \notin turnedDown
    BY SessionsAssumption
       DEF Create, At, TypeOK, Request, MapsInv, WhereRequestsAre, IssuedIsThere
  <1>2. /\ sessions' \in [Sids -> [left : Nat, ttl : TTLs] \cup {NoSession}]
        /\ \A t \in Sids \ {s} : sessions'[t] = sessions[t]
        /\ sessions'[s] # NoSession
        /\ opener' \in [Sids -> Challenges \cup {None}]
    BY <1>1, SessionsAssumption DEF Create, TypeOK, NoSession
  <1>3. /\ request' \in [Reqs -> Request]
        /\ \A q \in Reqs \ {r} : request'[q] = request[q]
        /\ request'[r].at = "store" /\ request'[r].sid = s
        /\ request'[r].kind = request[r].kind /\ request'[r].why = request[r].why
    BY <1>1 DEF Create, Request, Places
  <1>4. TypeOK'
    BY <1>1, <1>2, <1>3 DEF TypeOK
  <1>5. WhereRequestsAre'
    BY <1>1, <1>3 DEF MapsInv, WhereRequestsAre, At
  <1>6. LoginsAreAlone'
    BY <1>1, <1>3 DEF MapsInv, LoginsAreAlone
  <1>7. IssuedIsThere'
    BY <1>1, <1>2, <1>3, HandlerFacts DEF MapsInv, IssuedIsThere, At
  <1>8. CleanersComeAfter'
    BY <1>1, <1>2, <1>3, HandlerFacts DEF MapsInv, CleanersComeAfter, Spoilt
  <1>9. LoginIsOnItsWay'
    BY <1>1, <1>2, <1>3 DEF MapsInv, LoginIsOnItsWay, Spoilt, At
  <1>10. CleanerIsOnItsWay'
    BY <1>1, <1>2, <1>3, MapFacts DEF MapsInv, CleanerIsOnItsWay, Spoilt
  <1> QED BY <1>4, <1>5, <1>6, <1>7, <1>8, <1>9, <1>10 DEF MapsInv

\* The requests that begin: a login has no session yet, and a cookie is not
\* there to be sent before its login is over.
LEMMA BeginSteps ==
  ASSUME TypeOK, MapsInv, NEW r \in Reqs,
         \/ \E ttl \in TTLs : LocalLogin(r, ttl) \/ APILogin(r, ttl)
         \/ \E ttl \in TTLs, c \in Challenges, p \in Providers : Callback(r, c, p, ttl)
         \/ \E s \in Sids, k \in {"page", "logout", "onboarding"} : Arrive(r, k, s)
  PROVE  TypeOK' /\ MapsInv'
  <1>1. /\ request[r].at = "idle" /\ UNCHANGED <<sessions, identities, csrf, issued, opener, turnedDown>>
        /\ request \in [Reqs -> Request]
    BY DEF LocalLogin, APILogin, Callback, Arrive, At, maps, history, TypeOK
  <1>2. challenges' \in [Challenges -> [left : Nat, by : Providers] \cup {NoChallenge}]
    BY DEF LocalLogin, APILogin, Callback, Arrive, Take, maps, TypeOK
  <1> DEFINE Login(v) == v.at = "create" /\ v.sid = None /\ v.kind \in LoginKinds
             Cookie(v) == /\ v.at = "get" /\ v.sid \in issued /\ v.kind \notin LoginKinds
                          /\ \A q \in Reqs : request[q].sid = v.sid => request[q].kind \notin LoginKinds
  <1>3. \/ request' = request
        \/ \E v \in Request : /\ request' = [request EXCEPT ![r] = v]
                              /\ v.why = "check"
                              /\ Login(v) \/ Cookie(v)
    <2>1. ASSUME NEW ttl \in TTLs, NEW ch \in Challenges \cup {None}, NEW k \in LoginKinds
          PROVE  LET v == [Idle EXCEPT !.at = "create", !.kind = k, !.ch = ch, !.ttl = ttl]
                 IN  v \in Request /\ v.why = "check" /\ Login(v)
      BY DEF Idle, Request, Places, Reasons, Kinds
    <2>2. ASSUME NEW ttl \in TTLs, NEW k \in LoginKinds
          PROVE  LET v == [Idle EXCEPT !.at = "create", !.kind = k, !.ttl = ttl]
                 IN  v \in Request /\ v.why = "check" /\ Login(v)
      BY DEF Idle, Request, Places, Reasons, Kinds
    <2>3. ASSUME NEW s \in Sids, NEW k \in {"page", "logout", "onboarding"}, Arrive(r, k, s)
          PROVE  LET v == [Idle EXCEPT !.at = "get", !.kind = k, !.sid = s]
                 IN  v \in Request /\ v.why = "check" /\ Cookie(v)
      <3>1. [Idle EXCEPT !.at = "get", !.kind = k, !.sid = s] \in Request
        BY IdleType DEF Idle, Request, Places, Reasons, Kinds, LoginKinds
      <3>2. /\ s \in issued /\ k \notin LoginKinds
            /\ \A q \in Reqs : request[q].sid = s => request[q].kind \notin LoginKinds
        BY <2>3 DEF Arrive, LoginKinds
      <3> QED BY <3>1, <3>2 DEF Idle
    <2>4. {"local", "api", "callback"} \subseteq LoginKinds
      BY DEF LoginKinds
    <2>5. CASE \E ttl \in TTLs : LocalLogin(r, ttl) \/ APILogin(r, ttl)
      <3>1. PICK ttl \in TTLs : LocalLogin(r, ttl) \/ APILogin(r, ttl)
        BY <2>5
      <3>2. PICK k \in {"local", "api"} :
              request' = [request EXCEPT ![r] = [Idle EXCEPT !.at = "create", !.kind = k, !.ttl = ttl]]
        BY <3>1 DEF LocalLogin, APILogin
      <3> DEFINE v == [Idle EXCEPT !.at = "create", !.kind = k, !.ttl = ttl]
      <3>3. v \in Request /\ v.why = "check" /\ Login(v)
        BY <2>2, <2>4, <3>2
      <3>4. request' = [request EXCEPT ![r] = v]
        BY <3>2
      <3> HIDE DEF v
      <3> QED BY <3>3, <3>4
    <2>6. CASE \E ttl \in TTLs, c \in Challenges, p \in Providers : Callback(r, c, p, ttl)
      <3>1. PICK ttl \in TTLs, c \in Challenges, p \in Providers : Callback(r, c, p, ttl)
        BY <2>6
      <3>2. \/ request' = request
            \/ request' = [request EXCEPT ![r] =
                 [Idle EXCEPT !.at = "create", !.kind = "callback", !.ch = c, !.ttl = ttl]]
        BY <3>1 DEF Callback
      <3> DEFINE v == [Idle EXCEPT !.at = "create", !.kind = "callback", !.ch = c, !.ttl = ttl]
      <3>3. v \in Request /\ v.why = "check" /\ Login(v)
        BY <2>1, <2>4
      <3>4. request' = request \/ request' = [request EXCEPT ![r] = v]
        BY <3>2
      <3> HIDE DEF v
      <3> QED BY <3>3, <3>4
    <2>7. CASE \E s \in Sids, k \in {"page", "logout", "onboarding"} : Arrive(r, k, s)
      <3>1. PICK s \in Sids, k \in {"page", "logout", "onboarding"} : Arrive(r, k, s)
        BY <2>7
      <3> DEFINE v == [Idle EXCEPT !.at = "get", !.kind = k, !.sid = s]
      <3>2. v \in Request /\ v.why = "check" /\ Cookie(v)
        BY <2>3, <3>1
      <3>3. request' = [request EXCEPT ![r] = v]
        BY <3>1 DEF Arrive
      <3> HIDE DEF v
      <3> QED BY <3>2, <3>3
    <2> QED BY <2>5, <2>6, <2>7
  <1>4. CASE request' = request
    <2>1. TypeOK'
      BY <1>1, <1>2, <1>4 DEF TypeOK
    <2> QED BY <1>1, <1>4, <2>1
            DEF MapsInv, WhereRequestsAre, LoginsAreAlone, IssuedIsThere, CleanersComeAfter, Spoilt,
                LoginIsOnItsWay, CleanerIsOnItsWay, At
  <1>5. CASE request' # request
    <2>1. PICK at \in {"create", "get"} :
            /\ request' \in [Reqs -> Request]
            /\ \A q \in Reqs \ {r} : request'[q] = request[q]
            /\ request'[r].at = at /\ request'[r].why = "check"
            /\ at = "create" => request'[r].sid = None /\ request'[r].kind \in LoginKinds
            /\ at = "get" => /\ request'[r].sid \in issued
                             /\ request'[r].kind \notin LoginKinds
                             /\ \A q \in Reqs : request[q].sid = request'[r].sid =>
                                  request[q].kind \notin LoginKinds
      BY <1>1, <1>3, <1>5
    <2>2. TypeOK'
      BY <1>1, <1>2, <2>1 DEF TypeOK
    <2>3. WhereRequestsAre'
      <3>1. request'[r].sid = None <=> at = "create"
        BY <2>1, MapFacts, SessionsAssumption
      <3> QED BY <1>1, <2>1, <3>1 DEF MapsInv, WhereRequestsAre, At
    <2>4. LoginsAreAlone'
      BY <1>1, <2>1 DEF MapsInv, LoginsAreAlone
    <2>5. IssuedIsThere'
      BY <1>1, <2>1 DEF MapsInv, IssuedIsThere, At
    <2>6. CleanersComeAfter'
      BY <1>1, <2>1 DEF MapsInv, CleanersComeAfter, Spoilt
    <2>7. LoginIsOnItsWay'
      BY <1>1, <2>1 DEF MapsInv, LoginIsOnItsWay, Spoilt, At
    <2>8. CleanerIsOnItsWay'
      BY <1>1, <2>1 DEF MapsInv, CleanerIsOnItsWay, Spoilt
    <2> QED BY <2>2, <2>3, <2>4, <2>5, <2>6, <2>7, <2>8 DEF MapsInv
  <1> QED BY <1>4, <1>5

\* Time takes no session off the map, and a restart empties everything at once.
LEMMA WorldSteps ==
  ASSUME TypeOK, MapsInv,
         Tick \/ Restart \/ \E c \in Challenges, p \in Providers : BeginLogin(c, p)
  PROVE  TypeOK' /\ MapsInv'
  <1>1. CASE \E c \in Challenges, p \in Providers : BeginLogin(c, p)
    <2>1. UNCHANGED <<sessions, identities, csrf, request, issued, opener, turnedDown>>
      BY <1>1 DEF BeginLogin, history
    <2>2. challenges' \in [Challenges -> [left : Nat, by : Providers] \cup {NoChallenge}]
      BY <1>1, SessionsAssumption DEF BeginLogin, Challenge, TypeOK
    <2>3. TypeOK'
      BY <2>1, <2>2 DEF TypeOK
    <2> QED BY <2>1, <2>3
            DEF MapsInv, WhereRequestsAre, LoginsAreAlone, IssuedIsThere, CleanersComeAfter, Spoilt,
                LoginIsOnItsWay, CleanerIsOnItsWay, At
  <1>2. CASE Tick
    <2>1. UNCHANGED <<identities, csrf, request, issued, opener, turnedDown>>
      BY <1>2 DEF Tick, history
    <2>2. /\ sessions' \in [Sids -> [left : Nat, ttl : TTLs] \cup {NoSession}]
          /\ \A s \in Sids : sessions'[s] = NoSession <=> sessions[s] = NoSession
      <3> SUFFICES ASSUME NEW s \in Sids
                   PROVE  /\ sessions'[s] \in [left : Nat, ttl : TTLs] \cup {NoSession}
                          /\ sessions'[s] = NoSession <=> sessions[s] = NoSession
        BY <1>2 DEF Tick
      <3>1. sessions'[s] = [sessions[s] EXCEPT !.left = IF @ = 0 THEN 0 ELSE @ - 1]
        BY <1>2 DEF Tick
      <3>2. CASE sessions[s] = NoSession
        BY <3>1, <3>2 DEF NoSession
      <3>3. CASE sessions[s] \in [left : Nat, ttl : TTLs]
        <4>1. sessions[s].ttl \in TTLs /\ sessions[s].ttl # 0 /\ sessions[s].left \in Nat
          BY <3>3, SessionsAssumption
        <4>2. /\ sessions'[s] \in [left : Nat, ttl : TTLs]
              /\ sessions'[s].ttl = sessions[s].ttl
          BY <3>1, <3>3, <4>1
        <4> QED BY <4>1, <4>2 DEF NoSession
      <3> QED BY <3>2, <3>3 DEF TypeOK
    <2>3. challenges' \in [Challenges -> [left : Nat, by : Providers] \cup {NoChallenge}]
      <3> SUFFICES ASSUME NEW c \in Challenges
                   PROVE  challenges'[c] \in [left : Nat, by : Providers] \cup {NoChallenge}
        BY <1>2 DEF Tick
      <3>1. challenges'[c] = [challenges[c] EXCEPT !.left = IF @ = 0 THEN 0 ELSE @ - 1]
        BY <1>2 DEF Tick
      <3>2. CASE challenges[c] = NoChallenge
        BY <3>1, <3>2 DEF NoChallenge
      <3>3. CASE challenges[c] \in [left : Nat, by : Providers]
        BY <3>1, <3>3
      <3> QED BY <3>2, <3>3 DEF TypeOK
    <2>4. TypeOK'
      BY <2>1, <2>2, <2>3 DEF TypeOK
    <2>5. WhereRequestsAre' /\ LoginsAreAlone'
      BY <2>1 DEF MapsInv, WhereRequestsAre, LoginsAreAlone, At
    <2>6. IssuedIsThere' /\ CleanersComeAfter'
      BY <2>1, <2>2, HandlerFacts DEF MapsInv, IssuedIsThere, CleanersComeAfter, Spoilt, At
    <2>7. LoginIsOnItsWay' /\ CleanerIsOnItsWay'
      BY <2>1, <2>2, MapFacts DEF MapsInv, LoginIsOnItsWay, Spoilt, CleanerIsOnItsWay, At
    <2> QED BY <2>4, <2>5, <2>6, <2>7 DEF MapsInv
  <1>3. CASE Restart
    <2>1. /\ UNCHANGED <<issued, opener, turnedDown>> /\ identities' = {} /\ csrf' = {}
          /\ sessions' = [s \in Sids |-> NoSession]
          /\ challenges' = [c \in Challenges |-> NoChallenge]
          /\ request' = [r \in Reqs |-> Idle]
      BY <1>3 DEF Restart, history
    <2>2. /\ \A r \in Reqs : request'[r] = Idle
          /\ Idle.at = "idle" /\ Idle.why = "check" /\ Idle.kind \notin LoginKinds /\ Idle.sid = None
      BY <2>1 DEF Idle, LoginKinds
    <2>3. TypeOK'
      BY <2>1, IdleType DEF TypeOK
    <2>4. WhereRequestsAre' /\ LoginsAreAlone'
      BY <2>2 DEF WhereRequestsAre, LoginsAreAlone, At
    <2>5. IssuedIsThere' /\ CleanersComeAfter' /\ LoginIsOnItsWay' /\ CleanerIsOnItsWay'
      BY <2>1, <2>2 DEF IssuedIsThere, CleanersComeAfter, Spoilt, LoginIsOnItsWay, CleanerIsOnItsWay, At
    <2> QED BY <2>3, <2>4, <2>5 DEF MapsInv
  <1> QED BY <1>1, <1>2, <1>3

\* The maps are empty at first.
LEMMA MapsInit == Init => TypeOK /\ MapsInv
  <1> SUFFICES ASSUME Init PROVE TypeOK /\ MapsInv
    OBVIOUS
  <1>1. /\ \A r \in Reqs : request[r] = Idle
        /\ Idle.at = "idle" /\ Idle.why = "check" /\ Idle.kind \notin LoginKinds /\ Idle.sid = None
    BY DEF Init, Idle, LoginKinds
  <1>2. TypeOK
    BY IdleType DEF Init, TypeOK
  <1>3. WhereRequestsAre /\ LoginsAreAlone
    BY <1>1 DEF WhereRequestsAre, LoginsAreAlone, At
  <1>4. IssuedIsThere /\ CleanersComeAfter /\ LoginIsOnItsWay /\ CleanerIsOnItsWay
    BY <1>1 DEF Init, IssuedIsThere, CleanersComeAfter, Spoilt, LoginIsOnItsWay, CleanerIsOnItsWay, At
  <1> QED BY <1>2, <1>3, <1>4 DEF MapsInv

\* What a handler under way may do next.
LEMMA HandlerStep ==
  ASSUME TypeOK, MapsInv, NEW r \in Reqs, Step(r)
  PROVE  TypeOK' /\ MapsInv'
  <1>1. CASE \E found \in 0 .. 2, published, disabled \in BOOLEAN :
               \/ LoginFails(r, found, published, disabled)
               \/ \E s \in Sids : Create(r, s, found, published, disabled)
    BY <1>1, GiveUpStep, CreateStep
  <1>2. CASE \E m \in {"GET", "POST"}, carries \in BOOLEAN : Valid(r, m, carries)
    BY <1>2, ValidStep
  <1>3. CASE Get(r) \/ DeleteSession(r) \/ \E usable \in BOOLEAN : Refresh(r, usable)
    BY <1>3, SessionSteps
  <1>4. CASE Forget(r) \/ Unrefresh(r) \/ DropIdentity(r)
    BY <1>4, IdentityRemoved
  <1>5. CASE StoreIdentity(r) \/ ReadIdentity(r) \/ MintFails(r) \/ Ensure(r)
    BY <1>5, StoreIdentityStep, ReadIdentityStep, GiveUpStep, EnsureStep
  <1>6. CASE CompleteOnboarding(r) \/ DropToken(r)
    BY <1>6, LastSteps
  <1> QED BY <1>1, <1>2, <1>3, <1>4, <1>5, <1>6 DEF Step

\* Every step keeps the invariant.
LEMMA MapsStep == TypeOK /\ MapsInv /\ [Next]_vars => TypeOK' /\ MapsInv'
  <1> SUFFICES ASSUME TypeOK, MapsInv, [Next]_vars PROVE TypeOK' /\ MapsInv'
    OBVIOUS
  <1>1. CASE UNCHANGED vars
    <2>1. TypeOK'
      BY <1>1 DEF TypeOK, vars
    <2> QED BY <1>1, <2>1
            DEF MapsInv, WhereRequestsAre, LoginsAreAlone, IssuedIsThere, CleanersComeAfter, Spoilt,
                LoginIsOnItsWay, CleanerIsOnItsWay, At, vars
  <1>2. CASE \E r \in Reqs : Step(r)
    BY <1>2, HandlerStep
  <1>3. CASE \E r \in Reqs :
               \/ \E t \in TTLs : \/ LocalLogin(r, t) \/ APILogin(r, t)
                                  \/ \E c \in Challenges, p \in Providers : Callback(r, c, p, t)
               \/ \E s \in Sids, k \in {"page", "logout", "onboarding"} : Arrive(r, k, s)
    BY <1>3, BeginSteps
  <1>4. CASE Tick \/ Restart \/ \E c \in Challenges, p \in Providers : BeginLogin(c, p)
    BY <1>4, WorldSteps
  <1> QED BY <1>1, <1>2, <1>3, <1>4 DEF Next

\* However the requests under way interleave with each other, with expiries and
\* restarts, the maps keep the invariant.
THEOREM MapsInvariant == Spec => [](TypeOK /\ MapsInv)
  BY MapsInit, MapsStep, PTL DEF Spec

\* The variables keep their types: no identity and no token is ever stored under
\* an identifier that was not issued.
THEOREM TypeCorrect == Spec => []TypeOK
  BY MapsInvariant, PTL

\* Three maps under three locks agree: somebody who is signed in has an identity
\* and a token, and with no request under way there is an identity exactly where
\* there is a session no token was turned down for.
THEOREM MapsAgree == Spec => []SessionMapsAgree
  <1>1. TypeOK /\ MapsInv => SignedInIsComplete
    <2> SUFFICES ASSUME TypeOK, MapsInv, NEW s \in Sids \ turnedDown, Live(s),
                        \A r \in Reqs : request[r].sid = s => request[r].kind \notin LoginKinds
                 PROVE  s \in csrf \cap identities
      BY DEF SignedInIsComplete
    <2>1. ~Spoilt(s)
      BY DEF Live, Spoilt
    <2>2. \A r \in Reqs : At(r, "store") => request[r].kind \in LoginKinds
      BY DEF MapsInv, WhereRequestsAre
    <2> QED BY <2>1, <2>2 DEF MapsInv, LoginIsOnItsWay, Spoilt
  <1>2. TypeOK /\ MapsInv => NothingOutlivesSession
    <2> SUFFICES ASSUME TypeOK, MapsInv, \A r \in Reqs : At(r, "idle"), NEW s \in issued
                 PROVE  s \in identities <=> ~Spoilt(s)
      BY DEF NothingOutlivesSession, Spoilt
    <2>1. s \in Sids
      BY MapFacts
    <2>2. ~Spoilt(s) => s \in identities
      BY <2>1 DEF MapsInv, LoginIsOnItsWay, Spoilt, At
    <2>3. s \in identities => ~Spoilt(s)
      BY <2>1 DEF MapsInv, CleanerIsOnItsWay, Spoilt, At
    <2> QED BY <2>2, <2>3
  <1> QED BY <1>1, <1>2, MapsInvariant, PTL DEF SessionMapsAgree

-----------------------------------------------------------------------------
(* Signing out *)

\* A step of a handler leaves the other requests alone, and brings no challenge
\* into its own.
LEMMA StepShape ==
  ASSUME TypeOK, MapsInv, NEW q \in Reqs, Step(q)
  PROVE  /\ request' \in [Reqs -> Request]
         /\ \A r \in Reqs \ {q} : request'[r] = request[r]
         /\ request'[q].ch \in {request[q].ch, None}
  <1>1. request \in [Reqs -> Request] /\ request' \in [Reqs -> Request]
    BY HandlerStep DEF TypeOK
  <1>2. \/ UNCHANGED request \/ Finish(q)
        \/ (\E place : Go(q, place)) \/ (\E why : Enter(q, why))
        \/ \E s : request' = [request EXCEPT ![q].at = "store", ![q].sid = s, ![q].ch = None]
    <2>1. CASE \E found \in 0 .. 2, published, disabled \in BOOLEAN, s \in Sids :
                 Create(q, s, found, published, disabled)
      BY <2>1 DEF Create
    <2>2. CASE Forget(q) \/ ReadIdentity(q)
      BY <1>1, <2>2 DEF Forget, ReadIdentity, Failed, Request, Reasons
    <2>3. CASE Ensure(q) \/ \E m \in {"GET", "POST"}, carries \in BOOLEAN : Valid(q, m, carries)
      <3>1. At(q, "valid") => request[q].kind \in {"page", "onboarding", "logout"}
        BY HandlerFacts DEF MapsInv, WhereRequestsAre, At, Request, Kinds
      <3> QED BY <2>3, <3>1 DEF Ensure, Valid
    <2>4. CASE Get(q) \/ (\E usable \in BOOLEAN : Refresh(q, usable)) \/ DeleteSession(q) \/ StoreIdentity(q) \/ DropIdentity(q)
      BY <2>4 DEF Get, Refresh, DeleteSession, StoreIdentity, DropIdentity
    <2>5. CASE \/ MintFails(q) \/ Unrefresh(q) \/ CompleteOnboarding(q) \/ DropToken(q)
               \/ \E found \in 0 .. 2, published, disabled \in BOOLEAN :
                    LoginFails(q, found, published, disabled)
      BY <2>5 DEF MintFails, Unrefresh, CompleteOnboarding, DropToken, LoginFails
    <2> QED BY <2>1, <2>2, <2>3, <2>4, <2>5 DEF Step
  <1>3. \A r \in Reqs \ {q} : request'[r] = request[r]
    BY <1>1, <1>2 DEF Finish, Go, Enter
  <1>4. request'[q].ch \in {request[q].ch, None}
    <2>1. CASE Finish(q)
      BY <1>1, <2>1 DEF Finish, Idle
    <2>2. CASE \/ UNCHANGED request
               \/ (\E place : Go(q, place)) \/ (\E why : Enter(q, why))
               \/ \E s : request' = [request EXCEPT ![q].at = "store", ![q].sid = s, ![q].ch = None]
      BY <1>1, <2>2 DEF Go, Enter, Request
    <2> QED BY <1>2, <2>1, <2>2
  <1> QED BY <1>1, <1>3, <1>4

\* The steps of others leave a request where it is, a restart apart.
LEMMA OthersLeaveAlone ==
  ASSUME TypeOK, MapsInv, NEW r \in Reqs, request[r].at # "idle", [Next]_vars
  PROVE  Step(r) \/ Restart \/ request'[r] = request[r]
  <1>1. ASSUME NEW q \in Reqs, q # r, Step(q) PROVE request'[r] = request[r]
    BY <1>1, StepShape
  <1>2. ASSUME NEW q \in Reqs,
               \/ \E t \in TTLs : \/ LocalLogin(q, t) \/ APILogin(q, t)
                                  \/ \E c \in Challenges, p \in Providers : Callback(q, c, p, t)
               \/ \E s \in Sids, k \in {"page", "logout", "onboarding"} : Arrive(q, k, s)
        PROVE  request'[r] = request[r]
    <2>1. request[q].at = "idle" /\ q # r
      BY <1>2 DEF LocalLogin, APILogin, Callback, Arrive, At
    <2>2. request' = request \/ \E v : request' = [request EXCEPT ![q] = v]
      BY <1>2 DEF LocalLogin, APILogin, Callback, Arrive
    <2> QED BY <2>1, <2>2 DEF TypeOK
  <1>3. Tick \/ (\E c \in Challenges, p \in Providers : BeginLogin(c, p)) \/ UNCHANGED vars
          => request' = request
    BY DEF Tick, BeginLogin, vars
  <1> QED BY <1>1, <1>2, <1>3 DEF Next

\* Signing out works: when a logout is over, however it went and whatever got in
\* between, the session it was asked to end is not good any more, unless a token
\* was turned down for it.
THEOREM LogoutWorks == Spec => LogoutEnds
  <1> DEFINE A == \A r \in Reqs, s \in Sids \ turnedDown :
                    request[r].why = "logout" /\ request[r].sid = s /\ request'[r].at = "idle"
                      => ~Live(s)'
  <1>1. TypeOK /\ MapsInv /\ [Next]_vars => [A]_vars
    <2> SUFFICES ASSUME TypeOK, MapsInv, [Next]_vars, NEW r \in Reqs, NEW s \in Sids \ turnedDown,
                        request[r].why = "logout", request[r].sid = s, request'[r].at = "idle"
                 PROVE  sessions'[s] = NoSession
      BY DEF Live
    <2>1. /\ request[r].at \in {"get", "identity", "forget", "delete", "drop", "csrf"}
          /\ request \in [Reqs -> Request]
      BY DEF MapsInv, WhereRequestsAre, TypeOK
    <2>2. CASE Restart
      BY <2>2 DEF Restart
    <2>3. CASE Step(r)
      <3>1. ASSUME NEW place \in {"identity", "forget", "delete", "drop", "csrf"} PROVE ~Go(r, place)
        <4>1. place \in Places
          BY DEF Places
        <4> QED BY <2>1, <4>1, GoFacts DEF Moves
      <3>2. ~Get(r) /\ ~DeleteSession(r) /\ ~DropIdentity(r) /\ ~Forget(r)
        BY <3>1 DEF Get, DeleteSession, DropIdentity, Forget, Failed
      <3>3. CASE ReadIdentity(r)
        <4>1. s \notin identities
          BY <3>1, <3>3 DEF ReadIdentity
        <4> QED BY <3>3, <4>1, MissingIdentity DEF ReadIdentity, maps, Spoilt
      <3>4. CASE DropToken(r)
        BY <3>4 DEF DropToken, MapsInv, CleanersComeAfter, At, Spoilt
      <3> QED BY <2>1, <2>3, <3>2, <3>3, <3>4
              DEF Step, LoginFails, Create, Valid, StoreIdentity, MintFails, Refresh, Unrefresh,
                  Ensure, CompleteOnboarding, At
    <2> QED BY <2>1, <2>2, <2>3, OthersLeaveAlone
  <1> HIDE DEF A
  <1>2. Spec => [][A]_vars
    BY <1>1, MapsInvariant, PTL DEF Spec
  <1> QED BY <1>2 DEF LogoutEnds, A

-----------------------------------------------------------------------------
(* Sessions implements Logins *)

\* A challenge never has two owners.
LEMMA ChallengeInit == Init => ChallengeIsOnce
  <1> SUFFICES ASSUME Init PROVE ChallengeIsOnce
    OBVIOUS
  <1>1. \A r \in Reqs : request[r].ch = None
    BY DEF Init, Idle
  <1>2. \A c \in Challenges : challenges[c] = NoChallenge
    BY DEF Init
  <1> QED BY <1>1, <1>2 DEF ChallengeIsOnce

\* A challenge that is pending is behind no session and in nobody's hands, one
\* that a callback took is in the hands of that request alone, until it has
\* opened a session.
LEMMA ChallengeStep ==
  ASSUME TypeOK, MapsInv, ChallengeIsOnce, [Next]_vars
  PROVE  ChallengeIsOnce'
  <1> DEFINE Pending(c) == challenges[c] # NoChallenge
  <1>1. ASSUME NEW r \in Reqs, UNCHANGED opener,
               \A c \in Challenges : Pending(c)' => Pending(c),
               \A q \in Reqs \ {r} : request'[q] = request[q], request'[r].ch = None
        PROVE  ChallengeIsOnce'
    <2>1. ~\E c \in Challenges : c = None
      BY SessionsAssumption
    <2>2. \A q \in Reqs : request'[q].ch # None => q # r /\ request'[q] = request[q]
      BY <1>1
    <2>3. \A q \in Reqs : request'[q].ch \in {request[q].ch, None}
      BY <1>1
    <2>4. \A c \in Challenges : challenges'[c] # NoChallenge =>
            /\ \A s \in Sids : opener'[s] # c
            /\ \A q \in Reqs : request'[q].ch # c
      BY <1>1, <2>1, <2>3 DEF ChallengeIsOnce
    <2> QED BY <1>1, <2>2, <2>4 DEF ChallengeIsOnce, At
  <1>2. ASSUME NEW r \in Reqs, NEW s \in Sids, NEW found, NEW published, NEW disabled,
               Create(r, s, found, published, disabled)
        PROVE  ChallengeIsOnce'
    <2>1. /\ UNCHANGED challenges
          /\ request[r].at = "create"
          /\ opener'[s] = request[r].ch
          /\ \A t \in Sids \ {s} : opener'[t] = opener[t]
          /\ \A q \in Reqs \ {r} : request'[q] = request[q]
          /\ request'[r].ch = None
      BY <1>2 DEF Create, TypeOK, At, Request
    <2>2. \A t \in Sids : opener'[t] \in {opener[t], request[r].ch}
      BY <2>1
    <2>3. \A c \in Challenges : challenges[c] # NoChallenge =>
            /\ \A t \in Sids : opener'[t] # c
            /\ \A q \in Reqs : request'[q].ch # c
      BY <2>1, <2>2, SessionsAssumption DEF ChallengeIsOnce
    <2>4. \A q \in Reqs : request'[q].ch # None =>
            /\ q # r /\ request'[q] = request[q]
            /\ \A t \in Sids : opener'[t] # request'[q].ch
            /\ \A p \in Reqs : request'[p].ch = request'[q].ch => p = q
      <3> SUFFICES ASSUME NEW q \in Reqs, request'[q].ch # None
                   PROVE  /\ q # r /\ request'[q] = request[q]
                          /\ \A t \in Sids : opener'[t] # request'[q].ch
                          /\ \A p \in Reqs : request'[p].ch = request'[q].ch => p = q
        OBVIOUS
      <3>1. q # r /\ request'[q] = request[q]
        BY <2>1
      <3>2. request[r].ch # request[q].ch
        BY <3>1 DEF ChallengeIsOnce
      <3>3. \A t \in Sids : opener'[t] # request'[q].ch
        BY <2>2, <3>1, <3>2 DEF ChallengeIsOnce
      <3>4. ASSUME NEW p \in Reqs, request'[p].ch = request'[q].ch PROVE p = q
        BY <2>1, <3>1, <3>4 DEF ChallengeIsOnce
      <3> QED BY <3>1, <3>3, <3>4
    <2> QED BY <2>1, <2>3, <2>4 DEF ChallengeIsOnce, At
  <1>3. ASSUME NEW r \in Reqs, Step(r) PROVE ChallengeIsOnce'
    <2>1. CASE \E found \in 0 .. 2, published, disabled \in BOOLEAN, s \in Sids :
                 Create(r, s, found, published, disabled)
      BY <1>2, <2>1
    <2>2. CASE ~\E found \in 0 .. 2, published, disabled \in BOOLEAN, s \in Sids :
                 Create(r, s, found, published, disabled)
      <3>1. UNCHANGED <<challenges, opener>>
        BY <1>3, <2>2
           DEF Step, LoginFails, Valid, StoreIdentity, Get, Forget, ReadIdentity, MintFails,
               Refresh, Unrefresh, Ensure, CompleteOnboarding, DeleteSession, DropIdentity,
               DropToken, maps, history
      <3>2. request[r].ch = None \/ request[r].at = "create"
        BY DEF ChallengeIsOnce, At
      <3>3. request'[r].ch = None
        <4>1. CASE request[r].at = "create"
          <5>1. \E found \in 0 .. 2, published, disabled \in BOOLEAN :
                  LoginFails(r, found, published, disabled)
            BY <1>3, <2>2, <4>1
               DEF Step, Valid, StoreIdentity, Get, Forget, ReadIdentity, MintFails,
                   Refresh, Unrefresh, Ensure, CompleteOnboarding, DeleteSession, DropIdentity,
                   DropToken, At
          <5> QED BY <5>1 DEF LoginFails, Finish, Idle, TypeOK
        <4>2. CASE request[r].ch = None
          BY <1>3, <4>2, StepShape
        <4> QED BY <3>2, <4>1, <4>2
      <3>4. \A q \in Reqs \ {r} : request'[q] = request[q]
        BY <1>3, StepShape
      <3> QED BY <1>1, <3>1, <3>3, <3>4
    <2> QED BY <2>1, <2>2
  <1>4. ASSUME NEW r \in Reqs,
               \/ \E t \in TTLs : LocalLogin(r, t) \/ APILogin(r, t)
               \/ \E s \in Sids, k \in {"page", "logout", "onboarding"} : Arrive(r, k, s)
        PROVE  ChallengeIsOnce'
    <2>1. UNCHANGED <<challenges, opener>>
      BY <1>4 DEF LocalLogin, APILogin, Arrive, maps, history
    <2>2. /\ \A q \in Reqs \ {r} : request'[q] = request[q]
          /\ request'[r].ch = None
      BY <1>4 DEF LocalLogin, APILogin, Arrive, TypeOK, Idle
    <2> QED BY <1>1, <2>1, <2>2
  <1>5. ASSUME NEW r \in Reqs, NEW t \in TTLs, NEW c \in Challenges, NEW p \in Providers,
               Callback(r, c, p, t)
        PROVE  ChallengeIsOnce'
    <2>1. /\ UNCHANGED opener /\ request[r].at = "idle"
          /\ \A d \in Challenges \ {c} : challenges'[d] = challenges[d]
          /\ challenges'[c] = NoChallenge
      BY <1>5 DEF Callback, Take, TypeOK, history, At
    <2>2. \/ request' = request
          \/ /\ challenges[c].left > 0
             /\ \A q \in Reqs \ {r} : request'[q] = request[q]
             /\ request'[r].ch = c /\ request'[r].at = "create"
      BY <1>5 DEF Callback, TypeOK, Idle
    <2>3. challenges[c].left > 0 => challenges[c] # NoChallenge
      BY DEF NoChallenge
    <2>4. c # None
      BY SessionsAssumption
    <2>5. CASE request' = request
      BY <2>1, <2>5 DEF ChallengeIsOnce, At
    <2>6. CASE /\ challenges[c].left > 0
               /\ \A q \in Reqs \ {r} : request'[q] = request[q]
               /\ request'[r].ch = c /\ request'[r].at = "create"
      <3>1. (\A s \in Sids : opener[s] # c) /\ (\A q \in Reqs : request[q].ch # c)
        BY <2>3, <2>6 DEF ChallengeIsOnce
      <3>2. \A d \in Challenges : challenges'[d] # NoChallenge =>
              /\ \A s \in Sids : opener'[s] # d
              /\ \A q \in Reqs : request'[q].ch # d
        BY <2>1, <2>6 DEF ChallengeIsOnce
      <3>3. \A q \in Reqs : request'[q].ch # None =>
              /\ \A s \in Sids : opener'[s] # request'[q].ch
              /\ \A o \in Reqs : request'[o].ch = request'[q].ch => o = q
              /\ request'[q].at = "create"
        BY <2>1, <2>4, <2>6, <3>1 DEF ChallengeIsOnce, At
      <3> QED BY <3>2, <3>3 DEF ChallengeIsOnce, At
    <2> QED BY <2>2, <2>5, <2>6
  <1>6. ASSUME NEW c \in Challenges, NEW p \in Providers, BeginLogin(c, p)
        PROVE  ChallengeIsOnce'
    <2>1. /\ UNCHANGED <<request, opener>>
          /\ \A d \in Challenges \ {c} : challenges'[d] = challenges[d]
          /\ \A s \in Sids : opener[s] # c
          /\ \A r \in Reqs : request[r].ch # c
      BY <1>6 DEF BeginLogin, TypeOK, history
    <2> QED BY <2>1 DEF ChallengeIsOnce, At
  <1>7. CASE Tick
    <2>1. \A c \in Challenges : Pending(c)' => Pending(c)
      <3> SUFFICES ASSUME NEW c \in Challenges, challenges[c] = NoChallenge
                   PROVE  challenges'[c] = NoChallenge
        OBVIOUS
      <3> QED BY <1>7 DEF Tick, NoChallenge
    <2>2. UNCHANGED <<request, opener>>
      BY <1>7 DEF Tick, history
    <2> QED BY <2>1, <2>2 DEF ChallengeIsOnce, At
  <1>8. CASE Restart
    <2>1. \A r \in Reqs : request'[r].ch = None
      BY <1>8 DEF Restart, Idle
    <2>2. \A c \in Challenges : challenges'[c] = NoChallenge
      BY <1>8 DEF Restart
    <2> QED BY <2>1, <2>2 DEF ChallengeIsOnce
  <1>9. CASE UNCHANGED vars
    BY <1>9 DEF ChallengeIsOnce, At, vars
  <1> QED BY <1>3, <1>4, <1>5, <1>6, <1>7, <1>8, <1>9 DEF Next

\* A session that ends, or several at once, is an End of Logins or nothing.
LEMMA EndsRefine ==
  ASSUME TypeOK, MapsInv, UNCHANGED <<issued, opener>>,
         \A s \in Sids : Live(s)' => Live(s)
  PROVE  [L!Next]_<<{s \in Sids : Live(s)}, {s \in issued : ~Live(s)}, opener>>
  <1> DEFINE open == {s \in Sids : Live(s)}
             ended == {s \in issued : ~Live(s)}
             S == open \ open'
  <1>1. \A s \in Sids : Live(s) => s \in issued
    BY DEF Live, MapsInv, IssuedIsThere
  <1>2. open' = open \ S /\ ended' = ended \cup S /\ opener' = opener /\ S \subseteq open
    BY <1>1, MapFacts
  <1>3. CASE S = {}
    BY <1>2, <1>3
  <1>4. CASE S # {}
    BY <1>2, <1>4 DEF L!Next, L!End
  <1> QED BY <1>3, <1>4

\* A session that is created is a SignIn of Logins.
LEMMA CreateRefines ==
  ASSUME TypeOK, MapsInv, ChallengeIsOnce, NEW r \in Reqs, NEW s \in Sids, NEW found,
         NEW published, NEW disabled, Create(r, s, found, published, disabled)
  PROVE  L!Next
  <1> DEFINE open == {t \in Sids : Live(t)}
             ended == {t \in issued : ~Live(t)}
             c == request[r].ch
  <1>1. /\ s \notin issued /\ issued' = issued \cup {s}
        /\ opener' = [opener EXCEPT ![s] = c]
        /\ sessions'[s] = [left |-> request[r].ttl, ttl |-> request[r].ttl]
        /\ \A t \in Sids \ {s} : sessions'[t] = sessions[t]
        /\ c \in Challenges \cup {None} /\ request[r].ttl \in Nat \ {0}
    BY SessionsAssumption DEF Create, TypeOK, Request
  <1>2. \A t \in Sids : Live(t) => t \in issued
    BY DEF Live, MapsInv, IssuedIsThere
  <1>3. Live(s)' /\ ~Live(s) /\ \A t \in Sids \ {s} : Live(t)' <=> Live(t)
    BY <1>1, <1>2 DEF Live, NoSession
  <1>4. s \notin open \cup ended
    BY <1>1, <1>2
  <1>5. open' = open \cup {s} /\ ended' = ended
    BY <1>1, <1>3, MapFacts
  <1>6. c = None \/ \A t \in Sids : opener[t] # c
    BY DEF ChallengeIsOnce
  <1> QED BY <1>1, <1>4, <1>5, <1>6 DEF L!Next, L!SignIn

\* An ended session is never good again, not even for a request that was minting
\* a token when it ended, and a challenge opens one session at most, also when
\* its callback arrives twice: the maps of the process implement Logins.
THEOREM SessionsImplementLogins == Spec => LoginsRefined
  <1> DEFINE open == {s \in Sids : Live(s)}
             ended == {s \in issued : ~Live(s)}
  <1>1. Spec => [](TypeOK /\ MapsInv /\ ChallengeIsOnce)
    BY ChallengeInit, ChallengeStep, MapsInvariant, PTL DEF Spec
  <1>2. Init => L!Init
    <2> SUFFICES ASSUME Init PROVE L!Init
      OBVIOUS
    <2>1. \A s \in Sids : ~Live(s)
      BY DEF Init, Live
    <2> QED BY <2>1 DEF Init, L!Init
  <1>3. TypeOK /\ MapsInv /\ ChallengeIsOnce /\ [Next]_vars => [L!Next]_<<open, ended, opener>>
    <2> SUFFICES ASSUME TypeOK, MapsInv, ChallengeIsOnce, [Next]_vars
                 PROVE  [L!Next]_<<open, ended, opener>>
      OBVIOUS
    <2>1. CASE UNCHANGED <<sessions, issued, opener>>
      BY <2>1, EndsRefine DEF Live
    <2>2. CASE \E r \in Reqs, found \in 0 .. 2, published, disabled \in BOOLEAN, s \in Sids :
                 Create(r, s, found, published, disabled)
      BY <2>2, CreateRefines
    <2>3. ASSUME NEW r \in Reqs, Get(r) \/ DeleteSession(r) \/ \E usable \in BOOLEAN : Refresh(r, usable)
          PROVE  [L!Next]_<<open, ended, opener>>
      <3>1. UNCHANGED <<issued, opener>>
        BY <2>3 DEF Get, Refresh, DeleteSession, history
      <3>2. \A s \in Sids : sessions'[s] = sessions[s] \/ sessions'[s] = NoSession \/ Live(s)
        BY <2>3 DEF Get, Refresh, DeleteSession, TypeOK
      <3> QED BY <3>1, <3>2, EndsRefine DEF Live, NoSession
    <2>4. CASE Tick
      <3>1. UNCHANGED <<issued, opener>>
        BY <2>4 DEF Tick, history
      <3>2. \A s \in Sids : Live(s)' => Live(s)
        <4> SUFFICES ASSUME NEW s \in Sids, Live(s)' PROVE Live(s)
          OBVIOUS
        <4>1. sessions'[s] = [sessions[s] EXCEPT !.left = IF @ = 0 THEN 0 ELSE @ - 1]
          BY <2>4 DEF Tick
        <4>2. sessions[s] \in [left : Nat, ttl : TTLs] \cup {NoSession}
          BY DEF TypeOK
        <4>3. CASE sessions[s] = NoSession
          BY <4>1, <4>3 DEF Live, NoSession
        <4>4. CASE sessions[s] \in [left : Nat, ttl : TTLs] /\ sessions[s] # NoSession
          BY <4>1, <4>4 DEF Live
        <4> QED BY <4>2, <4>3, <4>4
      <3> QED BY <3>1, <3>2, EndsRefine
    <2>5. CASE Restart
      BY <2>5, EndsRefine DEF Restart, Live, history
    <2> QED BY <2>1, <2>2, <2>3, <2>4, <2>5
            DEF Next, Step, LocalLogin, APILogin, Callback, Arrive, BeginLogin, LoginFails, Valid,
                StoreIdentity, Forget, ReadIdentity, MintFails, Unrefresh, Ensure,
                CompleteOnboarding, DropIdentity, DropToken, vars, maps, history
  <1> QED BY <1>1, <1>2, <1>3, PTL DEF Spec, LoginsRefined, L!Spec

-----------------------------------------------------------------------------
(* The accounts beside the sessions *)

Proved == INSTANCE AccountsProofs

\* The accounts take their steps and no others.
LEMMA AccountsWithin == IdentitySpec => Proved!Spec
<1>1. IdentityInit => Proved!Init
  BY DEF IdentityInit, Acc!Init, Proved!Init, Acc!NoUser, Proved!NoUser, Acc!NoBoot, Proved!NoBoot,
         Acc!Idle, Proved!Idle
<1>2. Acc!Next => Proved!Next
  BY DEF Acc!history, Proved!history, Acc!Passwords, Proved!Passwords,
         Acc!NoUser, Proved!NoUser, Acc!NoBoot, Proved!NoBoot, Acc!Idle, Proved!Idle,
         Acc!At, Proved!At, Acc!Go, Proved!Go, Acc!Finish, Proved!Finish,
         Acc!Start, Proved!Start, Acc!Found, Proved!Found, Acc!Unseen, Proved!Unseen,
         Acc!Fresh, Proved!Fresh, Acc!FreshToken, Proved!FreshToken,
         Acc!FreshLink, Proved!FreshLink, Acc!AdminCreates, Proved!AdminCreates,
         Acc!HookStarts, Proved!HookStarts, Acc!EnsureSpace, Proved!EnsureSpace,
         Acc!HookLists, Proved!HookLists, Acc!FindFree, Proved!FindFree,
         Acc!Created, Proved!Created, Acc!CreateUser, Proved!CreateUser,
         Acc!TokenHookStarts, Proved!TokenHookStarts, Acc!HasAny, Proved!HasAny,
         Acc!IssueToken, Proved!IssueToken, Acc!Key, Proved!Key, Acc!Value, Proved!Value,
         Acc!Publish, Proved!Publish, Acc!ReadBoot, Proved!ReadBoot,
         Acc!PatchBoot, Proved!PatchBoot, Acc!OperatorReads, Proved!OperatorReads,
         Acc!RevokeToken, Proved!RevokeToken, Acc!ChangeStarts, Proved!ChangeStarts,
         Acc!Verify, Proved!Verify, Acc!WritePassword, Proved!WritePassword,
         Acc!ResetStarts, Proved!ResetStarts, Acc!Match, Proved!Match,
         Acc!Spend, Proved!Spend, Acc!FindAccount, Proved!FindAccount,
         Acc!IssueStarts, Proved!IssueStarts, Acc!Stale, Proved!Stale,
         Acc!ListStale, Proved!ListStale, Acc!ClearLink, Proved!ClearLink,
         Acc!StoreLink, Proved!StoreLink, Acc!ExpireLink, Proved!ExpireLink,
         Acc!RemoveStarts, Proved!RemoveStarts, Acc!RemoveLogin, Proved!RemoveLogin,
         Acc!ListLogins, Proved!ListLogins, Acc!DeleteLogin, Proved!DeleteLogin,
         Acc!Dies, Proved!Dies, Acc!Next, Proved!Next
<1>3. [IdentityNext]_<<part, vars, accountVars>> => [Proved!Next]_Proved!vars
  BY <1>2 DEF IdentityNext, accountVars, Proved!vars
<1> QED BY <1>1, <1>3, PTL DEF IdentitySpec, Proved!Spec

LEMMA AccountsAssumed == Proved!AccountsAssumption
  BY AccountsOfIdentity DEF Acc!AccountsAssumption, Proved!AccountsAssumption

\* LocalUserStore.Create: for every number of creators, however their lookups
\* interleave, one username never has two accounts.
THEOREM UsernamesAreUnique == IdentitySpec => []OneAccountPerUsername
<1>1. Proved!Spec => []Proved!OneAccountPerUsername
  BY Proved!AccountsAreUnique, AccountsAssumed
<1>2. Proved!OneAccountPerUsername => OneAccountPerUsername
  BY DEF OneAccountPerUsername, Acc!OneAccountPerUsername, Proved!OneAccountPerUsername,
         Acc!Found, Proved!Found, Acc!Cardinality, Proved!Cardinality
<1> QED BY <1>1, <1>2, AccountsWithin, PTL

\* internal/bootstrap: for every number of hooks and accounts, as long as no hook
\* stopped before it wrote down what it had made up, every password and some
\* administrator token can be read by a person.
THEOREM NobodyIsShutOut == IdentitySpec => []NoLockoutWithoutCrash
<1>1. Proved!Spec => []Proved!NoLockoutWithoutCrash
  BY Proved!NobodyIsLockedOut, AccountsAssumed
<1>2. Proved!NoLockoutWithoutCrash => NoLockoutWithoutCrash
  BY DEF NoLockoutWithoutCrash, Acc!NoLockoutWithoutCrash, Proved!NoLockoutWithoutCrash,
         Acc!EveryoneHasAPassword, Proved!EveryoneHasAPassword, Acc!Published, Proved!Published,
         Acc!Value, Proved!Value, Acc!NoUser, Proved!NoUser
<1> QED BY <1>1, <1>2, AccountsWithin, PTL

\* ResetStore: for every number of requests and links, a link is spent twice, or
\* an account has two, only after a race.
THEOREM LinksAreRaced == IdentitySpec => []LinkAbuseNeedsRace
<1>1. Proved!Spec => []Proved!LinkAbuseNeedsRace
  BY Proved!LinksNeedARace, AccountsAssumed
<1>2. Proved!LinkAbuseNeedsRace => LinkAbuseNeedsRace
  BY DEF LinkAbuseNeedsRace, Acc!LinkAbuseNeedsRace, Proved!LinkAbuseNeedsRace
<1> QED BY <1>1, <1>2, AccountsWithin, PTL

=============================================================================
