------------------------------- MODULE Logins -------------------------------
(***************************************************************************)
(* What signing in promises: a session is opened once and, once it has     *)
(* ended, is never open again; a login challenge sent to an identity       *)
(* provider opens at most one session.  Sessions implements it.            *)
(***************************************************************************)
CONSTANTS Sids, Challenges, None

VARIABLES open,   \* the sessions that are good for a request
          ended,  \* the sessions that were open once and are so no more
          opener  \* per session, the challenge it was opened with

Init == open = {} /\ ended = {} /\ opener = [s \in Sids |-> None]

SignIn(s, c) ==
  /\ s \notin open \cup ended
  /\ c = None \/ \A t \in Sids : opener[t] # c
  /\ open' = open \cup {s}
  /\ opener' = [opener EXCEPT ![s] = c]
  /\ UNCHANGED ended

\* Time passes for several sessions at once, and a restart ends them all.
End(S) ==
  /\ S # {} /\ S \subseteq open
  /\ open' = open \ S
  /\ ended' = ended \cup S
  /\ UNCHANGED opener

Next == \/ \E s \in Sids, c \in Challenges \cup {None} : SignIn(s, c)
        \/ \E S \in SUBSET open : End(S)

Spec == Init /\ [][Next]_<<open, ended, opener>>
=============================================================================
