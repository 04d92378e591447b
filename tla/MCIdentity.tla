----------------------------- MODULE MCIdentity -----------------------------
(***************************************************************************)
(* One instance for TLC of the two halves of signing in: the sessions of   *)
(* the console process and the local accounts that the API server holds.   *)
(* They share nothing (a session keeps no reference to an account), so a   *)
(* behaviour is of one of them and the other stays as it is at the start.  *)
(***************************************************************************)
EXTENDS Sessions, TLC

CONSTANTS Usernames, Names, SecretName, Chosen, Generated, Links, Tokens, Procs, u1, u2, n1, n2

VARIABLES part, users, space, links, tokens, boot, proc, known, uses, overlap, raced, died, removed, hooked

accountVars == <<users, space, links, tokens, boot, proc, known, uses, overlap, raced, died, removed, hooked>>

\* The Secret of the only account (another name is there for a bug to use), and
\* those of two.
OneLogin == u1 :> n1
TwoLogins == u1 :> n1 @@ u2 :> n2

Acc == INSTANCE Accounts

ASSUME AccountsOfIdentity == Acc!AccountsAssumption

IdentityInit ==
  /\ part \in {"sessions", "accounts"} /\ Init /\ Acc!Init
  /\ part = "sessions" => ~space

IdentityNext ==
  \/ part = "sessions" /\ Next     /\ UNCHANGED <<part, accountVars>>
  \/ part = "accounts" /\ Acc!Next /\ UNCHANGED <<part, vars>>

IdentitySpec == IdentityInit /\ [][IdentityNext]_<<part, vars, accountVars>>

\* Sessions may be exchanged for one another, HTTP requests too.
Exchanges == Permutations(Sids) \cup Permutations(Reqs)

\* A token is turned down for one session: a second one would triple the states
\* and show nothing the first does not.
OneTurnedDown == Cardinality(turnedDown) <= 1

\* LocalUserStore.Create: however the lookups of two creators interleave, one
\* username never has two accounts.
OneAccountPerUsername == Acc!OneAccountPerUsername

\* internal/bootstrap: as long as no hook stopped before it wrote down what it
\* had made up, every password and some administrator token can be read by a
\* person.
NoLockoutWithoutCrash == Acc!NoLockoutWithoutCrash

\* ResetStore: a link is spent twice, or an account has two, only after a race.
LinkAbuseNeedsRace == Acc!LinkAbuseNeedsRace

\* internal/bootstrap: whatever password a hook generates, somebody can read it.
GeneratedPasswordsAreWritten == Acc!GeneratedPasswordsAreWritten
=============================================================================
