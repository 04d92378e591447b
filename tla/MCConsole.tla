----------------------------- MODULE MCConsole -----------------------------
(***************************************************************************)
(* One instance for TLC of the four parts behind the console that share no *)
(* object: the admission of UserSpaces, the edits of shared objects, the   *)
(* git-ssh keys and the life of a Workspace as the screens see it.  Since  *)
(* they share nothing, a behaviour is of one part: the UserSpaces stay as  *)
(* they are at the start in a behaviour of another part, and the variables *)
(* of the other three are None outside their own.                          *)
(***************************************************************************)
EXTENDS UserSpaceAdmission, TLC

CONSTANTS Procs,  \* the requests of the parts in which three may meet
          Hosts

VARIABLES part,                                       \* the part this behaviour is of
          at, asked,                                  \* pc and req of the other three
          about, obj, cache, lapsed, meant, excused,  \* ConsoleEdits
          secret,                                     \* GitKeys
          image, profile, known, ws, sts, claim, pod, made, card, events  \* WorkspaceConsole

Edit == INSTANCE ConsoleEdits WITH pc <- at, req <- asked, Absent <- None
Git  == INSTANCE GitKeys WITH pc <- at, req <- asked, Requests <- Procs
Work == INSTANCE WorkspaceConsole WITH pc <- at, req <- asked

ASSUME NoneOfEdits == Edit!NoneAssumption
ASSUME NoneOfKeys == Git!NoneAssumption
ASSUME NoneOfWorkspaces == Work!NoneAssumption

editVars == <<about, obj, cache, lapsed, meant, excused>>
workVars == <<image, profile, known, ws, sts, claim, pod, made, card, events>>

ConsoleInit ==
  /\ Init
  /\ part \in {"people", "edits", "keys", "workspace"}
  /\ part = "people" => at = None /\ asked = None
  /\ IF part = "edits" THEN Edit!Init
     ELSE /\ about = None /\ obj = None /\ cache = None
          /\ lapsed = None /\ meant = None /\ excused = None
  /\ IF part = "keys" THEN Git!Init ELSE secret = None
  /\ IF part = "workspace" THEN Work!Init
     ELSE /\ image = None /\ profile = None /\ known = None /\ ws = None /\ sts = None
          /\ claim = None /\ pod = None /\ made = None /\ card = None /\ events = None

ConsoleNext ==
  \/ part = "people"    /\ Next      /\ UNCHANGED <<part, at, asked, editVars, secret, workVars>>
  \/ part = "edits"     /\ Edit!Next /\ UNCHANGED <<part, vars, secret, workVars>>
  \/ part = "keys"      /\ Git!Next  /\ UNCHANGED <<part, vars, editVars, workVars>>
  \/ part = "workspace" /\ Work!Next /\ UNCHANGED <<part, vars, editVars, secret>>

ConsoleSpec ==
  ConsoleInit /\ [][ConsoleNext]_<<part, vars, at, asked, editVars, secret, workVars>>

\* Requests may be exchanged for one another, hosts too.
Exchanges == Permutations(Procs) \union Permutations(Requests) \union Permutations(Hosts)

-----------------------------------------------------------------------------
(* The properties of the parts, where there is something to say. *)

\* Every screen and handler that patches an object: a field holds what it was
\* last deliberately given, whatever other fields were edited since, unless two
\* edits overlapped or the loss is a known one.
EditsKeepTheRest == part = "edits" => Edit!EditsKeepTheRest

\* platformConfig and invalidatePlatformConfig: what the cache serves is what is
\* stored, unless a read that was under way during a save was kept after it, or a
\* Get failed and no settings are served.
CacheFollowsSaves == part = "edits" => Edit!CacheFollowsSaves

\* PutGitSSHKey and DeleteGitSSHKey: no request loses a key it has seen, and only
\* one that read an older Secret leaves one that is not whole.
KeysAreKept == Git!KeysAreKept

\* handleNewWorkspaceForm, the mutating webhook and workspacePollTrigger: a
\* form that was shown ends in a Workspace with a key and a card that has stopped
\* polling shows how it ended, unless what they showed has changed.
ScreensTellTheTruth == part = "workspace" => Work!ScreensTellTheTruth

\* handleDeleteWorkspace: a home volume goes from under a Workspace only if the
\* Workspace was created during the deletion of an earlier one of its name.
HomesAreKept == Work!HomesAreKept

=============================================================================
