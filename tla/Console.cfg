SPECIFICATION ConsoleSpec
CONSTANTS
  Procs = {p1, p2, p3}
  Requests = {q1, q2}
  Hosts = {h1, h2}
  Names = {a, b, c}
  First = a
  Second = b
  None = None
SYMMETRY Exchanges
INVARIANTS LoginClashNeedsRace NamespaceIsFixed EditsKeepTheRest CacheFollowsSaves ScreensTellTheTruth
PROPERTIES EntitlementsNeedAnAdministrator KeysAreKept HomesAreKept
CHECK_DEADLOCK FALSE
