SPECIFICATION IdentitySpec
CONSTANTS
  Sids = {s1}
  Challenges = {c1}
  Reqs = {r1}
  None = None
  TTLs = {1, 2}
  ChallengeTTL = 1
  u1 = u1
  u2 = u2
  n1 = n1
  n2 = n2
  SecretName <- TwoLogins
  Usernames = {u1, u2}
  Names = {n1, n2}
  Chosen = {w1}
  Generated = {11, 12}
  Links = {21, 22}
  Tokens = {31, 32}
  Procs = {1, 2}
INVARIANT GeneratedPasswordsAreWritten
CHECK_DEADLOCK FALSE
