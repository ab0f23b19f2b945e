\* One other process; a provider that rotates refresh tokens and wants
\* the secret of the client; one call.
CONSTANTS
  Clients = {u, o}
  User = u
  u = u
  o = o
  MaxGrants = 3
  Rotates = TRUE
  Confidential = TRUE
  MaxCalls = 1
  MaxAttempts = 2
SPECIFICATION FairSpec
INVARIANT TypeOK
INVARIANT AtMostOnce
INVARIANT KnownOutcome
INVARIANT SessionKept
PROPERTY CallEnds
CHECK_DEADLOCK FALSE
