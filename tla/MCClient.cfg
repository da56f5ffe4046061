\* A session of two flows with two matched events and a third request for the
\* attestation; three connections of two clients with two broadcasts.
SPECIFICATION Spec
CONSTANTS
  MaxFlows = 2
  MaxEvents = 2
  Requests = {0, 1, 2}
  Clients = {"first", "second"}
  MaxConnects = 2
  MaxConnections = 3
  MaxBroadcasts = 2
INVARIANTS
  TypeOK
  SuccessIsMatched
  ReportReaches
PROPERTIES
  AttestationHonest
  MatchIsShown
CHECK_DEADLOCK FALSE
