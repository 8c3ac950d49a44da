CONSTANTS
  Covers <- MCCovers
  Literals <- MCLiterals
  Unprefixed <- MCUnprefixed
  Normalised <- MCNormalised
  NoPath = "none"
  Internal = {"10.1"}
  Clients = {"c1"}
  Flows = {"f1", "f2"}
  ClientOf <- MCClientOf
  Requests <- MCRequests
  Names <- MCNames
  Ips <- MCIps
  V6 = {"::8"}
  Known <- MCKnown
  Answers <- MCAnswers
  Policy <- MCPolicy
  ExfilMode = "block"
  NoIp = "noip"
  NoName = "noname"
  NoFlow = "noflow"
SPECIFICATION Spec
INVARIANTS TypeOK VerdictAtMostOnce WaitingIsLive SentIsPermitted LoggedAddressIsReached
PROPERTIES RequestIsLogged ImplementsFirewall
CHECK_DEADLOCK FALSE
