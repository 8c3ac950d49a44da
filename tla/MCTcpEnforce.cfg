CONSTANTS
  Covers <- MCCovers
  Literals <- MCLiterals
  Unprefixed <- MCUnprefixed
  Normalised <- MCNormalised
  NoPath = "nopath"
  Internal = {"10.1"}
  Conns = {"c1", "c2"}
  Connections <- MCConnections
  Names <- MCNames
  Ips <- MCIps
  Resolved <- MCResolved
  Policy <- MCPolicy
  Mode = "enforce"
  NoName = "none"
  MaxMessages = 2
SPECIFICATION Spec
INVARIANTS TypeOK PassthroughIsBound PassthroughVerdictIsStable
CHECK_DEADLOCK FALSE
