CONSTANTS
  Covers <- MCCovers
  Literals <- MCLiterals
  Unprefixed <- MCUnprefixed
  Normalised <- MCNormalised
  NoPath <- MCNoPath
  Internal = {"10.1", "10.2", "127.1"}
  Localhost <- MCLocalhost
  Rules <- MCRules
  BoundaryRules <- MCBoundaryRules
  Connections <- MCConnections
  DnsQueries <- MCDnsQueries
  Ips <- MCIps
  Methods = {"GET", "PUT"}
  MaxRules = 2
  MaxBoundary = 2
  MaxChecked = 1
SPECIFICATION Spec
INVARIANTS RuleOrderIrrelevant DnsCoversConnections MethodMissExplains BoundaryIsRespected
PROPERTY AddedRuleOnlyWidens
CHECK_DEADLOCK FALSE
