CONSTANTS
  Covers <- MCCovers
  Literals <- MCLiterals
  Unprefixed <- MCUnprefixed
  Normalised <- MCNormalised
  NoPath <- MCNoPath
  Internal = {}
  Requests <- MCRequests
  GlobFree <- MCGlobFree
  MaxRules = 2
SPECIFICATION Spec
INVARIANT PastedRuleAdmitsPlain
INVARIANT PastesAreExact
CHECK_DEADLOCK FALSE
