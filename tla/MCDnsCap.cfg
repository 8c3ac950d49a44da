CONSTANTS
  Covers <- MCCovers
  Literals <- MCLiterals
  Unprefixed <- MCUnprefixed
  Normalised <- MCNormalised
  NoPath = "none"
  Internal = {"10.1"}
  Queries = {"a1", "x1", "b1"}
  Shape <- CapShape
  NameOf <- CapNameOf
  TypeOf <- CapTypeOf
  Names <- MCNames
  Ips <- MCIps
  Responses <- CapResponses
  Policy <- MCPolicy
  SuppressAaaa = TRUE
  MaxWorkers = 2
  MaxEntries = 1
  MaxNames = 2
SPECIFICATION Spec
INVARIANTS TypeOK MapIsBounded
CHECK_DEADLOCK FALSE
