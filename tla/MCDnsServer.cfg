CONSTANTS
  Covers <- MCCovers
  Literals <- MCLiterals
  Unprefixed <- MCUnprefixed
  Normalised <- MCNormalised
  NoPath = "none"
  Internal = {"10.1"}
  Queries = {"a1", "x1", "a6"}
  Shape <- MCShape
  NameOf <- MCNameOf
  TypeOf <- MCTypeOf
  Names <- MCNames
  Ips <- MCIps
  Responses <- MCResponses
  Policy <- MCPolicy
  SuppressAaaa = TRUE
  MaxWorkers = 2
  MaxEntries = 3
  MaxNames = 2
SPECIFICATION Spec
INVARIANTS RefusedIsNeverLearned SettledMapIsOnDisk CachedMapIsCurrent
PROPERTIES QueryIsLogged LearnedIsPublished
CHECK_DEADLOCK FALSE
