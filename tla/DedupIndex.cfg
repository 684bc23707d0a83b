\* Passes over up to four events out of all that the fields below can make.
CONSTANTS
  Evidence <- MCEvidence
  PageOf <- MCPageOf
  NativeOf <- MCNativeOf
  DomainOf <- MCDomainOf
  Inputs <- MCInputs
  Url <- MCUrl
  CanonicalUrl <- MCCanonicalUrl
  Title <- MCTitle
  Normalized <- MCNormalized
  MaxEvents = 4
SPECIFICATION DedupSpec
INVARIANTS IndexExact AliasesResolve UniqueIds
PROPERTIES MatchesReference
CHECK_DEADLOCK FALSE
