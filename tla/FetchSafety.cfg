\* Two sources with different allowlists, two hosts, one permit each.
CONSTANTS
  f1 = f1
  f2 = f2
  a = a
  b = b
  c = c
  h1 = h1
  h2 = h2
  p = p
  q = q
  Fetchers = {f1, f2}
  Origins = {a, b, c}
  Paths = {p}
  HostOf <- MCHostOf
  Secure = {c}
  AllowedHosts <- MCAllowed
  PerHost = 1
  RedirectLimit = 1
  MaxRetry = 1
  RequestBudget = 2
  NoHost = NoHost
SPECIFICATION FetchSpec
INVARIANTS HostBound NoHoldAndWait SentWithinBudget RulesKnownBeforeContent RulesFromAllowedHosts
PROPERTIES NoRequestAfterDeadline
