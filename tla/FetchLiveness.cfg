\* Two sources on two hosts with one permit each; the deadline need not pass.
CONSTANTS
  f1 = f1
  f2 = f2
  a = a
  b = b
  h1 = h1
  h2 = h2
  p = p
  Fetchers = {f1, f2}
  Origins = {a, b}
  Paths = {p}
  HostOf <- MCHostOf
  Secure = {}
  AllowedHosts <- MCAllowed
  PerHost = 1
  RedirectLimit = 1
  MaxRetry = 0
  RequestBudget = 1
  NoHost = NoHost
  Order <- MCOrder
  Enabled = {f1, f2}
  Entrypoint <- MCEntrypoint
  NoUrl = NoUrl
  Jobs = 2
  MaxStubs = 1
  MaxPlans = 1
SPECIFICATION EngineSpec
INVARIANTS OneReportEach OkIsComplete
PROPERTIES AllReported RulesAreStable
