\* One source, one origin with two paths: a redirect within the origin.
CONSTANTS
  f1 = f1
  f2 = f2
  a = a
  b = b
  c = c
  h1 = h1
  h2 = h2
  p = p
  q = q
  Fetchers = {f1}
  Origins = {a}
  Paths = {p, q}
  HostOf <- MCOneHost
  Secure = {a}
  AllowedHosts <- MCOneAllowed
  PerHost = 1
  RedirectLimit = 1
  MaxRetry = 0
  RequestBudget = 2
  NoHost = NoHost
SPECIFICATION FetchSpec
INVARIANT RobotsRespected
