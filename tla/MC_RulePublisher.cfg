SPECIFICATION PublisherSpec
CONSTANTS
  zone = zone
  limit = limit
  wide = wide
  narrow = narrow
  exceptions = exceptions
  rule = rule
  kql = kql
  absent = absent
  add = add
  tighten = tighten
  draft = draft
  Absent = absent
  Lists <- MCLists
  Texts = {kql}
  Requests <- MCRequests
  Change <- MCChange
  Tries = 2
INVARIANTS
  PullRequestIsOneChange
CHECK_DEADLOCK FALSE
