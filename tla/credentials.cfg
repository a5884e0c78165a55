CONSTANTS
  a1 = a1
  a2 = a2
  p1 = p1
  b1 = b1
  u1 = u1
  Requests = {r1, r2}
  Syncs = {cron}
  Background = background
  Accounts = {a1, a2}
  Ids = {c1, c2, c3}
  Tokens = {t1, t2, t3}
  Skus = {p1, b1, u1}
  Offers <- MCOffers
  Bills = {b1}
  Unpriced = {u1}
  MaxFaults = 1
  NoAccount = NoAccount
  NoId = NoId
  NoToken = NoToken
SPECIFICATION FairSpec
INVARIANTS OneCredential OnlyLatestTokenOpens CatalogueOfAccount
PROPERTY EventuallyOffered
CHECK_DEADLOCK FALSE
