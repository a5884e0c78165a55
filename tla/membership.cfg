CONSTANTS
  Users = {u1}
  Families = {f1, f2}
  Requests = {r1, r2}
  TTL = 2
  NoUser = NoUser
  NoFamily = NoFamily
SPECIFICATION FairSpec
INVARIANTS TypeOK OneFamilyUnlessRaced OwnedUntilRemoved CacheFollowsTable
PROPERTY EventuallyRefused
