CONSTANTS
  i1 = i1
  i2 = i2
  s1 = s1
  k1 = k1
  NoId = NoId
  NoKey = NoKey
  Ids = {i1}
  Services = {s1}
  Keys = {k1}
  ServiceOf <- OneService
  KeyOf <- SharedKey
  HashOf <- SameHash
  Agents = {a1}
  MaxLate = 2
  MaxRev = 3

SPECIFICATION FairSpec
PROPERTY NothingIsLeft
CHECK_DEADLOCK FALSE
