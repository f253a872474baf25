CONSTANTS
  i1 = i1
  i2 = i2
  s1 = s1
  k1 = k1
  NoId = NoId
  NoKey = NoKey
  Ids = {i1, i2}
  Services = {s1}
  Keys = {k1}
  ServiceOf <- OneService
  KeyOf <- SharedKey
  HashOf <- SameHash
  Agents = {a1}
  MaxLate = 1
  MaxRev = 2
SYMMETRY SwapIds
SPECIFICATION Spec
INVARIANT TypeOK StandingIsBound AnswersAgree LiveHoldsActive
PROPERTY EndIsFinal ImplementsCollections
CHECK_DEADLOCK FALSE
