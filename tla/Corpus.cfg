SPECIFICATION FairSpec
CONSTANTS
  Ingests = {r1, r2, r3}
  Others = {c1}
  a = a
  b = b
  r3 = r3
  Paths = {a, b}
  Sizes <- MCSizes
  Offers <- MCOffers
  BatchSize = 2
  MaxTries = 2
  PoolSize = 2
INVARIANTS TypeOK AnswersAreTrue OneDocumentPerPath
PROPERTIES IngestsAreAtomic RequestsEnd
CHECK_DEADLOCK FALSE
