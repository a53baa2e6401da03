SPECIFICATION Spec
CONSTANTS
  Clients = {k1}
  Users = {alice, bob}
  Quotes = {q1}
  Plans = {w1, c1}
  CardPlans = {c1}
  Pages = {p1, p2}
  Tasks = {t1, t2}
  None = None
  Nobody = Nobody
  MaxActive = 1
  MaxAttempts = 3
  MaxChecks = 2
  MaxKeys = 2
  Answers <- EachAnswer
SYMMETRY Symmetry
INVARIANTS OneLinkPerQuote CardReadsBounded ReplayedStatusIsTrue ConsumedMeansPaid
PROPERTIES RecordNeverRegresses KeepsCardPromise
