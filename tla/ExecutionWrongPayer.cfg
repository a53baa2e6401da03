SPECIFICATION Spec
CONSTANTS
  Clients = {k1}
  Users = {alice, bob}
  Quotes = {q1}
  Plans = {w1}
  Tasks = {t1, t2}
  None = None
  Nobody = Nobody
  MaxActive = 1
  MaxAttempts = 2
  MaxKeys = 2
  Answers <- FewAnswers
INVARIANTS PaidByItsOwner
