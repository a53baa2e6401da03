SPECIFICATION Spec
CONSTANTS
  Clients = {k1}
  Users = {alice}
  Quotes = {q1}
  Plans = {w1}
  Tasks = {t1}
  None = None
  Nobody = Nobody
  MaxActive = 1
  MaxAttempts = 2
  MaxKeys = 2
  Answers <- FewAnswers
INVARIANTS GateNeverRejectsAPurchase
