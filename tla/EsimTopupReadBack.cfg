SPECIFICATION Spec
CONSTANTS
  Clients = {k1}
  Users = {alice, bob}
  Quotes = {q1}
  Items = {i1}
  Tasks = {t1, t2}
  None = None
  Nobody = Nobody
  MaxActive = 1
  Answers <- EachAnswer
SYMMETRY Symmetry
INVARIANTS ReadBackKnowsTheTopup
