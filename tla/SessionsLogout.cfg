SPECIFICATION Spec
CONSTANTS
  Clients = {k1}
  Users = {alice}
  Tasks = {t1, t2}
  None = None
  Nobody = Nobody
  MaxTokens = 2
INVARIANTS SignedOutStaysOut
