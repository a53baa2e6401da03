SPECIFICATION MCSpec
CONSTANTS
  Clients = {k1}
  Users = {alice}
  Tasks = {t1, t2}
  None = None
  Nobody = Nobody
  MaxTokens = 3
INVARIANTS RefreshTokenSentOnce OneRotationAtATime RotatedOnlyWhenNeeded
PROPERTIES EveryCallReturns
