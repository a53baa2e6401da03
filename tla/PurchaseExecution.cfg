SPECIFICATION MCSpec
CONSTANTS
  Clients = {k1}
  Users = {alice, bob}
  Quotes = {1, 2}
  Plans = {w1}
  Tasks = {t1, t2}
  None = None
  Nobody = Nobody
  MaxActive = 1
  MaxAttempts = 2
  MaxKeys = 2
  Answers <- EachAnswer

INVARIANTS TypeOK OneKeyPerQuote AttemptsBounded FailedMeansNotCharged ConsumedMeansBought ReplayTellsTheTruth
PROPERTIES SettledNeverResent KeepsPromise EveryConfirmationReturns
