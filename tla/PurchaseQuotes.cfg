SPECIFICATION Spec
CONSTANTS
  Clients = {k1}
  Users = {alice, bob}
  Quotes = {q1, q2, q3}
  Plans = {w1, c1}
  WalletPlans = {w1}
  Tasks = {t1, t2}
  None = None
  MaxActive = 1
SYMMETRY Symmetry
INVARIANTS OneUsableQuotePerChoice UsableWithinLimit
PROPERTIES OnlyOwnerLosesQuote RePrepareNeverRefused
