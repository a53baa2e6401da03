SPECIFICATION Spec
CONSTANTS
  Clients = {k1}
  Users = {alice}
  Quotes = {q1, q2}
  Items = {1}
  Pages = {p1, p2}
  Tasks = {t1, t2}
  None = None
  Nobody = Nobody
  MaxActive = 1
  MaxAttempts = 2
  MaxChecks = 1
  Limits <- EachLimit
  Answers <- EachAnswer
SYMMETRY Symmetry
INVARIANTS OneTopupLinkPerQuote SettledMeansSettled PageReadsBounded
PROPERTIES TopupRecordNeverRegresses
