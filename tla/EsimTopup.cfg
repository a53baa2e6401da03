SPECIFICATION Spec
CONSTANTS
  Clients = {k1}
  Users = {alice}
  Quotes = {q1, q2}
  Items = {i1}
  Tasks = {t1, t2}
  None = None
  Nobody = Nobody
  MaxActive = 1
  Answers <- EachAnswer
SYMMETRY Symmetry
INVARIANTS TypeOK OneRequestPerQuote RecordTellsTheTruth AnswerTellsTheTruth NeverSentOnOldTerms
