SPECIFICATION ReadsSpec
CONSTANTS
  Absent = Absent
  Keys = {k1}
  Accounts = {alice, bob}
  Calls = {t1, t2}
  MaxEsims = 2
  Countries <- EachCountry
  Regions <- EachRegion
  Plans <- EachPlan
  Criteria <- EachCriterion
  MaxListed = 3
  DefaultLimit = 1
  MaxLimit = 2
  Limits = {Absent, 0, 3}
  People = {pat, pam}
  Apps = {a1, a2}
  Connections = {h1, h2}
  MaxRestarts = 1
  MaxAttempts = 3
  Responses <- EachAnswer
SYMMETRY Symmetry
INVARIANTS NumberMeansWhatWasShown ToolsAgreeOnCountry ToolsAgreeOnRegion PlansAnswerIsTrue NobodyElsesSession ReturningUserIsKnown RequestsBounded GuardIsExact
