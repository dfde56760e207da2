CONSTANTS
  Workers = {w1, w2, w3}
  MaxChanges = 3
  Operators = {o1, o2}
  o1 = o1
  o2 = o2
  Credential <- MCCredential
  EnvToken = ""
  Edits <- MCEdits
  Text <- MCText
  Lower <- MCLower
  Blank = ""
  Redacted = "***"
  Unset = unset
  Nobody = nobody
  NoFile = nofile
  KnownTypes = {"FIO", "PIN"}
  Initials = {"FIO"}
  NameShaped = {"CONTRACT"}
  Compiles = {"n"}
  Strategies = {"stars_keep2", "initials", "token"}
SPECIFICATION MCFairSpec
INVARIANTS WholePublicationAgrees SecretsSurvive RestartFindsPersisted
PROPERTY RequestsCatchUp
CHECK_DEADLOCK FALSE
