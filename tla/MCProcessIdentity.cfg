CONSTANTS
  w1 = w1
  w2 = w2
  blank = blank
  upper = upper
  lower = lower
  idKey = idKey
  blankKey = blankKey
  ivan = ivan
  petr = petr
  note = note
  dull = dull
  twice = twice
  stars = stars
  label = label
  crm = crm
  other = other
  nobody = nobody
  nokey = nokey
  key = key
  BlankId = blank
  StoreKey <- MCStoreKey
  Keys = {idKey, blankKey}
  Texts = {ivan, petr, note, dull, stars, label, twice}
  EmptyText = empty
  Unreadable = unreadable
  StarMasked = {stars, twice}
  LabelMasked = {label}
  NoSecret = nokey
  NoHeader = nobody
  Rules = {"stars", "label"}
  Extras = {"exact", "wide"}
  Rewrite <- MCRewrite
  Absent = absent
  PayloadIds = {blank, upper, lower}
  Headers = {crm, other, nobody}
  Secrets = {nokey, key}
  Workers = {w1, w2}
  Configs <- PlainOnly
  Traffic <- Mixed
  TooLong = {}
  MaxCalls = 2
  MaxFaults = 1
  MaxChanges = 0
  MaxLosses = 0
  Header = crm
  Elements = {}
  Overlap = TRUE
  MaxTries = 0
  MaxElements = 0
SPECIFICATION MCSpec
PROPERTY IdentityNeverOverwrites
CHECK_DEADLOCK FALSE
