CONSTANTS
  w1 = w1
  w2 = w2
  blank = blank
  upper = upper
  lower = lower
  idKey = idKey
  blankKey = blankKey
  ivan = ivan
  petr = petr
  note = note
  dull = dull
  twice = twice
  stars = stars
  label = label
  crm = crm
  other = other
  nobody = nobody
  nokey = nokey
  key = key
  BlankId = blank
  StoreKey <- MCStoreKey
  Keys = {idKey, blankKey}
  Texts = {ivan, petr, note, dull, stars, label, twice}
  EmptyText = empty
  Unreadable = unreadable
  StarMasked = {stars, twice}
  LabelMasked = {label}
  NoSecret = nokey
  NoHeader = nobody
  Rules = {"stars", "label"}
  Extras = {"exact", "wide"}
  Rewrite <- MCRewrite
  Absent = absent
  PayloadIds = {blank, upper, lower}
  Headers = {crm, other, nobody}
  Secrets = {nokey, key}
  Workers = {w1, w2}
  Configs <- AllConfigs
  Traffic <- Mixed
  TooLong = {petr}
  MaxCalls = 3
  MaxFaults = 1
  MaxChanges = 1
  MaxLosses = 1
  Header = crm
  Elements = {ivan, petr, note, dull}
  Overlap = TRUE
  MaxTries = 3
  MaxElements = 2
SPECIFICATION MCSpec
SYMMETRY WorkerSymmetry
INVARIANTS TypeOK RoundTrip NeverMaskOfMask RetriesAgree DisabledNeverServed AnswersAreRemembered LeakOnlyAfterFault
CHECK_DEADLOCK FALSE
