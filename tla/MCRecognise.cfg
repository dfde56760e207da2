CONSTANTS
  Width <- MCWidth
  Roles <- MCRoles
  Number <- MCNumber
  Stems = {"phone", "snils", "licence", "military", "abroad", "certificate"}
  Inputs <- MCInputs
  Strategies <- MCStrategies
  Priority <- MCPriority
  OccupancyMin = 48
  DefaultFloor = 70
  AnchorWindow = 72
  ShortAnchorWindow = 56
  PhoneWindow = 48
  LocalStop <- MCLocalStop
  DomainStop <- MCDomainStop
  DocWindow = 80
  ShapeSlack = 32
  NoRule = norule
  Now = 2026
  DateWindow = 60
  LabelWindow = 96
  VerbWindow = 160
  NegativeWindow = 40
  LinkWindow = 96
  BirthMarks <- MCBirthMarks
  BirthSuffixes <- MCBirthSuffixes
  Locals <- MCLocals
SPECIFICATION Spec
INVARIANTS SameInAList CardTouched WindowsReach CalendarDecides FakesRecognised
CHECK_DEADLOCK FALSE
