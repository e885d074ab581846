SPECIFICATION Spec
CONSTANTS
  t1 = t1
  t2 = t2
  Threads = {t1, t2}
  BF_PI = BF_PI
  BF_PIPE = BF_PIPE
  Modules = {BF_PI, BF_PIPE}
  Longer <- LongerNames
  Settings <- SomeSettings
  SyslogLevels = {2}
  TraceLevels = {0, 5}
  UserRules <- UsersFile
  NameLen = 40
  Garbage = Garbage
  Absent = Absent
  Null = Null
SYMMETRY Symmetry
INVARIANTS
  TypeOK
  
  UserRulesSurvive
PROPERTIES
  SoloCallTakesEffect
