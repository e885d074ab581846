SPECIFICATION Spec
CONSTANTS
  t1 = t1
  Threads = {t1}
  BF_PI = BF_PI
  BF_PIPE = BF_PIPE
  Modules = {BF_PI, BF_PIPE}
  Longer <- LongerNames
  Settings <- SomeSettings
  SyslogLevels = {}
  TraceLevels = {0}
  UserRules <- UsersFile
  NameLen = 40
  Garbage = Garbage
  Absent = Absent
  Null = Null
PROPERTIES
  OnlyItsModule
