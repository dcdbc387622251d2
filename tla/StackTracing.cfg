SPECIFICATION ProgramSpec
CONSTANTS
  main = main
  scopes = scopes
  twice = twice
  plain = plain
  some = some
  away = away
  raw = raw
  m = m
  a = a
  b = b
  t = t
  p = p
  s = s
  g = g
  r = r
  first = first
  second = second
  pairs = pairs
  extern = extern
  codesA = codesA
  codesB = codesB
  NULL = NULL
  Functions = {main, scopes, twice, plain, some, away, raw}
  Code <- MCCode
  Variables <- MCVariables
  Slot <- MCSlot
  Width <- MCWidth
  Elements <- MCElements
  Room <- MCRoom
  Limit = 5
  Modules <- MCModules
  Mentions <- MCMentions
  Defines <- MCDefines
  Initialiser <- MCInitialiser
  ModuleOf <- MCModuleOf
  GlobalSlot <- MCGlobalSlot
  Length <- MCLength
  TypeWidth <- MCTypeWidth
  GlobalElements <- MCGlobalElements
  GlobalWords = 5
INVARIANTS
  ProgramTypeOK
  LiveDescribed
  NothingElse
  GlobalsDescribed
CHECK_DEADLOCK FALSE
