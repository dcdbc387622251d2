SPECIFICATION Spec
CONSTANTS
  TwoRoots = {"Base", "Left", "Flag", "Other", "Join"}
  Members = {"Root", "Node", "Tag", "Mark", "Leaf"}
  Fields = {"Item", "Part", "Box"}
  Templates = {"Key", "Value", "Probe", "Table", "Handle"}
  HalfWords = {"First", "Second", "Pair"}
  Class <- AllClasses
  Programs <- Everything
  Bases <- DeclaredBases
  Depth <- LevelsOfBases
  Template = {"Leaf", "Table", "Handle"}
  DependentBase <- NamedByParameter
  Size <- DeclaredSize
  OffsetZero <- HeadOfBox
  InstantiatedTargets = {"Leaf"}
  Untracked = {"anon"}
  Elements <- LaidOut
  WordUnits = 2
  CodeBits = 2
  Modules <- WithAndWithoutLeft
INVARIANTS
  TypeOK
  NoFalseAlarm
  NoMissedConfusion
  PhantomsShareCode
  TargetsCoded
  CodesTellApart
  CodesFit
CHECK_DEADLOCK FALSE
