SPECIFICATION Spec
CHECK_DEADLOCK FALSE
CONSTANTS
  a = a
  b = b
  blank = blank
  NoText = blank
  EncryptedSuffix <- AgeSuffix
  Words <- AllWords
  InitialSources <- SmallTrees
  Sorted <- SortedTargets
  Modifiers <- AllModifiers
  MaxCalls = 2
INVARIANTS TypeOK NamesTell ContentsSurvive
PROPERTIES TakesModifier
