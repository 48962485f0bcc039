SPECIFICATION Spec
CHECK_DEADLOCK FALSE
CONSTANTS
  Parts = {"targets"}
  Order <- MCOrder
  Parent <- MCParent
  Home = "home"
  Contents = {"", "1", "2"}
  Worlds <- MCWorlds
  TargetCommands <- MCTargetCommands
  Texts = {"1", "2"}
  Sessions <- MCSessions
  MaxSaves = 2
  MaxOutside = 1
  Changes = {"a", "c"}
  Inside = {"a"}
  Formats = {"toml", "yaml"}
  Settings = {"on", "off"}
  Templates <- MCTemplates
  ConfigCommands <- MCConfigCommands
  MaxEdits = 1
  MaxRuns = 3
  MaxStops = 1
  MaxFaults = 1
INVARIANT ImportStaysBelow
