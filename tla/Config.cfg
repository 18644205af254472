CONSTANTS
  Keys <- IniKeys
  MaxTokens = 6
  MaxSize = 22
  Files <- SmallFiles
  Edits <- EditedFiles
  Digits <- DigitValues
  DefConf <- Defaults
  SizeLimit = 3
  Ips = {"w", "x"}
  SyncTimes = {1}
  MaxEdits = 2
  MaxFile = 3
  MaxEntries = 2
SPECIFICATION Spec
INVARIANTS
  ConfigTypeOK
  LoadMeansExpansion
  MappingsFit
  EntryOnDisk
CHECK_DEADLOCK FALSE
