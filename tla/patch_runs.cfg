SPECIFICATION SessionSpec
CONSTANTS
  Lines <- MCLines
  Context = 1
  Files <- MCFiles
  Scripts <- MCScripts
  StaleScripts <- MCStaleScripts
  Replacements <- MCReplacements
  InitialTexts <- MCInitialTexts
  MaxEdits = 2
  MaxCrashes = 1
  Checks = {2}
  MaxSteps = 2
INVARIANTS
  RoundTrip
  Rollbackable
  OkVouches
CHECK_DEADLOCK FALSE
