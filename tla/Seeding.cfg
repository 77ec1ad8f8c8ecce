SPECIFICATION SeedSpec
CONSTANTS
  Seeders = {s1, s2}
  Hashes = {"orgas", "persons", "rollen", "rollen2", "kontexte"}
  Content <- MCContent
  Directory <- MCDirectory
  Corrected <- MCCorrected
  NoUuid = NoUuid
  MaxFailures = 1
INVARIANTS SeedTypeOK 
PROPERTY EveryFileTried
CHECK_DEADLOCK FALSE
