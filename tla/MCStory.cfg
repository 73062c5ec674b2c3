SPECIFICATION Spec
CONSTANTS
  Agents = {"ann", "bob"}
  MaxTime = 4
  Text <- mcText
  Stamp <- mcStamp
INVARIANTS
  LiveAndDurableAgree
  IdentitiesKeepTheirRoles
  RecordTellsOutcome
