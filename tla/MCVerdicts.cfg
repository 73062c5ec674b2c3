SPECIFICATION Spec
CONSTANTS
  Extensions = {"101", "102"}
  Contacts = {"desk", "softphone"}
  Damage = FALSE
  MaxStray = 2
  Uuids = {"u1", "u2", "u3"}
  MaxRows = 2
  MaxFaults = 3
PROPERTIES
  OnlyReportsCount
  AuthorityIsProof
