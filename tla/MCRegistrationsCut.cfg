SPECIFICATION Spec
CONSTANTS
  Extensions = {"101", "102"}
  Contacts = {"desk"}
  Damage = TRUE
  MaxStray = 1
PROPERTY
  AuthorityIsProof
