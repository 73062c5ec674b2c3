SPECIFICATION Spec
CONSTANTS
  Spelling <- mcSpelling
  Given <- mcGiven
  Agents = {"ann@acme"}
  Queues = {"help@acme"}
  Contacts <- mcContacts
  Columns <- mcColumns
  Uuids = {"u1", "u2"}
  Handles = {"u1", "ann b"}
  Actions = {"start", "pause"}
  Destinations = {"1901", "-both", "1901 XML"}
  Causes = {"NORMAL_CLEARING", "normal clearing"}
  Paths = {"/rec/1.wav", "/rec/../1.wav"}
  Raw <- mcRaw
  MaxCalls = 2
INVARIANTS
  TypeOK
  DeleteLeavesNoOrphan
  ReadsExact
  AnswersAreTrue
  NamedLegMoves
PROPERTY
  ReadOnlyNeverWrites
