\* One event through chains over the wire, and through some without it.
CONSTANTS
  Key <- SomeKeys
  Value <- SomeValues
  Decode <- Decoder
  Absent = Absent
  Nil = Nil
  Refused = Refused
  Strings <- SomeStrings
  Journeys <- SomeJourneys
  EditKeys = {"_index", "_id", "random"}
  Values = {"id", "null", "wide"}
  Overwrites = {}
  MaxEdits = 2
SPECIFICATION Spec
INVARIANTS GetIsSent
PROPERTIES KeepsDocument
CHECK_DEADLOCK FALSE
