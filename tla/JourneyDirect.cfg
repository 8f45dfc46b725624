\* The chain of notes.txt in the process of the agent: the field of host is lost.
\* Variant, with Journeys <- SomeJourneys, Overwrites = {"random"} and
\* PROPERTIES KeepsDocument for the invariant: a processor encodes a value for
\* a key it has decoded, and the value is lost.
CONSTANTS
  Key <- SomeKeys
  Value <- SomeValues
  Decode <- Decoder
  Absent = Absent
  Nil = Nil
  Refused = Refused
  Strings <- SomeStrings
  Journeys <- Handed
  EditKeys = {"_index", "_id", "random"}
  Values = {"id", "null", "wide"}
  Overwrites = {}
  MaxEdits = 2
SPECIFICATION Spec
INVARIANTS ContentsIsAll
CHECK_DEADLOCK FALSE
