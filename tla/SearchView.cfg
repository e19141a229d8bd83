CONSTANTS
  None = None
  Texts = {"t"}
  Categories = {"c"}
  Channels = {"k"}
  LegacyLinks <- MCLegacyLinks
  MaxPages = 2
  MaxEvents = 5
SPECIFICATION Spec
INVARIANTS SearchInOrder
PROPERTIES TypingIsAnswered
CHECK_DEADLOCK FALSE
