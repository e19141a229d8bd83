CONSTANTS
  None = None
  Sent = Sent
  Edited = Edited
  a = a
  b = b
  Rules = {a, b}
  FirstRules <- MCFirst
  MaxClicks = 7
  MaxHasty = 3
  MaxOthers = 1
  MaxFails = 1
SPECIFICATION Spec
INVARIANTS DialogInOrder ActsOnRuleMeant ShowsWhatIsStored
PROPERTIES EditsKept RulesCatchUp
CHECK_DEADLOCK FALSE
