CONSTANTS
  None = None
  Own = Own
  Tokens = {t1, t2, t3, t4}
  MaxQueue = 3
SPECIFICATION Spec
INVARIANTS TypeOK NothingPlaysClosed SubtitlesOfCurrent
PROPERTIES KeepsPromise ChoiceSettles
