CONSTANTS
  Plain = {t1}
  Reports = {r1}
  Kinds = {"checkpoint"}
  Orders = {}
  Ready = Ready
  None = None
  MaxSessions = 1
  MaxEvents = 3
SPECIFICATION Spec
PROPERTY
  EndedTurnStaysEnded
CHECK_DEADLOCK FALSE
