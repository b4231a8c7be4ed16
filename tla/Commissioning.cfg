CONSTANTS
  Plain = {t1}
  Reports = {r1, r2}
  Kinds = {"blocking", "blocker", "acceptance"}
  Orders <- Continue
  Ready = Ready
  None = None
  MaxSessions = 2
  MaxEvents = 4
SYMMETRY Symmetry
SPECIFICATION Spec
INVARIANTS
  TypeOK
  OnePromptPerTurn
  ActiveTurnWasPrompted
  OneReportPerTurn
  QuestionReachesCeo
  AnswerResumes
  ReadyBeforeDelivery
  OneWorkspace
PROPERTY KeepsTurnPromise
CHECK_DEADLOCK FALSE
