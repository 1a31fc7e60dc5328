SPECIFICATION FairSpec
CONSTANTS
  Threads = {t1, t2}
  Nobody = nobody
  MaxPrompts = 1
  MaxEvents = 1
  MaxIds = 1
INVARIANTS TypeOK AloneAnswersOwn OnlyNegativeBlocks AgentVerdict
PROPERTIES CallsEnd
\* A negative result of a callback can stop every thread.
CHECK_DEADLOCK FALSE
