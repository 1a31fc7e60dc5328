SPECIFICATION Spec
CONSTANTS
  Threads = {t1, t2}
  Nobody = nobody
  MaxPrompts = 1
  MaxEvents = 1
  MaxIds = 1
INVARIANT AnswersOwn
\* Stopping is no matter here: the authentications are.
CHECK_DEADLOCK FALSE
