SPECIFICATION Spec
CONSTANTS
  Threads = {t1, t2}
  Channels = {c1}
  Listeners = {l1}
  Sockets = {k1, k2}
  Session = session
  None = none
  MaxLost = 1
INVARIANTS TypeOK Counted SocketsHeld AllGivenBack
\* The program may have given everything up.
CHECK_DEADLOCK FALSE
