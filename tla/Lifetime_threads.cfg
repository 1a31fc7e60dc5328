SPECIFICATION Spec
CONSTANTS
  None = None
  Threads = {t1, t2}
  Channels = {c1}
  Accepted = {}
  Listeners = {l1}
  Sftps = {s1}
  Files = {f1, f2}
  Dirs = {}
  Failing = {}
SYMMETRY Symmetry
CONSTRAINT FewCreated
INVARIANTS FreedOnce RegisteredOpen FilesDrained NothingKept FreedAfterUse
\* The program may have given everything up.
CHECK_DEADLOCK FALSE
