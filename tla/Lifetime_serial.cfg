SPECIFICATION FairSpec
CONSTANTS
  None = None
  Threads = {t1}
  Channels = {c1}
  Accepted = {a1}
  Listeners = {l1}
  Sftps = {s1}
  Files = {}
  Dirs = {d1}
  Failing = {c1}
INVARIANTS TypeOK OnlyUnownedStale OnlyUncheckedNulls ClosedReleasesAll
PROPERTIES KeepsPromise CloseEnds
\* The program may have given everything up.
CHECK_DEADLOCK FALSE
