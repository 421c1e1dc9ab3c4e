\* However the server is stopped, what is saved, who is through when, and does
\* the shutdown end?
SPECIFICATION ThreadsSpec
INVARIANTS
  NothingUnsaved
  NetworkIsThrough
PROPERTIES
  ShutdownEnds
CHECK_DEADLOCK FALSE
