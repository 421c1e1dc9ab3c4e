\* Three events, and a pipe that one line fills: the plugin can be late, dead, or
\* blocked while the server is.
SPECIFICATION FairSpec
CONSTANTS
  MaxEvents = 3
  MaxPolls = 2
  PipeLines = 1
INVARIANTS
  PromptIsHeeded
  AnswersCountOnce
PROPERTIES
  ServerGoesOn
CHECK_DEADLOCK FALSE
