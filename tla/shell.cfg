SPECIFICATION FairSpec
CONSTANTS
  EMERG_FAST_MAX = 5
  EMERG_FAIL_MAX = 5
  EMERG_NOEXEC_MAX = 2
INVARIANTS
  ShellPursued
PROPERTIES
  GivenUpIsFinal
  GivesUp
CHECK_DEADLOCK FALSE
