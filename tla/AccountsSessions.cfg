SPECIFICATION Spec
CONSTANTS
  Users = {u1}
  Browsers = {b1}
  Tasks = {k1, k2}
  Roles = {"viewer"}
  Nobody = Nobody
  Free = Free
  IdleFor = 2
  AbsoluteFor = 3
  LoginFor = 1
  MaxAttempts = 1
  Window = 2
  LockFor = 2
  MaxTime = 4
  MaxTokens = 2
  MaxResets = 1
  WithBackup = TRUE
SYMMETRY Symmetry
INVARIANTS
  TypeOK
  PasswordsEndSessions
  AttemptsAreBounded
PROPERTIES
  EndedForGood
CHECK_DEADLOCK FALSE
