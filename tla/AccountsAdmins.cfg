SPECIFICATION Spec
CONSTANTS
  Users = {u1, u2}
  Browsers = {b1}
  Tasks = {k1, k2}
  Roles = {"admin"}
  Nobody = Nobody
  Free = Free
  IdleFor = 1
  AbsoluteFor = 2
  LoginFor = 1
  MaxAttempts = 2
  Window = 2
  LockFor = 2
  MaxTime = 1
  MaxTokens = 0
  MaxResets = 0
  WithBackup = FALSE
SYMMETRY Symmetry
INVARIANTS
  AnAdminRemains
CHECK_DEADLOCK FALSE
