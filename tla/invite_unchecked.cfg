SPECIFICATION Spec
CONSTANTS
  anna = anna
  ben = ben
  cleo = cleo
  nobody = nobody
  Names <- MCNames
  Accounts <- MCAccounts
  Prefixed <- MCPrefixed
  Files <- MCTwo
  WorkerCount = 2
  PageSize = 1
  MaxWorker = 1
  MaxChanges = 0
  MayLose = FALSE
INVARIANTS InvitedExist
CHECK_DEADLOCK FALSE
