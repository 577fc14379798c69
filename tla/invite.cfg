SPECIFICATION Spec
CONSTANTS
  anna = anna
  ben = ben
  cleo = cleo
  nobody = nobody
  Names <- MCNames
  Accounts <- MCAccounts
  Prefixed <- MCPrefixed
  Files <- MCFiles
  WorkerCount = 2
  PageSize = 1
  MaxWorker = 3
  MaxChanges = 2
  MayLose = TRUE
INVARIANTS TypeOK NoneMissed NoRepeatedInvitation EveryoneSettled
CHECK_DEADLOCK FALSE
