CONSTANTS
  e1 = e1
  e2 = e2
  v1 = v1
  v2 = v2
  casey = casey
  sam = sam
  vera = vera
  nobody = nobody
  Evidence = {e1, e2}
  Versions = {v1, v2}
  RestoreIds = {restore1}
  Operators = {casey, sam, vera, nobody}
  Named = {casey, sam, vera}
  RolesOf <- MCRolesOf
  Ledgers = {withdrawal, deletion}
  StoreRequests <- MCStoreRequests
  Backups <- MCBackups
  Retention = 1
  HoldLimit = 2
  MaxTime = 1
  MaxAudits = 4
  MaxNesting = 2
  None = None
  Tombstone = Tombstone
SPECIFICATION Spec
INVARIANTS AuditTrailIsTrue
PROPERTIES Refined QuarantineIsKept CompletionIsWhole
CHECK_DEADLOCK FALSE
