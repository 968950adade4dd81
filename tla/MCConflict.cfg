CONSTANTS
  TxIds <- ConflictIds
  Ins <- MCIns
  Outs <- MCOuts
  LockTime <- MCLockTime
  Oversize = {}
  Heights = {1, 2}
  Timestamps = {0, 1}
  NoAddress <- MCNoAddress
  TX_UNCONFIRMED = 9
  UINT32_MAX = 3
  TX_MIN_OUTPUT_AMOUNT = 2
  TX_MAX_LOCK_HEIGHT = 5
  SEQUENCE_GAP_LIMIT_EXTERNAL = 2
  SEQUENCE_GAP_LIMIT_INTERNAL = 2
SPECIFICATION Spec
INVARIANT TypeOK UtxoSound Accounting ConflictFree UnconfirmedTail
