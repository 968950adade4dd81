CONSTANTS
  TX_FEE_PER_KB = 1000
  MIN_FEE_PER_KB = 1000
  DEFAULT_FEE_PER_KB = 5000
  TX_MIN_OUTPUT_AMOUNT = 600
  TX_INPUT_SIZE = 148
  TX_OUTPUT_SIZE = 34
  TX_MAX_SIZE = 500
  WORD = 16777216
  MAX_DEPTH = 4
  UtxoSeqs <- MCUtxoSeqs
  FeeRates = {1000, 2000, 5000}
  OutputSeqs <- MCOutputSeqs
  Amounts <- MCAmounts
SPECIFICATION Spec
INVARIANT NoOverpay
