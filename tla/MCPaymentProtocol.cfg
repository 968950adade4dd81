CONSTANTS
  Wires <- MCWires
  NewRequests <- MCNewRequests
  MAIN <- MCMain
  NONE_PKI <- MCNone
  X509_SHA256 <- MCSha256
  X509_SHA1 <- MCSha1
  TxWire <- MCTxWire
  NewPayments <- MCNewPayments
  AckMemos <- MCAckMemos
  AckWires <- MCAckWires
  KeyIds <- MCKeyIds
  WalletKeys <- MCWalletKeys
  MerchantKeys <- MCMerchantKeys
  InvoiceArgs <- MCInvoiceArgs
  EncWires <- MCEncWires
  Statuses <- MCStatuses
  Nonces <- MCNonces
  StackBytes = {0}
  NULL = NULL
  NONE = NONE
  HANG = HANG
SPECIFICATION Spec
INVARIANT TypeOK UnknownKept AckEchoesPayment Delivered
PROPERTY RelayKeeps
