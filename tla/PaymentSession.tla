--------------------------- MODULE PaymentSession ----------------------------
(***************************************************************************)
(* The wallet's side of a payment, over the messages of PaymentProtocol    *)
(* and EncryptedMessage: a request built with LWPaymentProtocolRequestNew, *)
(* or parsed from a merchant's bytes, or serialized and parsed again, as   *)
(* when it is stored and loaded or handed on; then the Payment it answers  *)
(* the request with, and the PaymentACK that comes back.  Under BIP75 the  *)
(* wallet first sends an InvoiceRequest with its key in a ProtocolMessage, *)
(* and request, payment and ACK travel in EncryptedProtocolMessages, each  *)
(* serialized by its sender and parsed, verified and decrypted by its      *)
(* receiver.  Each parse draws the value of the uninitialized stack bytes  *)
(* it may insert.  A hung parse ends the thread that made it.  The caller  *)
(* frees what it holds before it starts another exchange (Discard); a      *)
(* parse does not read what is held.                                       *)
(***************************************************************************)
EXTENDS EncryptedMessage

CONSTANTS
  Wires,        \* serialized requests a merchant sends
  NewRequests,  \* arguments of LWPaymentProtocolRequestNew and DetailsNew
  NewPayments,  \* arguments of LWPaymentProtocolPaymentNew
  AckMemos,     \* memos a merchant puts in its PaymentACK
  AckWires,     \* serialized PaymentACKs that are not the echo of a Payment
  WalletKeys,   \* the LWKeys a wallet may hold for a BIP75 exchange
  MerchantKeys, \* and those a merchant may hold
  InvoiceArgs,  \* arguments of LWPaymentProtocolInvoiceRequestNew and MessageNew
  EncWires,     \* serialized requests a merchant sends encrypted
  Statuses,     \* status codes and messages of an EncryptedProtocolMessage
  Nonces        \* nonces of an EncryptedProtocolMessage

VARIABLES
  req,      \* the request held, NONE, or HANG
  src,      \* the bytes it was parsed from, NULL when it was built here
  payment,  \* the Payment the wallet built and sent, NULL before
  ack,      \* the PaymentACK parsed, NONE, or HANG
  ackSrc,   \* the bytes it was parsed from, NULL before
  keys,     \* BIP75: the LWKeys of wallet and merchant, and the merchant's
            \* public key as the wallet learned it; NULL in a BIP70 exchange
  invoice,  \* the InvoiceRequest as the merchant parsed it, or NONE
  delivered \* BIP75: what each message carried, and what its receiver got

vars == <<req, src, payment, ack, ackSrc, keys, invoice, delivered>>

bip75 == <<keys, invoice, delivered>>

Init ==
  /\ req = NONE
  /\ src = NULL
  /\ payment = NULL
  /\ ack = NONE
  /\ ackSrc = NULL
  /\ keys = NULL
  /\ invoice = NONE
  /\ delivered = {}

Create ==
  /\ req = NONE
  /\ keys = NULL
  /\ \E a \in NewRequests :
       req' = RequestNew(a.version, a.pkiType, a.pkiData,
                         DetailsNew(a.network, a.outputs, a.time, a.expires, a.memo,
                                    a.paymentURL, a.merchantData),
                         a.signature)
  /\ src' = NULL
  /\ UNCHANGED <<payment, ack, ackSrc>>
  /\ UNCHANGED bip75

Receive ==
  /\ req = NONE
  /\ keys = NULL
  /\ \E b \in Wires, g \in StackBytes :
       /\ req' = RequestParse(b, g)
       /\ src' = b
  /\ UNCHANGED <<payment, ack, ackSrc>>
  /\ UNCHANGED bip75

Relay ==
  /\ req \notin {NONE, HANG}
  /\ payment = NULL
  /\ \E g \in StackBytes :
       \E b \in {RequestSerialize(req)} :
         /\ req' = RequestParse(b, g)
         /\ src' = b
  /\ UNCHANGED <<payment, ack, ackSrc>>
  /\ UNCHANGED bip75

\* the payment for the request held, with the request's merchant data as
\* BIP70 asks of the caller
Pay ==
  /\ req \notin {NONE, HANG}
  /\ payment = NULL
  /\ \E p \in NewPayments :
       payment' = PaymentNew(req.details.merchantData, p.transactions, p.refundTo, p.memo)
  /\ UNCHANGED <<req, src, ack, ackSrc>>
  /\ UNCHANGED bip75

\* what a merchant using this code answers to the serialized payment: the
\* payment it parsed, in a PaymentACK with its memo
Echoes(p) ==
  {ACKSerialize(ACKNew(PaymentParse(PaymentSerialize(p), Len(PaymentSerialize(p)), g), m)) :
     g \in StackBytes, m \in AckMemos}

\* an ACK arrives: the merchant's answer, or any other ACK on the channel
ReceiveAck ==
  /\ keys = NULL
  /\ payment # NULL
  /\ ack = NONE
  /\ \E b \in Echoes(payment) \cup AckWires, g \in StackBytes :
       /\ ack' = ACKParse(b, g)
       /\ ackSrc' = b
  /\ UNCHANGED <<req, src, payment>>
  /\ UNCHANGED bip75

\* BIP75: an EncryptedProtocolMessage its sender builds and serializes, as
\* the receiver parses it
Envelope(msgType, message, receiverKey, senderKey, n, s, g) ==
  EncryptedMessageParse(EncryptedMessageSerialize(
    EncryptedMessageNew(msgType, message, receiverKey, senderKey, n, NULL, s.code, s.msg)), g)

\* what the receiver holding key gets of a parsed envelope: the plaintext
\* when its signature verifies with the sender's key it carries, else 0 bytes
Opened(m, key) ==
  IF m # NONE /\ EncryptedMessageVerify(m, m.senderPubKey)
  THEN EncryptedMessageDecrypt(m, key) ELSE <<>>

\* the wallet sends an InvoiceRequest with its public key in a
\* ProtocolMessage; the merchant parses both and so learns the key.  Each
\* side holds one LWKey for the exchange
SendInvoice ==
  /\ req = NONE
  /\ keys = NULL
  /\ \E wk \in WalletKeys, mk \in MerchantKeys, a \in InvoiceArgs, g \in StackBytes :
       \E ir \in {InvoiceRequestSerialize(InvoiceRequestNew(wk, a.amount, a.pkiType, NULL,
                                                            a.memo, a.notifyUrl, NULL))} :
         \E m \in {MessageParse(MessageSerialize(
                     MessageNew(MSG_INVOICE_REQUEST, ir, a.code, a.msg, NULL)), g)} :
           /\ keys' = [wallet |-> wk, merchant |-> mk, merchantPub |-> NULL]
           /\ invoice' = IF m = NONE THEN NONE ELSE InvoiceRequestParse(m.message, g)
           /\ delivered' = {[sent |-> ir, got |-> IF m = NONE THEN <<>> ELSE m.message]}
  /\ UNCHANGED <<req, src, payment, ack, ackSrc>>

\* the merchant's request b, encrypted to the key of the InvoiceRequest;
\* the wallet verifies it with the sender's key it carries, keeps that key
\* as the merchant's, decrypts with its own and parses the plaintext
ReceiveEncrypted ==
  /\ keys # NULL
  /\ invoice \notin {NONE, HANG}
  /\ keys.merchantPub = NULL
  /\ \E b \in EncWires, s \in Statuses, n \in Nonces, g \in StackBytes :
       \E m \in {Envelope(MSG_REQUEST, b, invoice.senderPubKey, keys.merchant, n, s, g)} :
         \E pt \in {Opened(m, keys.wallet)} :
           /\ delivered' = delivered \cup {[sent |-> b, got |-> pt]}
           /\ keys' = [keys EXCEPT !.merchantPub = IF m = NONE THEN NULL ELSE m.senderPubKey]
           /\ req' = IF pt = <<>> THEN NONE ELSE RequestParse(pt, g)
           /\ src' = IF pt = <<>> THEN NULL ELSE pt
  /\ UNCHANGED <<payment, ack, ackSrc, invoice>>

\* what a merchant using this code answers to the payment bytes it opened
MerchantAck(pb, memo, g) == ACKSerialize(ACKNew(PaymentParse(pb, Len(pb), g), memo))

\* the payment goes to the merchant encrypted to the key it signed with;
\* a merchant that opens it answers with its PaymentACK, encrypted to the
\* sender key of the payment's envelope, which the wallet opens and parses
ReceiveEncryptedAck ==
  /\ keys # NULL
  /\ payment # NULL
  /\ ack = NONE
  /\ \E s \in Statuses, n \in Nonces, g \in StackBytes, memo \in AckMemos :
       \E pm \in {Envelope(MSG_PAYMENT, PaymentSerialize(payment), keys.merchantPub, keys.wallet,
                           n, s, g)} :
         \E pb \in {Opened(pm, keys.merchant)} :
           \E at \in {IF pb = <<>> THEN <<>>
                      ELSE Opened(Envelope(MSG_ACK, MerchantAck(pb, memo, g), pm.senderPubKey,
                                           keys.merchant, n, s, g), keys.wallet)} :
             /\ delivered' = delivered \cup {[sent |-> PaymentSerialize(payment), got |-> pb]}
                  \cup (IF pb = <<>> THEN {} ELSE {[sent |-> MerchantAck(pb, memo, g), got |-> at]})
             /\ ack' = IF at = <<>> THEN NONE ELSE ACKParse(at, g)
             /\ ackSrc' = IF at = <<>> THEN NULL ELSE at
  /\ UNCHANGED <<req, src, payment, keys, invoice>>

\* LWPaymentProtocolRequestFree, PaymentFree, ACKFree, InvoiceRequestFree
\* and EncryptedMessageFree: the exchange ends
Discard ==
  /\ req # NONE \/ keys # NULL
  /\ HANG \notin {req, ack}
  /\ req' = NONE
  /\ src' = NULL
  /\ payment' = NULL
  /\ ack' = NONE
  /\ ackSrc' = NULL
  /\ keys' = NULL
  /\ invoice' = NONE
  /\ delivered' = {}

Next ==
  \/ Create \/ Receive \/ Relay \/ Pay \/ ReceiveAck
  \/ SendInvoice \/ ReceiveEncrypted \/ ReceiveEncryptedAck
  \/ Discard

Spec == Init /\ [][Next]_vars

-----------------------------------------------------------------------------
(* Properties.                                                             *)

Bytes == Seq(0..255)

OutputRec == [amount : Nat, script : Bytes, defaults : SUBSET {output_amount},
              unknown : Bytes]

DetailsRec == [network : Bytes, outputs : Seq(OutputRec), time : Nat, expires : Nat,
               memo : Bytes \cup {NULL}, paymentURL : Bytes \cup {NULL},
               merchantData : Bytes \cup {NULL},
               defaults : SUBSET {details_network, details_time, details_expires},
               unknown : Bytes]

RequestRec == [version : Nat, pkiType : Bytes, pkiData : Bytes \cup {NULL},
               details : DetailsRec, signature : Bytes \cup {NULL},
               defaults : SUBSET {request_version, request_pki_type}, unknown : Bytes]

PaymentRec == [merchantData : Bytes \cup {NULL}, transactions : Seq(DOMAIN TxWire),
               refundTo : Seq(OutputRec), memo : Bytes \cup {NULL}, unknown : Bytes]

ACKRec == [payment : PaymentRec, memo : Bytes \cup {NULL}, unknown : Bytes]

KeyRec == [id : KeyIds \cup {NULL}, secret : BOOLEAN, compressed : BOOLEAN]

TypeOK ==
  /\ req \in RequestRec \cup {NONE, HANG}
  /\ src \in Bytes \cup {NULL}
  /\ payment \in PaymentRec \cup {NULL}
  /\ ack \in ACKRec \cup {NONE, HANG}
  /\ ackSrc \in Bytes \cup {NULL}
  /\ keys \in [wallet : KeyRec, merchant : KeyRec, merchantPub : KeyRec \cup {NULL}] \cup {NULL}
  /\ delivered \in SUBSET [sent : Bytes, got : Bytes]

\* LWPaymentProtocolRequestParse and LWPaymentProtocolACKParse return,
\* whatever bytes they are given
ParseTerminates == HANG \notin {req, ack}

\* the data of the last field of buf with number n, <<>> when there is none
\* or it is not length-delimited
LastData(buf, n) ==
  LET fs == FieldsOf(buf)
      js == {j \in DOMAIN fs : fs[j].key \div 8 = n /\ fs[j].data # NULL}
  IN  IF js = {} THEN <<>> ELSE fs[Max(js)].data

\* an unknown array u read from buf, where the fields numbered in Known are
\* known: the last field of every unknown key of buf is in u, and every
\* field in u is an unknown field of buf
KeptFrom(u, buf, Known) ==
  /\ LastUnknown(buf, Known) \subseteq ToSet(FieldsOf(u))
  /\ \A f \in ToSet(FieldsOf(u)) : f.key \div 8 \notin Known /\ f \in ToSet(FieldsOf(buf))

\* no unknown field is lost or made up by the parse: each unknown key of
\* the bytes a request was parsed from keeps its last value in the
\* request's unknown array, which holds only unknown fields of the input
\* (for a key repeated around a greater one, _ProtoBufUnknown keeps an
\* earlier copy too); the same holds for the PaymentDetails inside it, and
\* for a PaymentACK and its Payment
UnknownKept ==
  /\ src # NULL /\ req \notin {NONE, HANG} =>
    /\ KeptFrom(req.unknown, src, 1..request_signature)
    /\ KeptFrom(req.details.unknown, LastData(src, request_details), 1..details_merch_data)
  /\ ackSrc # NULL /\ ack \notin {NONE, HANG} =>
    /\ KeptFrom(ack.unknown, ackSrc, 1..ack_memo)
    /\ KeptFrom(ack.payment.unknown, LastData(ackSrc, ack_payment), 1..payment_memo)

\* a message up to the order of the fields in its unknown arrays
CanonOutput(o) == [o EXCEPT !.unknown = ToSet(FieldsOf(o.unknown))]

CanonDetails(d) ==
  [d EXCEPT !.outputs = [k \in DOMAIN d.outputs |-> CanonOutput(d.outputs[k])],
            !.unknown = ToSet(FieldsOf(d.unknown))]

Canon(r) == [r EXCEPT !.details = CanonDetails(r.details), !.unknown = ToSet(FieldsOf(r.unknown))]

\* spec.md P9: a request serialized by LWPaymentProtocolRequestSerialize and
\* parsed again by LWPaymentProtocolRequestParse is the same request, down
\* to its Outputs, which fields are defaults, and the unknown fields of every
\* level with their values
RelayKeeps ==
  [][req \notin {NONE, HANG} /\ src' = RequestSerialize(req) => Canon(req') = Canon(req)]_vars

CanonPayment(p) ==
  [p EXCEPT !.refundTo = [k \in DOMAIN p.refundTo |-> CanonOutput(p.refundTo[k])],
            !.unknown = ToSet(FieldsOf(p.unknown))]

\* BIP70: the PaymentACK a merchant returns carries the Payment the wallet
\* sent.  After LWPaymentProtocolPaymentSerialize, the merchant's
\* PaymentParse, ACKNew and ACKSerialize, and the wallet's ACKParse, the
\* payment in the ACK is the one built by PaymentNew: merchant data, the
\* transactions, the refund outputs with their amounts and the memo
AckEchoesPayment ==
  ack \notin {NONE, HANG} /\ ackSrc \in Echoes(payment) =>
    CanonPayment(ack.payment) = CanonPayment(payment)

\* spec.md P13 and S7: in a BIP75 exchange every message reaches its
\* receiver as its sender wrote it: the InvoiceRequest inside its
\* ProtocolMessage, and the request, the payment and the PaymentACK, each
\* sealed by LWPaymentProtocolEncryptedMessageNew with the key pair whose
\* secret the sender holds, and opened by ..Verify and ..Decrypt with the
\* receiver's.  Both sides must find the same peer for the shared secret,
\* whichever side's key is compressed
Delivered == \A d \in delivered : d.got = d.sent

\* the bytes a merchant signs: the request it serialized, with the data of
\* its signature field emptied
SignedBytes(buf) ==
  FoldLeft(LAMBDA b, f :
             LET d == IF f.key \div 8 = request_signature THEN <<>> ELSE f.data
             IN  b \o FieldImage(f.key, f.i, d, IF d = NULL THEN 0 ELSE Len(d)).bytes,
           <<>>, FieldsOf(buf))

\* the digest LWPaymentProtocolRequestDigest computes, to verify the
\* signature of a request parsed from a merchant's bytes, is over the bytes
\* the merchant signed (spec.md 3, digest over self minus signature)
DigestStable ==
  src # NULL /\ req \notin {NONE, HANG} =>
    \A dg \in {RequestDigest(req)} : dg # NULL => dg[2] = SignedBytes(src)

=============================================================================
