--------------------------- MODULE PaymentProtocol ---------------------------
(***************************************************************************)
(* The BIP70 messages of src/LWPaymentProtocol.c that a payment request    *)
(* is made of: the Output, the PaymentDetails that lists Outputs, and the  *)
(* PaymentRequest that carries serialized PaymentDetails and is signed.    *)
(* A message is a record of its fields and of its ProtoBufContext:         *)
(* defaults is the set of field numbers whose defaults[] entry is 1, and   *)
(* unknown the bytes of its unknown-field array.  A string or a byte array *)
(* is a sequence of bytes, or NULL for a NULL pointer; the strings the     *)
(* code compares with ("main", "none", "x509+sha256", "x509+sha1") are     *)
(* constants.  NONE is LW_TX_OUTPUT_NONE and a NULL message; HANG is the   *)
(* result of a parse that never returns.                                   *)
(***************************************************************************)
EXTENDS ProtoBuf

CONSTANTS
  MAIN, NONE_PKI, X509_SHA256, X509_SHA1,
  NONE, HANG,
  TxWire        \* the serializations of the transactions LWTransactionParse accepts

ASSUME {MAIN, NONE_PKI, X509_SHA256, X509_SHA1} \subseteq Seq(1..255)

output_amount == 1
output_script == 2

details_network     == 1
details_outputs     == 2
details_time        == 3
details_expires     == 4
details_memo        == 5
details_payment_url == 6
details_merch_data  == 7

request_version   == 1
request_pki_type  == 2
request_pki_data  == 3
request_details   == 4
request_signature == 5

payment_merch_data   == 1
payment_transactions == 2
payment_refund_to    == 3
payment_memo         == 4

ack_payment == 1
ack_memo    == 2

-----------------------------------------------------------------------------
(* Output.  LWTxOutputSetScript (not under src/) keeps a copy of the       *)
(* script, or NULL for a NULL pointer.  array_new zero-fills, so a new     *)
(* defaults[] has every entry 0.                                           *)

\* _LWPaymentProtocolOutput
NewOutput(amount, script) ==
  [amount |-> amount, script |-> script, defaults |-> {}, unknown |-> <<>>]

\* the while loop of _LWPaymentProtocolOutputParse
\* its switch on the field f
OutputField(m, f, g) ==
  CASE f.key \div 8 = output_amount ->
         [m EXCEPT !.amount = f.i, !.defaults = @ \ {output_amount}]
    [] f.key \div 8 = output_script -> [m EXCEPT !.script = f.data]
    [] OTHER -> [m EXCEPT !.unknown = Unknown(@, f.key, f.i, f.data, f.len, g)]

RECURSIVE OutputFields(_, _, _, _), OutputStep(_, _, _, _)
OutputStep(buf, m, g, f) == OutputFields(buf, f.off, OutputField(m, f, g), g)

OutputFields(buf, off, m, g) ==
  IF off >= Len(buf) THEN m ELSE OutputStep(buf, m, g, Field(buf, Len(buf), off))

\* _LWPaymentProtocolOutputParse: the script is required.  Its loop does not
\* test buf: with a NULL buf no read moves off, and a length above 0 keeps
\* it reading a key 0 with value 0 for ever
OutputRequired(m) == IF m.script = NULL THEN NONE ELSE m

OutputParse(buf, len, g) ==
  IF buf = NULL THEN IF len > 0 THEN HANG ELSE NONE
  ELSE OutputRequired(OutputFields(buf, 0, [amount |-> 0, script |-> NULL,
                                            defaults |-> {output_amount}, unknown |-> <<>>], g))

\* mutant: the amount is written when it is not zero, not when it is set
OutputSerializeByValue(m) ==
  (IF m.amount = 0 THEN <<>> ELSE SetInt(m.amount, output_amount))
    \o (IF output_script \in m.defaults THEN <<>> ELSE SetBytes(m.script, output_script))
    \o m.unknown

\* _LWPaymentProtocolOutputSerialize, into a buffer large enough
OutputSerialize(m) ==
  (IF output_amount \in m.defaults THEN <<>> ELSE SetInt(m.amount, output_amount))
    \o (IF output_script \in m.defaults THEN <<>> ELSE SetBytes(m.script, output_script))
    \o m.unknown

-----------------------------------------------------------------------------
(* PaymentDetails.                                                          *)

\* LWPaymentProtocolDetailsNew: network NULL stands for "main", a default
DetailsNew(network, outputs, time, expires, memo, paymentURL, merchantData) ==
  [network      |-> IF network = NULL THEN MAIN ELSE network,
   outputs      |-> [k \in DOMAIN outputs |-> NewOutput(outputs[k].amount, outputs[k].script)],
   time         |-> time,
   expires      |-> expires,
   memo         |-> memo,
   paymentURL   |-> paymentURL,
   merchantData |-> merchantData,
   defaults     |-> IF network = NULL THEN {details_network} ELSE {},
   unknown      |-> <<>>]

\* the while loop of LWPaymentProtocolDetailsParse; an Output that parses to
\* LW_TX_OUTPUT_NONE is left out, one that hangs hangs the loop
\* its switch on the field f, whose Output, when it is one, parsed to o
DetailsField(d, f, o, g) ==
  CASE f.key \div 8 = details_network -> [d EXCEPT !.network = CopyData(@, f.data, f.len)]
    [] f.key \div 8 = details_outputs -> IF o = NONE THEN d ELSE [d EXCEPT !.outputs = Append(@, o)]
    [] f.key \div 8 = details_time -> [d EXCEPT !.time = f.i, !.defaults = @ \ {details_time}]
    [] f.key \div 8 = details_expires ->
         [d EXCEPT !.expires = f.i, !.defaults = @ \ {details_expires}]
    [] f.key \div 8 = details_memo -> [d EXCEPT !.memo = CopyData(@, f.data, f.len)]
    [] f.key \div 8 = details_payment_url -> [d EXCEPT !.paymentURL = CopyData(@, f.data, f.len)]
    [] f.key \div 8 = details_merch_data -> [d EXCEPT !.merchantData = CopyData(@, f.data, f.len)]
    [] OTHER -> [d EXCEPT !.unknown = Unknown(@, f.key, f.i, f.data, f.len, g)]

RECURSIVE DetailsFields(_, _, _, _), DetailsStep(_, _, _, _), DetailsNext(_, _, _, _, _)
DetailsNext(buf, d, g, f, o) ==
  IF o = HANG THEN HANG ELSE DetailsFields(buf, f.off, DetailsField(d, f, o, g), g)

DetailsStep(buf, d, g, f) ==
  DetailsNext(buf, d, g, f,
              IF f.key \div 8 = details_outputs THEN OutputParse(f.data, f.len, g) ELSE NONE)

DetailsFields(buf, off, d, g) ==
  IF off >= Len(buf) THEN d ELSE DetailsStep(buf, d, g, Field(buf, Len(buf), off))

\* the end of LWPaymentProtocolDetailsParse: a missing network becomes the
\* default "main"
DetailsNetwork(d) ==
  IF d = HANG \/ d.network # NULL THEN d
  ELSE [d EXCEPT !.network = MAIN, !.defaults = @ \cup {details_network}]

\* LWPaymentProtocolDetailsParse: time and expires start as defaults; the
\* loop tests buf
DetailsParse(buf, len, g) ==
  LET d0 == [network |-> NULL, outputs |-> <<>>, time |-> 0, expires |-> 0, memo |-> NULL,
             paymentURL |-> NULL, merchantData |-> NULL,
             defaults |-> {details_time, details_expires}, unknown |-> <<>>]
  IN  DetailsNetwork(IF buf = NULL THEN d0 ELSE DetailsFields(buf, 0, d0, g))

\* LWPaymentProtocolDetailsSerialize: each Output serialized and written as
\* a length-delimited field
DetailsSerialize(d) ==
  (IF details_network \in d.defaults THEN <<>> ELSE SetString(d.network, details_network))
    \o FoldLeft(LAMBDA b, o : b \o SetBytes(OutputSerialize(o), details_outputs), <<>>, d.outputs)
    \o (IF details_time \in d.defaults THEN <<>> ELSE SetInt(d.time, details_time))
    \o (IF details_expires \in d.defaults THEN <<>> ELSE SetInt(d.expires, details_expires))
    \o (IF d.memo = NULL THEN <<>> ELSE SetString(d.memo, details_memo))
    \o (IF d.paymentURL = NULL THEN <<>> ELSE SetString(d.paymentURL, details_payment_url))
    \o (IF d.merchantData = NULL THEN <<>> ELSE SetBytes(d.merchantData, details_merch_data))
    \o d.unknown

-----------------------------------------------------------------------------
(* PaymentRequest.                                                          *)

\* LWPaymentProtocolRequestNew: version 0 stands for the default 1, pkiType
\* NULL for the default "none"
RequestNew(version, pkiType, pkiData, details, signature) ==
  [version   |-> IF version = 0 THEN 1 ELSE version,
   pkiType   |-> IF pkiType = NULL THEN NONE_PKI ELSE pkiType,
   pkiData   |-> pkiData,
   details   |-> details,
   signature |-> signature,
   defaults  |-> (IF version = 0 THEN {request_version} ELSE {})
                   \cup (IF pkiType = NULL THEN {request_pki_type} ELSE {}),
   unknown   |-> <<>>]

\* the switch of LWPaymentProtocolRequestParse on the field f, whose
\* details, when it is that field, parsed to d (the version is cast to
\* uint32_t; the var-ints here are far below 2^32)
RequestField(r, f, d, g) ==
  CASE f.key \div 8 = request_version ->
         [r EXCEPT !.version = f.i, !.defaults = @ \ {request_version}]
    [] f.key \div 8 = request_pki_type -> [r EXCEPT !.pkiType = CopyData(@, f.data, f.len)]
    [] f.key \div 8 = request_pki_data -> [r EXCEPT !.pkiData = CopyData(@, f.data, f.len)]
    [] f.key \div 8 = request_details -> [r EXCEPT !.details = d]
    [] f.key \div 8 = request_signature -> [r EXCEPT !.signature = CopyData(@, f.data, f.len)]
    [] OTHER -> [r EXCEPT !.unknown = Unknown(@, f.key, f.i, f.data, f.len, g)]

\* its while loop
RECURSIVE RequestFields(_, _, _, _), RequestStep(_, _, _, _), RequestNext(_, _, _, _, _)
RequestNext(buf, r, g, f, d) ==
  IF d = HANG THEN HANG ELSE RequestFields(buf, f.off, RequestField(r, f, d, g), g)

RequestStep(buf, r, g, f) ==
  RequestNext(buf, r, g, f,
              IF f.key \div 8 = request_details THEN DetailsParse(f.data, f.len, g) ELSE NONE)

RequestFields(buf, off, r, g) ==
  IF off >= Len(buf) THEN r ELSE RequestStep(buf, r, g, Field(buf, Len(buf), off))

\* the end of LWPaymentProtocolRequestParse: a missing pkiType becomes the
\* default "none", and the details are required
RequestPkiType(r) ==
  IF r = HANG \/ r.pkiType # NULL THEN r
  ELSE [r EXCEPT !.pkiType = NONE_PKI, !.defaults = @ \cup {request_pki_type}]

RequestRequired(r) == IF r # HANG /\ r.details = NULL THEN NONE ELSE r

\* LWPaymentProtocolRequestParse
RequestParse(buf, g) ==
  RequestRequired(RequestPkiType(
    RequestFields(buf, 0, [version |-> 1, pkiType |-> NULL, pkiData |-> NULL, details |-> NULL,
                           signature |-> NULL, defaults |-> {request_version}, unknown |-> <<>>],
                  g)))

\* LWPaymentProtocolRequestSerialize
RequestSerialize(r) ==
  (IF request_version \in r.defaults THEN <<>> ELSE SetInt(r.version, request_version))
    \o (IF request_pki_type \in r.defaults THEN <<>> ELSE SetString(r.pkiType, request_pki_type))
    \o (IF r.pkiData = NULL THEN <<>> ELSE SetBytes(r.pkiData, request_pki_data))
    \o SetBytes(DetailsSerialize(r.details), request_details)
    \o (IF r.signature = NULL THEN <<>> ELSE SetBytes(r.signature, request_signature))
    \o r.unknown

\* LWPaymentProtocolRequestDigest: the request serialized with sigLen 0 (an
\* empty signature field when there is a signature) and hashed by the
\* algorithm pkiType names; the hash is kept as the pair of the algorithm and
\* the bytes hashed, NULL when pkiType names none
RequestDigest(r) ==
  IF r.pkiType \in {X509_SHA256, X509_SHA1}
  THEN <<r.pkiType, RequestSerialize([r EXCEPT !.signature = IF @ = NULL THEN NULL ELSE <<>>])>>
  ELSE NULL

-----------------------------------------------------------------------------
(* Payment and PaymentACK.  LWTransaction is not under src/: a           *)
(* transaction is an index into TxWire, LWTransactionParse gives the index *)
(* of the bytes it is given (NULL for bytes it rejects) and                *)
(* LWTransactionSerialize gives them back.  A refund address is given by   *)
(* its output script (LWAddressScriptPubKey).                              *)

TxParse(data) ==
  IF \E k \in DOMAIN TxWire : TxWire[k] = data
  THEN CHOOSE k \in DOMAIN TxWire : TxWire[k] = data ELSE NULL

TxSerialize(tx) == TxWire[tx]

\* LWPaymentProtocolPaymentNew: the refund outputs are built like a
\* request's; the defaults[] of a payment are never set
PaymentNew(merchantData, transactions, refundTo, memo) ==
  [merchantData |-> merchantData,
   transactions |-> transactions,
   refundTo     |-> [k \in DOMAIN refundTo |-> NewOutput(refundTo[k].amount, refundTo[k].script)],
   memo         |-> memo,
   unknown      |-> <<>>]

\* the switch of LWPaymentProtocolPaymentParse on the field f, whose
\* transaction and refund output, when it is one of those, parsed to tx and o;
\* NULL and LW_TX_OUTPUT_NONE are not added
PaymentField(p, f, tx, o, g) ==
  CASE f.key \div 8 = payment_transactions ->
         IF tx = NULL THEN p ELSE [p EXCEPT !.transactions = Append(@, tx)]
    [] f.key \div 8 = payment_refund_to ->
         IF o = NONE THEN p ELSE [p EXCEPT !.refundTo = Append(@, o)]
    [] f.key \div 8 = payment_memo -> [p EXCEPT !.memo = CopyData(@, f.data, f.len)]
    [] f.key \div 8 = payment_merch_data -> [p EXCEPT !.merchantData = CopyData(@, f.data, f.len)]
    [] OTHER -> [p EXCEPT !.unknown = Unknown(@, f.key, f.i, f.data, f.len, g)]

\* its while loop; a refund output goes through the Output parse that does
\* not test its buffer
RECURSIVE PaymentFields(_, _, _, _), PaymentStep(_, _, _, _), PaymentNext(_, _, _, _, _)
PaymentNext(buf, p, g, f, o) ==
  IF o = HANG THEN HANG
  ELSE PaymentFields(buf, f.off,
         PaymentField(p, f, IF f.key \div 8 = payment_transactions THEN TxParse(f.data) ELSE NULL,
                      o, g), g)

PaymentStep(buf, p, g, f) ==
  PaymentNext(buf, p, g, f,
              IF f.key \div 8 = payment_refund_to THEN OutputParse(f.data, f.len, g) ELSE NONE)

PaymentFields(buf, off, p, g) ==
  IF off >= Len(buf) THEN p ELSE PaymentStep(buf, p, g, Field(buf, Len(buf), off))

\* LWPaymentProtocolPaymentParse: no field is required, and the loop tests
\* buf, so a NULL buffer gives an empty payment
PaymentParse(buf, len, g) ==
  LET p0 == [merchantData |-> NULL, transactions |-> <<>>, refundTo |-> <<>>, memo |-> NULL,
             unknown |-> <<>>]
  IN  IF buf = NULL THEN p0 ELSE PaymentFields(buf, 0, p0, g)

\* mutant: merchant data is written only when it is not empty
PaymentSerializeNonEmpty(p) ==
  (IF p.merchantData \in {NULL, <<>>} THEN <<>> ELSE SetBytes(p.merchantData, payment_merch_data))
    \o FoldLeft(LAMBDA b, t : b \o SetBytes(TxSerialize(t), payment_transactions), <<>>, p.transactions)
    \o FoldLeft(LAMBDA b, o : b \o SetBytes(OutputSerialize(o), payment_refund_to), <<>>, p.refundTo)
    \o (IF p.memo = NULL THEN <<>> ELSE SetString(p.memo, payment_memo))
    \o p.unknown

\* LWPaymentProtocolPaymentSerialize
PaymentSerialize(p) ==
  (IF p.merchantData = NULL THEN <<>> ELSE SetBytes(p.merchantData, payment_merch_data))
    \o FoldLeft(LAMBDA b, t : b \o SetBytes(TxSerialize(t), payment_transactions), <<>>, p.transactions)
    \o FoldLeft(LAMBDA b, o : b \o SetBytes(OutputSerialize(o), payment_refund_to), <<>>, p.refundTo)
    \o (IF p.memo = NULL THEN <<>> ELSE SetString(p.memo, payment_memo))
    \o p.unknown

\* LWPaymentProtocolACKNew: the payment is required (never NULL here)
ACKNew(payment, memo) == [payment |-> payment, memo |-> memo, unknown |-> <<>>]

\* the switch of LWPaymentProtocolACKParse on the field f, whose payment,
\* when it is that field, parsed to p
ACKField(a, f, p, g) ==
  CASE f.key \div 8 = ack_payment -> [a EXCEPT !.payment = p]
    [] f.key \div 8 = ack_memo -> [a EXCEPT !.memo = CopyData(@, f.data, f.len)]
    [] OTHER -> [a EXCEPT !.unknown = Unknown(@, f.key, f.i, f.data, f.len, g)]

RECURSIVE ACKFields(_, _, _, _), ACKStep(_, _, _, _), ACKNext(_, _, _, _, _)
ACKNext(buf, a, g, f, p) ==
  IF p = HANG THEN HANG ELSE ACKFields(buf, f.off, ACKField(a, f, p, g), g)

ACKStep(buf, a, g, f) ==
  ACKNext(buf, a, g, f, IF f.key \div 8 = ack_payment THEN PaymentParse(f.data, f.len, g) ELSE NONE)

ACKFields(buf, off, a, g) ==
  IF off >= Len(buf) THEN a ELSE ACKStep(buf, a, g, Field(buf, Len(buf), off))

ACKRequired(a) == IF a # HANG /\ a.payment = NULL THEN NONE ELSE a

\* LWPaymentProtocolACKParse: the payment is required
ACKParse(buf, g) ==
  ACKRequired(ACKFields(buf, 0, [payment |-> NULL, memo |-> NULL, unknown |-> <<>>], g))

\* LWPaymentProtocolACKSerialize
ACKSerialize(a) ==
  SetBytes(PaymentSerialize(a.payment), ack_payment)
    \o (IF a.memo = NULL THEN <<>> ELSE SetString(a.memo, ack_memo))
    \o a.unknown
=============================================================================
