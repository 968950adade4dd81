-------------------------- MODULE EncryptedMessage ---------------------------
(***************************************************************************)
(* The BIP75 messages of src/LWPaymentProtocol.c: the InvoiceRequest a     *)
(* wallet sends with its public key, the ProtocolMessage that carries a    *)
(* serialized message in the clear, and the EncryptedProtocolMessage that  *)
(* carries one encrypted with a key agreed by ECDH and signed by its       *)
(* sender.  Keys are LWKeys of src/LWKey.c: a key pair (numbered), whether  *)
(* the struct holds the secret, and its compressed flag, which decides how *)
(* LWKeyPubKey serializes the point.  The primitives of LWCrypto (not      *)
(* under src/) are symbolic: ECDH gives the same secret to either side of  *)
(* a pair of keys, the AEAD opens exactly what was sealed with the same    *)
(* key, nonce and associated data, and a signature verifies exactly for    *)
(* its signer and the bytes signed.                                        *)
(***************************************************************************)
EXTENDS PaymentProtocol

CONSTANT KeyIds   \* the secp256k1 key pairs, by number

ASSUME KeyIds \subseteq 1..255

\* LWPaymentProtocolMessageType, numbered as in BIP75
MSG_INVOICE_REQUEST == 1
MSG_REQUEST         == 2
MSG_PAYMENT         == 3
MSG_ACK             == 4

invoice_req_sender_pk  == 1
invoice_req_amount     == 2
invoice_req_pki_type   == 3
invoice_req_pki_data   == 4
invoice_req_memo       == 5
invoice_req_notify_url == 6
invoice_req_signature  == 7

message_msg_type    == 1
message_message     == 2
message_status_code == 3
message_status_msg  == 4
message_identifier  == 5

encrypted_msg_msg_type    == 1
encrypted_msg_message     == 2
encrypted_msg_receiver_pk == 3
encrypted_msg_sender_pk   == 4
encrypted_msg_nonce       == 5
encrypted_msg_signature   == 6
encrypted_msg_identifier  == 7
encrypted_msg_status_code == 8
encrypted_msg_status_msg  == 9

-----------------------------------------------------------------------------
(* Keys.                                                                   *)

\* LWKeySetSecret
KeySetSecret(id, compressed) == [id |-> id, secret |-> TRUE, compressed |-> compressed]

\* LWKeyPubKey: the point, serialized in 33 bytes with prefix 2 or 3 when the
\* key is compressed and in 65 with prefix 4 when it is not; here the
\* prefix and the number of the pair, which the long form repeats
KeyPubKey(k) == IF k.compressed THEN <<2, k.id>> ELSE <<4, k.id, k.id>>

\* LWKeySetPubKey: a public-only key, compressed when pkLen <= 33, and
\* whether the bytes parse as a point
KeySetPubKey(bytes) ==
  LET ids == {id \in KeyIds : bytes \in {<<2, id>>, <<4, id, id>>}}
  IN  [key |-> [id |-> IF ids = {} THEN NULL ELSE CHOOSE id \in ids : TRUE,
                secret |-> FALSE, compressed |-> Len(bytes) <= 2],
       ok  |-> ids # {}]

\* LWKeySign: a DER signature of the digest; SHA-256 is collision-free,
\* so the digest stands for the bytes hashed
KeySign(key, md) == <<48, key.id>> \o md

\* LWKeyVerify: the signature was made by the key's pair over md
KeyVerify(key, md, sig) == sig # NULL /\ sig = KeySign(key, md)

\* _LWECDH: the x coordinate of one pair's secret times the other's point,
\* the same whichever of the two holds the secret
ECDH(privKey, pubKey) == {privKey.id, pubKey.id}

\* LWChacha20Poly1305AEADEncrypt: each byte shifted by the keystream of the
\* key, then a 16-byte tag over the key, the nonce, the associated data and
\* the ciphertext
Keystream(cek) == (SumSet(cek.secret) + 16 * cek.nonce) % 256

AEADTag(cek, ad, body) ==
  LET t == <<Min(cek.secret), Max(cek.secret), cek.nonce % 256,
             FoldLeft(LAMBDA a, b : a + b, 0, body) % 256, Len(ad)>> \o ad
  IN  t \o [k \in 1..(16 - Len(t)) |-> 0]

AEADEncrypt(cek, data, ad) ==
  LET body == [k \in DOMAIN data |-> (data[k] + Keystream(cek)) % 256]
  IN  body \o AEADTag(cek, ad, body)

\* LWChacha20Poly1305AEADDecrypt: the plaintext, or 0 bytes when the tag
\* does not match
AEADDecrypt(cek, data, ad) ==
  IF /\ Len(data) >= 16
     /\ SubSeq(data, Len(data) - 15, Len(data)) = AEADTag(cek, ad, SubSeq(data, 1, Len(data) - 16))
  THEN [k \in 1..(Len(data) - 16) |-> (data[k] - Keystream(cek)) % 256]
  ELSE <<>>

\* "%"PRIu64: the decimal digits of n
RECURSIVE Decimal(_)
Decimal(n) == IF n < 10 THEN <<48 + n>> ELSE Decimal(n \div 10) \o <<48 + (n % 10)>>

-----------------------------------------------------------------------------
(* InvoiceRequest.  The sender's key is the LWKey the struct holds, set    *)
(* from LWKeyPubKey of the key given; a string argument is a C string.     *)

\* a string argument kept by _ProtoBufString, or NULL
StrArg(s) == IF s = NULL THEN NULL ELSE CString(s)

\* LWPaymentProtocolInvoiceRequestNew: pkiType "none" when none is given,
\* marked a default; the amount is never marked one
InvoiceRequestNew(senderPubKey, amount, pkiType, pkiData, memo, notifyUrl, signature) ==
  [senderPubKey |-> KeySetPubKey(KeyPubKey(senderPubKey)).key,
   amount       |-> amount,
   pkiType      |-> IF pkiType = NULL THEN NONE_PKI ELSE CString(pkiType),
   pkiData      |-> pkiData,
   memo         |-> StrArg(memo),
   notifyUrl    |-> StrArg(notifyUrl),
   signature    |-> signature,
   defaults     |-> IF pkiType = NULL THEN {invoice_req_pki_type} ELSE {},
   unknown      |-> <<>>,
   got          |-> {invoice_req_sender_pk}]

\* the switch of LWPaymentProtocolInvoiceRequestParse on the field f; got
\* holds sender_pk while gotSenderPK is true
InvoiceRequestField(r, f, g) ==
  CASE f.key \div 8 = invoice_req_sender_pk ->
         [r EXCEPT !.senderPubKey = KeySetPubKey(f.data).key,
                   !.got = IF KeySetPubKey(f.data).ok THEN {invoice_req_sender_pk} ELSE {}]
    [] f.key \div 8 = invoice_req_amount ->
         [r EXCEPT !.amount = f.i, !.defaults = @ \ {invoice_req_amount}]
    [] f.key \div 8 = invoice_req_pki_type -> [r EXCEPT !.pkiType = CopyData(@, f.data, f.len)]
    [] f.key \div 8 = invoice_req_pki_data -> [r EXCEPT !.pkiData = CopyData(@, f.data, f.len)]
    [] f.key \div 8 = invoice_req_memo -> [r EXCEPT !.memo = CopyData(@, f.data, f.len)]
    [] f.key \div 8 = invoice_req_notify_url -> [r EXCEPT !.notifyUrl = CopyData(@, f.data, f.len)]
    [] f.key \div 8 = invoice_req_signature -> [r EXCEPT !.signature = CopyData(@, f.data, f.len)]
    [] OTHER -> [r EXCEPT !.unknown = Unknown(@, f.key, f.i, f.data, f.len, g)]

RECURSIVE InvoiceRequestFields(_, _, _, _), InvoiceRequestStep(_, _, _, _)
InvoiceRequestStep(buf, r, g, f) ==
  InvoiceRequestFields(buf, f.off, InvoiceRequestField(r, f, g), g)

InvoiceRequestFields(buf, off, r, g) ==
  IF off >= Len(buf) THEN r ELSE InvoiceRequestStep(buf, r, g, Field(buf, Len(buf), off))

\* after the loop: pkiType "none" when the wire had none, and the sender's
\* key is required
InvoiceRequestRequired(r) ==
  IF r.got = {} THEN NONE
  ELSE IF r.pkiType = NULL
       THEN [r EXCEPT !.pkiType = NONE_PKI, !.defaults = @ \cup {invoice_req_pki_type}]
       ELSE r

\* LWPaymentProtocolInvoiceRequestParse: amount is a default until read
InvoiceRequestParse(buf, g) ==
  InvoiceRequestRequired(InvoiceRequestFields(buf, 0,
    [senderPubKey |-> NULL, amount |-> 0, pkiType |-> NULL, pkiData |-> NULL, memo |-> NULL,
     notifyUrl |-> NULL, signature |-> NULL, defaults |-> {invoice_req_amount},
     unknown |-> <<>>, got |-> {}], g))

\* LWPaymentProtocolInvoiceRequestSerialize
InvoiceRequestSerialize(r) ==
  SetBytes(KeyPubKey(r.senderPubKey), invoice_req_sender_pk)
    \o (IF invoice_req_amount \in r.defaults THEN <<>> ELSE SetInt(r.amount, invoice_req_amount))
    \o (IF invoice_req_pki_type \in r.defaults THEN <<>> ELSE SetString(r.pkiType, invoice_req_pki_type))
    \o (IF r.pkiData = NULL THEN <<>> ELSE SetBytes(r.pkiData, invoice_req_pki_data))
    \o (IF r.memo = NULL THEN <<>> ELSE SetString(r.memo, invoice_req_memo))
    \o (IF r.notifyUrl = NULL THEN <<>> ELSE SetString(r.notifyUrl, invoice_req_notify_url))
    \o (IF r.signature = NULL THEN <<>> ELSE SetBytes(r.signature, invoice_req_signature))
    \o r.unknown

-----------------------------------------------------------------------------
(* ProtocolMessage.                                                        *)

\* LWPaymentProtocolMessageNew: the message is required
MessageNew(msgType, message, statusCode, statusMsg, identifier) ==
  IF message = NULL THEN NONE
  ELSE [msgType |-> msgType, message |-> message, statusCode |-> statusCode,
        statusMsg |-> StrArg(statusMsg), identifier |-> identifier, defaults |-> {},
        unknown |-> <<>>, got |-> {message_msg_type}]

\* the switch of LWPaymentProtocolMessageParse; got holds msg_type once
\* gotMsgType is set
MessageField(m, f, g) ==
  CASE f.key \div 8 = message_msg_type ->
         [m EXCEPT !.msgType = f.i, !.got = {message_msg_type}]
    [] f.key \div 8 = message_message -> [m EXCEPT !.message = CopyData(@, f.data, f.len)]
    [] f.key \div 8 = message_status_code ->
         [m EXCEPT !.statusCode = f.i, !.defaults = @ \ {message_status_code}]
    [] f.key \div 8 = message_status_msg -> [m EXCEPT !.statusMsg = CopyData(@, f.data, f.len)]
    [] f.key \div 8 = message_identifier -> [m EXCEPT !.identifier = CopyData(@, f.data, f.len)]
    [] OTHER -> [m EXCEPT !.unknown = Unknown(@, f.key, f.i, f.data, f.len, g)]

RECURSIVE MessageFields(_, _, _, _), MessageStep(_, _, _, _)
MessageStep(buf, m, g, f) == MessageFields(buf, f.off, MessageField(m, f, g), g)

MessageFields(buf, off, m, g) ==
  IF off >= Len(buf) THEN m ELSE MessageStep(buf, m, g, Field(buf, Len(buf), off))

MessageRequired(m) == IF m.got = {} \/ m.message = NULL THEN NONE ELSE m

\* LWPaymentProtocolMessageParse: the type and the message are required
MessageParse(buf, g) ==
  MessageRequired(MessageFields(buf, 0,
    [msgType |-> 0, message |-> NULL, statusCode |-> 0, statusMsg |-> NULL, identifier |-> NULL,
     defaults |-> {message_status_code}, unknown |-> <<>>, got |-> {}], g))

\* LWPaymentProtocolMessageSerialize
MessageSerialize(m) ==
  SetInt(m.msgType, message_msg_type)
    \o SetBytes(m.message, message_message)
    \o (IF message_status_code \in m.defaults THEN <<>> ELSE SetInt(m.statusCode, message_status_code))
    \o (IF m.statusMsg = NULL THEN <<>> ELSE SetString(m.statusMsg, message_status_msg))
    \o (IF m.identifier = NULL THEN <<>> ELSE SetBytes(m.identifier, message_identifier))
    \o m.unknown

-----------------------------------------------------------------------------
(* EncryptedProtocolMessage.  Its receiverPubKey and senderPubKey are the  *)
(* LWKeys the struct holds, set from LWKeyPubKey of the keys given.        *)

\* mutant: the peer is always the receiver
EncryptedMessageCEKReceiver(msg, privKey) ==
  [secret |-> ECDH(privKey, msg.receiverPubKey), nonce |-> msg.nonce]

\* _LWPaymentProtocolEncryptedMessageCEK: the peer is the receiver unless
\* privKey's public key, as LWKeyPubKey serializes it, is the receiver's;
\* cek and iv both come from the HMAC-DRBG seeded with the shared secret
\* and the nonce, so they are given by the two
EncryptedMessageCEK(msg, privKey) ==
  [secret |-> ECDH(privKey, IF KeyPubKey(privKey) # KeyPubKey(msg.receiverPubKey)
                            THEN msg.receiverPubKey ELSE msg.senderPubKey),
   nonce  |-> msg.nonce]

\* LWPaymentProtocolEncryptedMessageSerialize
EncryptedMessageSerialize(m) ==
  SetInt(m.msgType, encrypted_msg_msg_type)
    \o SetBytes(m.message, encrypted_msg_message)
    \o SetBytes(KeyPubKey(m.receiverPubKey), encrypted_msg_receiver_pk)
    \o SetBytes(KeyPubKey(m.senderPubKey), encrypted_msg_sender_pk)
    \o SetInt(m.nonce, encrypted_msg_nonce)
    \o (IF m.signature = NULL THEN <<>> ELSE SetBytes(m.signature, encrypted_msg_signature))
    \o (IF m.identifier = NULL THEN <<>> ELSE SetBytes(m.identifier, encrypted_msg_identifier))
    \o (IF encrypted_msg_status_code \in m.defaults THEN <<>>
        ELSE SetInt(m.statusCode, encrypted_msg_status_code))
    \o (IF m.statusMsg = NULL THEN <<>> ELSE SetString(m.statusMsg, encrypted_msg_status_msg))
    \o m.unknown

\* the associated data of LWPaymentProtocolEncryptedMessageNew: the
\* status code in decimal followed by the status message
StatusAD(statusCode, statusMsg) ==
  Decimal(statusCode) \o (IF statusMsg = NULL THEN <<>> ELSE CString(statusMsg))

\* the message m0 sealed with privKey, then signed over its serialization
\* with the signature set to "" (an empty field)
EncryptedMessageSeal(m0, message, privKey) ==
  LET m1 == [m0 EXCEPT !.message = AEADEncrypt(EncryptedMessageCEK(m0, privKey), message,
                                              StatusAD(m0.statusCode, m0.statusMsg))]
  IN  [m1 EXCEPT !.signature =
         KeySign(privKey, EncryptedMessageSerialize([m1 EXCEPT !.signature = <<>>]))]

\* LWPaymentProtocolEncryptedMessageNew: privKey is the receiver's key when
\* it holds a secret, else the sender's.  The AEAD output is never empty,
\* so the required message is always there
EncryptedMessageNew(msgType, message, receiverKey, senderKey, nonce, identifier, statusCode, statusMsg) ==
  EncryptedMessageSeal(
    [msgType |-> msgType, message |-> NULL,
     receiverPubKey |-> KeySetPubKey(KeyPubKey(receiverKey)).key,
     senderPubKey |-> KeySetPubKey(KeyPubKey(senderKey)).key,
     nonce |-> nonce, signature |-> NULL, identifier |-> identifier,
     statusCode |-> statusCode, statusMsg |-> StrArg(statusMsg), defaults |-> {},
     unknown |-> <<>>, got |-> {}],
    message, IF receiverKey.secret THEN receiverKey ELSE senderKey)

\* the got flags of LWPaymentProtocolEncryptedMessageParse, as the numbers
\* of the fields whose flag is set
Flag(got, n, ok) == IF ok THEN got \cup {n} ELSE got \ {n}

\* its switch on the field f
EncryptedMessageField(m, f, g) ==
  CASE f.key \div 8 = encrypted_msg_msg_type ->
         [m EXCEPT !.msgType = f.i, !.got = @ \cup {encrypted_msg_msg_type}]
    [] f.key \div 8 = encrypted_msg_message -> [m EXCEPT !.message = CopyData(@, f.data, f.len)]
    [] f.key \div 8 = encrypted_msg_receiver_pk ->
         [m EXCEPT !.receiverPubKey = KeySetPubKey(f.data).key,
                   !.got = Flag(@, encrypted_msg_receiver_pk, KeySetPubKey(f.data).ok)]
    [] f.key \div 8 = encrypted_msg_sender_pk ->
         [m EXCEPT !.senderPubKey = KeySetPubKey(f.data).key,
                   !.got = Flag(@, encrypted_msg_sender_pk, KeySetPubKey(f.data).ok)]
    [] f.key \div 8 = encrypted_msg_nonce ->
         [m EXCEPT !.nonce = f.i, !.got = @ \cup {encrypted_msg_nonce}]
    [] f.key \div 8 = encrypted_msg_signature -> [m EXCEPT !.signature = CopyData(@, f.data, f.len)]
    [] f.key \div 8 = encrypted_msg_identifier -> [m EXCEPT !.identifier = CopyData(@, f.data, f.len)]
    [] f.key \div 8 = encrypted_msg_status_code ->
         [m EXCEPT !.statusCode = f.i, !.defaults = @ \ {encrypted_msg_status_code}]
    [] f.key \div 8 = encrypted_msg_status_msg -> [m EXCEPT !.statusMsg = CopyData(@, f.data, f.len)]
    [] OTHER -> [m EXCEPT !.unknown = Unknown(@, f.key, f.i, f.data, f.len, g)]

RECURSIVE EncryptedMessageFields(_, _, _, _), EncryptedMessageStep(_, _, _, _)
EncryptedMessageStep(buf, m, g, f) ==
  EncryptedMessageFields(buf, f.off, EncryptedMessageField(m, f, g), g)

EncryptedMessageFields(buf, off, m, g) ==
  IF off >= Len(buf) THEN m ELSE EncryptedMessageStep(buf, m, g, Field(buf, Len(buf), off))

EncryptedMessageRequired(m) ==
  IF m.message # NULL
     /\ {encrypted_msg_msg_type, encrypted_msg_receiver_pk, encrypted_msg_sender_pk,
         encrypted_msg_nonce} \subseteq m.got
  THEN m ELSE NONE

\* LWPaymentProtocolEncryptedMessageParse: type, message, both keys and the
\* nonce are required
EncryptedMessageParse(buf, g) ==
  EncryptedMessageRequired(EncryptedMessageFields(buf, 0,
    [msgType |-> 0, message |-> NULL, receiverPubKey |-> NULL, senderPubKey |-> NULL,
     nonce |-> 0, signature |-> NULL, identifier |-> NULL, statusCode |-> 0, statusMsg |-> NULL,
     defaults |-> {encrypted_msg_status_code}, unknown |-> <<>>, got |-> {}], g))

\* LWPaymentProtocolEncryptedMessageVerify: the signature is over the
\* serialization with a signature of length 0
EncryptedMessageVerify(m, pubKey) ==
  KeyVerify(pubKey,
            EncryptedMessageSerialize([m EXCEPT !.signature = IF @ = NULL THEN NULL ELSE <<>>]),
            m.signature)

\* the associated data LWPaymentProtocolEncryptedMessageDecrypt rebuilds:
\* from both status fields when the code was on the wire, else from the
\* status message alone
DecryptAD(m) ==
  IF encrypted_msg_status_code \notin m.defaults THEN StatusAD(m.statusCode, m.statusMsg)
  ELSE IF m.statusMsg = NULL THEN <<>> ELSE CString(m.statusMsg)

\* LWPaymentProtocolEncryptedMessageDecrypt, into a buffer of the size its
\* first call returns: the plaintext, 0 bytes when it does not open
EncryptedMessageDecrypt(m, privKey) ==
  AEADDecrypt(EncryptedMessageCEK(m, privKey), m.message, DecryptAD(m))

=============================================================================
