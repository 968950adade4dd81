------------------------- MODULE MCPaymentProtocol --------------------------
EXTENDS PaymentSession

\* the strings the code compares with, one byte each
MCMain   == <<77>>
MCNone   == <<78>>
MCSha256 == <<83>>
MCSha1   == <<84>>

\* a field as [key, i, data], and a protobuf writer that writes fields in
\* the order given
VarF(n, v)      == [key |-> n * 8 + PROTOBUF_VARINT, i |-> v, data |-> NULL]
LenF(n, d)      == [key |-> n * 8 + PROTOBUF_LENDELIM, i |-> 0, data |-> d]
Unk(n, wt, v)   == [key |-> n * 8 + wt, i |-> v, data |-> NULL]
Encode(fs) ==
  FoldLeft(LAMBDA b, f : b \o FieldImage(f.key, f.i, f.data,
                                         IF f.data = NULL THEN 0 ELSE Len(f.data)).bytes,
           <<>>, fs)

\* sequences of up to n of the fields F, no unknown key repeated
Lists(F, n, known) ==
  { fs \in BoundedSeq(F, n) :
      \A j, k \in DOMAIN fs : j # k /\ fs[j].key \div 8 > known => fs[j].key # fs[k].key }

\* Outputs: amount 300 (a two-byte var-int) with a script and an unknown
\* field; and one with no script, which the parse drops
MCOutputs == { Encode(<<VarF(1, 300), LenF(2, <<5>>), VarF(3, 7)>>),
               Encode(<<VarF(1, 0)>>) }

\* PaymentDetails: up to two of the outputs, a network, a time, a memo, and
\* unknown fields of two wire types, one with a two-byte key, no unknown
\* key repeated;
MCDetailsFields ==
  {LenF(2, o) : o \in MCOutputs}
    \cup { LenF(1, <<7>>), VarF(3, 5), LenF(5, <<8>>),
           Unk(8, PROTOBUF_32BIT, 9), Unk(20, PROTOBUF_VARINT, 1) }

\* plus one whose unknown field 8 comes twice, with field 20 between
MCDetails ==
  {Encode(fs) : fs \in Lists(MCDetailsFields, 2, details_merch_data)}
    \cup {Encode(<<Unk(8, PROTOBUF_32BIT, 9), Unk(20, PROTOBUF_VARINT, 1), Unk(8, PROTOBUF_32BIT, 3)>>)}

\* PaymentRequests: a details field before or after at most one of a
\* pkiType, a signature and an unknown 64-bit field
MCRequestFields == { LenF(2, MCSha256), LenF(5, <<4>>), Unk(6, PROTOBUF_64BIT, 2) }

MCWires ==
  UNION { { Encode(SubSeq(fs, 1, k) \o <<LenF(4, d)>> \o SubSeq(fs, k + 1, Len(fs))) :
              d \in MCDetails, k \in 0..Len(fs) } :
          fs \in Lists(MCRequestFields, 1, request_signature) }

\* requests built here: defaults and an amount of 0, or every field set
MCNewRequests ==
  { [version |-> 0, pkiType |-> NULL, pkiData |-> NULL, network |-> NULL,
     outputs |-> <<[amount |-> 0, script |-> <<5>>]>>, time |-> 0, expires |-> 0,
     memo |-> NULL, paymentURL |-> NULL, merchantData |-> NULL, signature |-> NULL],
    [version |-> 2, pkiType |-> MCSha256, pkiData |-> <<3>>, network |-> <<7>>,
     outputs |-> <<>>, time |-> 5, expires |-> 6, memo |-> <<8>>,
     paymentURL |-> <<9>>, merchantData |-> <<>>, signature |-> <<4>>] }

\* a details field whose Outputs field is a var-int
MCHangWires ==
  { Encode(<<LenF(4, Encode(<<LenF(2, Encode(<<LenF(2, <<5>>)>>))>>))>>),
    Encode(<<LenF(4, Encode(<<VarF(2, 0)>>))>>) }

\* a signed request whose details carry two unknown fields, in key order
MCDigestWires ==
  { Encode(<<LenF(2, MCSha256),
             LenF(4, Encode(<<LenF(2, Encode(<<LenF(2, <<5>>)>>)),
                              Unk(8, PROTOBUF_32BIT, 9), Unk(20, PROTOBUF_VARINT, 1)>>)),
             LenF(5, <<4>>)>>) }

\* two transactions LWTransactionParse accepts, by their serializations
MCTxWire == << <<1, 0>>, <<2>> >>

\* payments the wallet builds: a transaction, a refund output of a
\* two-byte var-int amount and a memo; or nothing but the merchant data
MCNewPayments ==
  { [transactions |-> <<1>>, refundTo |-> <<[amount |-> 300, script |-> <<6>>]>>, memo |-> <<9>>],
    [transactions |-> <<>>, refundTo |-> <<>>, memo |-> NULL] }

MCAckMemos == {NULL, <<1>>}

\* ACKs that are not an echo: one whose payment holds a transaction that
\* does not parse, a refund output without a script and two unknown fields,
\* with an unknown field of its own; one without a payment; one whose
\* payment field is a var-int
MCAckWires ==
  { Encode(<<LenF(1, Encode(<<LenF(2, <<3>>), LenF(3, Encode(<<VarF(1, 5)>>)),
                              Unk(6, PROTOBUF_VARINT, 1), Unk(9, PROTOBUF_32BIT, 2)>>)),
             Unk(3, PROTOBUF_VARINT, 4)>>),
    Encode(<<LenF(2, <<1>>)>>),
    Encode(<<VarF(1, 0)>>) }

\* an ACK whose payment has a refund_to field that is a var-int
MCHangAckWires == { Encode(<<LenF(1, Encode(<<VarF(3, 0)>>))>>) }


\* the wallet's key pair 1 and the merchant's pair 2, each compressed or not
MCKeyIds == {1, 2}
MCWalletKeys == {KeySetSecret(1, c) : c \in BOOLEAN}
MCMerchantKeys == {KeySetSecret(2, c) : c \in BOOLEAN}

\* an InvoiceRequest of an amount with defaults otherwise, in a
\* ProtocolMessage with a status code and message
MCInvoiceArgs ==
  { [amount |-> 300, pkiType |-> NULL, memo |-> <<8>>, notifyUrl |-> NULL, code |-> 1, msg |-> <<79>>] }

\* a request with an output and an unknown field of its details; and one
\* with nothing but a version
MCEncWires ==
  { Encode(<<LenF(4, Encode(<<LenF(2, Encode(<<VarF(1, 300), LenF(2, <<5>>)>>)),
                              Unk(20, PROTOBUF_VARINT, 1)>>))>>),
    Encode(<<VarF(1, 1)>>) }

\* status 1 with no message, and status 102 with a message
MCStatuses == { [code |-> 1, msg |-> NULL], [code |-> 102, msg |-> <<79, 75>>] }

MCNonces == {7}

=============================================================================
