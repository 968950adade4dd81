--------------------------- MODULE ProtoBuf -----------------------------------
(***************************************************************************)
(* The protobuf codec at the top of src/LWPaymentProtocol.c: var-ints,     *)
(* fixed and length-delimited values, fields, and the unknown-field array  *)
(* that every message keeps so that it can write back what it did not      *)
(* understand.  Bytes are integers 0..255 and buffers are sequences of     *)
(* them; a field key is field number * 8 + wire type, as on the wire.      *)
(* NULL stands for a NULL data pointer.  Var-ints hold small values here,   *)
(* so the uint64_t arithmetic of the reader never wraps; a key can still   *)
(* take up to three bytes.                                                 *)
(***************************************************************************)
EXTENDS Integers, Sequences, SequencesExt, FiniteSets

CONSTANTS
  StackBytes,   \* what an uninitialized byte of the stack buffer can hold
  NULL

ASSUME NULL \notin Seq(0..255)
ASSUME StackBytes \subseteq 0..255 /\ StackBytes # {}

PROTOBUF_VARINT   == 0
PROTOBUF_64BIT    == 1
PROTOBUF_LENDELIM == 2
PROTOBUF_32BIT    == 5

-----------------------------------------------------------------------------
(* Wire primitives.  A reader takes the buffer, its length and an offset   *)
(* (the number of bytes consumed) and returns what it read with the new    *)
(* offset, which may lie past the length as *off does in the code.         *)

\* _ProtoBufVarInt: 0 when the buffer ends while the high bit is still set
RECURSIVE VarIntLoop(_, _, _, _, _)
VarIntLoop(buf, len, off, acc, i) ==
  IF off >= len THEN [value |-> 0, off |-> off]
  ELSE LET b == buf[off + 1]
           v == acc + (b % 128) * 128 ^ i
       IN  IF b >= 128 THEN VarIntLoop(buf, len, off + 1, v, i + 1)
           ELSE [value |-> v, off |-> off + 1]

VarInt(buf, len, off) == VarIntLoop(buf, len, off, 0, 0)

RECURSIVE SetVarInt(_)

\* mutant: the low seven bits are not masked
SetVarIntNoMask(i) ==
  IF i < 128 THEN <<i>> ELSE <<i + 128>> \o SetVarInt(i \div 128)

\* _ProtoBufSetVarInt: seven bits a byte, low first, high bit on all but the last
SetVarInt(i) ==
  IF i < 128 THEN <<i>> ELSE <<(i % 128) + 128>> \o SetVarInt(i \div 128)

\* a little-endian value, as memcpy into a uint64_t reads it
RECURSIVE LEValue(_)
LEValue(s) == IF s = <<>> THEN 0 ELSE Head(s) + 256 * LEValue(Tail(s))

RECURSIVE LEBytes(_, _)
LEBytes(i, n) == IF n = 0 THEN <<>> ELSE <<i % 256>> \o LEBytes(i \div 256, n - 1)

\* _ProtoBufFixed: 0 when the buffer is too short, the offset moves anyway
Fixed(buf, len, off, size) ==
  [value |-> IF off + size <= len THEN LEValue(SubSeq(buf, off + 1, off + size)) ELSE 0,
   off   |-> off + size]

\* _ProtoBufLenDelim after the length n was read: data is NULL when it
\* does not fit in the buffer
LenDelimData(buf, len, n) ==
  [data |-> IF n.off + n.value <= len THEN SubSeq(buf, n.off + 1, n.off + n.value) ELSE NULL,
   len  |-> n.value,
   off  |-> n.off + n.value]

LenDelim(buf, len, off) == LenDelimData(buf, len, VarInt(buf, len, off))

\* _ProtoBufField after the key k was read: the value by its wire type;
\* data is set only for LENDELIM and len changed only for it
FieldValue(buf, len, k) ==
  CASE k.value % 8 = PROTOBUF_VARINT   -> VarInt(buf, len, k.off) @@ [data |-> NULL, len |-> len]
    [] k.value % 8 = PROTOBUF_64BIT    -> Fixed(buf, len, k.off, 8) @@ [data |-> NULL, len |-> len]
    [] k.value % 8 = PROTOBUF_32BIT    -> Fixed(buf, len, k.off, 4) @@ [data |-> NULL, len |-> len]
    [] k.value % 8 = PROTOBUF_LENDELIM -> LenDelim(buf, len, k.off) @@ [value |-> 0]
    [] OTHER -> [value |-> 0, data |-> NULL, len |-> len, off |-> k.off]

\* _ProtoBufField: key, i, data, len and offset
FieldOf(key, v) == [key |-> key, i |-> v.value, data |-> v.data, len |-> v.len, off |-> v.off]

Field(buf, len, off) ==
  LET k == VarInt(buf, len, off) IN FieldOf(k.value, FieldValue(buf, len, k))

\* _ProtoBufSetInt
SetInt(i, key) == SetVarInt(key * 8 + PROTOBUF_VARINT) \o SetVarInt(i)

\* _ProtoBufSetBytes and _ProtoBufSetLenDelim, for a non-NULL array
SetBytes(bytes, key) == SetVarInt(key * 8 + PROTOBUF_LENDELIM) \o SetVarInt(Len(bytes)) \o bytes

\* strlen: the bytes of a string before its first zero byte
CString(str) ==
  LET zeros == {k \in DOMAIN str : str[k] = 0}
  IN  IF zeros = {} THEN str ELSE SubSeq(str, 1, Min(zeros) - 1)

\* _ProtoBufSetString
SetString(str, key) == SetBytes(CString(str), key)

\* _ProtoBufString and _ProtoBufBytes: the array s becomes a copy of the
\* data, unless the data pointer is NULL and the length is not 0
CopyData(s, data, len) ==
  IF data # NULL THEN data ELSE IF len = 0 THEN <<>> ELSE s

-----------------------------------------------------------------------------
(* The unknown-field array: _ProtoBufUnknown.                              *)

\* the bytes _ProtoBufUnknown writes for a field, when its buffer is large
\* enough; the value of a fixed or length-delimited field is one memcpy,
\* made whole or not at all, which starts after the first atomic bytes
FieldImage(key, i, data, dataLen) ==
  LET wt == key % 8
      \* the value written whole, and the one written by a single memcpy
      whole == CASE wt = PROTOBUF_VARINT -> SetVarInt(i)
                 [] wt = PROTOBUF_LENDELIM /\ data # NULL -> SetVarInt(dataLen)
                 [] wt = PROTOBUF_LENDELIM /\ dataLen = 0 -> <<0>>
                 [] OTHER -> <<>>
      copied == CASE wt = PROTOBUF_64BIT -> LEBytes(i, 8)
                  [] wt = PROTOBUF_32BIT -> LEBytes(i, 4)
                  [] wt = PROTOBUF_LENDELIM /\ data # NULL -> data
                  [] OTHER -> <<>>
  IN  [bytes |-> SetVarInt(key) \o whole \o copied, atomic |-> Len(SetVarInt(key) \o whole)]

\* the field as inserted: the stack buffer has 10 bytes plus the data
\* length, the writers skip what does not fit, and the inserted length is
\* the smaller of the buffer and what was written; a skipped memcpy leaves
\* its bytes uninitialized, each holding g
UnknownFit(img, bufLen, g) ==
  [k \in 1..(IF Len(img.bytes) < bufLen THEN Len(img.bytes) ELSE bufLen) |->
     IF k <= img.atomic \/ Len(img.bytes) <= bufLen THEN img.bytes[k] ELSE g]

UnknownBuf(key, i, data, dataLen, g) ==
  UnknownFit(FieldImage(key, i, data, dataLen),
             10 + (IF key % 8 = PROTOBUF_LENDELIM THEN dataLen ELSE 0), g)

\* the field f read at off removed from u, the insertion point at off
Removed(u, off, f) == [u |-> SubSeq(u, 1, off) \o SubSeq(u, f.off + 1, Len(u)), o |-> off]

\* mutant: a field with a greater key is removed as well
RECURSIVE UnknownScanRemoveGreater(_, _, _, _), RemoveGreaterStep(_, _, _, _)
RemoveGreaterStep(u, key, off, f) ==
  IF f.key >= key THEN Removed(u, off, f) ELSE UnknownScanRemoveGreater(u, key, f.off, off)

UnknownScanRemoveGreater(u, key, off, o) ==
  IF off >= Len(u) THEN [u |-> u, o |-> o]
  ELSE RemoveGreaterStep(u, key, off, Field(u, Len(u), off))

\* the while loop of _ProtoBufUnknown from offset off: o is the start of the
\* last field read; a field with the same key is removed, and the loop
\* stops at the first key not below the new one
RECURSIVE UnknownScan(_, _, _, _), UnknownScanStep(_, _, _, _)
UnknownScanStep(u, key, off, f) ==
  CASE f.key = key -> Removed(u, off, f)
    [] f.key > key -> [u |-> u, o |-> off]
    [] OTHER       -> UnknownScan(u, key, f.off, off)

UnknownScan(u, key, off, o) ==
  IF off >= Len(u) THEN [u |-> u, o |-> o]
  ELSE UnknownScanStep(u, key, off, Field(u, Len(u), off))

\* array_insert_array(*unknown, o, buf, bufLen)
Inserted(s, b) == SubSeq(s.u, 1, s.o) \o b \o SubSeq(s.u, s.o + 1, Len(s.u))

\* _ProtoBufUnknown: the field is inserted at o
Unknown(u, key, i, data, dataLen, g) ==
  Inserted(UnknownScan(u, key, 0, 0), UnknownBuf(key, i, data, dataLen, g))

-----------------------------------------------------------------------------
(* A reference reading of a buffer: its fields in order, as a protobuf     *)
(* reader that keeps every field sees them.                                *)

RECURSIVE FieldsFrom(_, _), FieldsStep(_, _)
FieldsStep(buf, f) == <<[key |-> f.key, i |-> f.i, data |-> f.data]>> \o FieldsFrom(buf, f.off)

FieldsFrom(buf, off) == IF off >= Len(buf) THEN <<>> ELSE FieldsStep(buf, Field(buf, Len(buf), off))

FieldsOf(buf) == FieldsFrom(buf, 0)

\* the fields of buf whose number is not in Known, each the last of its key
LastUnknown(buf, Known) ==
  LET fs == FieldsOf(buf)
  IN  {fs[j] : j \in {j \in DOMAIN fs : fs[j].key \div 8 \notin Known
                                       /\ \A l \in (j + 1)..Len(fs) : fs[l].key # fs[j].key}}

=============================================================================
