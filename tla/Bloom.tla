------------------------------- MODULE Bloom --------------------------------
(***************************************************************************)
(* The Bloom filter of src/LWBloomFilter.c: construction with its clamps,  *)
(* insertion, membership, and the serialize/parse round trip a filter      *)
(* takes to a peer.  A filter is a record; its bit array is the set of the  *)
(* indices of its set bits (bit i is bit i % 8 of byte i \div 8), and it    *)
(* becomes bytes only when serialized.  Murmur3-32 is the constant          *)
(* operator Murmur(data, seed); seeds are uint32_t kept modulo SEED_WORD,   *)
(* a scaled 2^32, which the seed arithmetic respects (the low bits of a    *)
(* product and a sum depend only on the low bits of their operands).       *)
(***************************************************************************)
EXTENDS Integers, Sequences, SequencesExt, FiniteSets, FiniteSetsExt

CONSTANTS
  Data,                     \* the data items inserted and queried
  Murmur(_, _),             \* LWMurmur3_32(data, seed)
  SEED_WORD,                \* 2^32, scaled
  HASH_MULT,                \* 0xfba4c795 modulo SEED_WORD
  BLOOM_MAX_FILTER_LENGTH,
  BLOOM_MAX_HASH_FUNCS,
  LN2_NUM, LN2_DEN,         \* M_LN2 as a fraction
  RawLengths,               \* values of the length formula of LWBloomFilterNew
  ElemCounts,               \* its elemCount arguments
  Tweaks,
  MAX_INSERTS               \* bound on elemCount, which only counts

VARIABLES filter, inserted

vars == <<filter, inserted>>

-----------------------------------------------------------------------------
(* LWBloomFilterNew: the length formula (a double, truncated by the        *)
(* assignment to size_t) is one of RawLengths; the clamps and the hash     *)
(* count are the code's.  calloc leaves elemCount 0 and every bit clear.    *)

\* mutant: the length is not clamped to BLOOM_MAX_FILTER_LENGTH
NewFilterNoMax(raw, elemCount, tweak, flags) ==
  LET length == IF raw < 1 THEN 1 ELSE raw
  IN  [length |-> length, bits |-> {},
       hashFuncs |-> (length * 8 * LN2_NUM) \div (elemCount * LN2_DEN),
       tweak |-> tweak, flags |-> flags, elemCount |-> 0]

NewFilter(raw, elemCount, tweak, flags) ==
  LET length == IF raw > BLOOM_MAX_FILTER_LENGTH THEN BLOOM_MAX_FILTER_LENGTH
                ELSE IF raw < 1 THEN 1 ELSE raw
      hf     == (length * 8 * LN2_NUM) \div (elemCount * LN2_DEN)
  IN  [length |-> length, bits |-> {},
       hashFuncs |-> IF hf > BLOOM_MAX_HASH_FUNCS THEN BLOOM_MAX_HASH_FUNCS ELSE hf,
       tweak |-> tweak, flags |-> flags, elemCount |-> 0]

\* _LWBloomFilterHash
Hash(f, d, i) == Murmur(d, (i * HASH_MULT + f.tweak) % SEED_WORD) % (f.length * 8)

\* LWBloomFilterContainsData
ContainsData(f, d) == \A i \in 0..(f.hashFuncs - 1) : Hash(f, d, i) \in f.bits

\* mutant: the bit of the last hash function is not set
InsertDataShort(f, d) ==
  [f EXCEPT !.bits = @ \cup {Hash(f, d, i) : i \in 0..(f.hashFuncs - 2)},
            !.elemCount = @ + 1]

\* LWBloomFilterInsertData
InsertData(f, d) ==
  [f EXCEPT !.bits = @ \cup {Hash(f, d, i) : i \in 0..(f.hashFuncs - 1)},
            !.elemCount = @ + 1]

-----------------------------------------------------------------------------
(* Serialization.  LWVarIntSet and LWVarInt (not under src/) are the       *)
(* Bitcoin var-int: one byte below 0xfd, else 0xfd and two bytes LE.        *)

LE(x, n) == [k \in 1..n |-> (x \div (2 ^ (8 * (k - 1)))) % 256]

GetLE(buf, off, n) == SumSet({buf[off + k] * 2 ^ (8 * (k - 1)) : k \in 1..n})

VarIntBytes(x) == IF x < 253 THEN <<x>> ELSE <<253>> \o LE(x, 2)

\* [value, size] of the var-int at the start of buf; 0 with size 0 when
\* buf is too short
VarIntGet(buf) ==
  IF Len(buf) >= 1 /\ buf[1] < 253 THEN [value |-> buf[1], size |-> 1]
  ELSE IF Len(buf) >= 3 /\ buf[1] = 253 THEN [value |-> GetLE(buf, 1, 2), size |-> 3]
  ELSE [value |-> 0, size |-> 0]

\* the bytes of the bit array
FilterBytes(f) ==
  [k \in 1..f.length |->
     MapThenSumSet(LAMBDA j : 2 ^ j, {j \in 0..7 : 8 * (k - 1) + j \in f.bits})]

\* mutant: the tweak is written before the hash count
SerializeSwapped(f) ==
  VarIntBytes(f.length) \o FilterBytes(f) \o LE(f.tweak, 4) \o LE(f.hashFuncs, 4)
    \o <<f.flags>>

\* LWBloomFilterSerialize
Serialize(f) ==
  VarIntBytes(f.length) \o FilterBytes(f) \o LE(f.hashFuncs, 4) \o LE(f.tweak, 4)
    \o <<f.flags>>

\* LWBloomFilterParse: [ok, filter], ok FALSE for the NULL result (malloc(0)
\* of glibc is not NULL, so a length of 0 parses); the fields after the bit
\* array read 0 when the buffer ends before them
Parse(buf) ==
  LET v    == VarIntGet(buf)
      len  == v.value
      off  == v.size
      Get(o, n) == IF o + n <= Len(buf) THEN GetLE(buf, o, n) ELSE 0
  IN  IF len <= BLOOM_MAX_FILTER_LENGTH /\ off + len <= Len(buf)
      THEN [ok |-> TRUE,
            filter |-> [length |-> len,
                        bits |-> {b \in 0..(8 * len - 1) :
                                   (buf[off + b \div 8 + 1] \div 2 ^ (b % 8)) % 2 = 1},
                        hashFuncs |-> Get(off + len, 4),
                        tweak |-> Get(off + len + 4, 4),
                        flags |-> Get(off + len + 8, 1),
                        elemCount |-> 0]]
      ELSE [ok |-> FALSE]

-----------------------------------------------------------------------------

Init ==
  /\ \E raw \in RawLengths, n \in ElemCounts, t \in Tweaks :
       filter = NewFilter(raw, n, t, 0)
  /\ inserted = {}

\* the filter is rebuilt (LWBloomFilterNew), as the peer manager does
New(raw, n, t) ==
  /\ filter' = NewFilter(raw, n, t, 0)
  /\ inserted' = {}

Insert(d) ==
  /\ filter.elemCount < MAX_INSERTS
  /\ filter' = InsertData(filter, d)
  /\ inserted' = inserted \cup {d}

\* serialized, sent, and parsed on the other side
Reload ==
  /\ filter' = Parse(Serialize(filter)).filter
  /\ UNCHANGED inserted

Next ==
  \/ \E raw \in RawLengths, n \in ElemCounts, t \in Tweaks : New(raw, n, t)
  \/ \E d \in Data : Insert(d)
  \/ Reload

Spec == Init /\ [][Next]_vars

-----------------------------------------------------------------------------
(* Properties.                                                             *)

TypeOK ==
  /\ filter.length \in 1..BLOOM_MAX_FILTER_LENGTH
  /\ filter.bits \subseteq 0..(filter.length * 8 - 1)
  /\ filter.hashFuncs \in 0..BLOOM_MAX_HASH_FUNCS
  /\ inserted \subseteq Data

\* no false negatives: every item inserted since the filter was built is
\* matched by LWBloomFilterContainsData, also after a serialize/parse round
\* trip that must bring back the bit order, the hash count and the tweak
NoFalseNegative == \A d \in inserted : ContainsData(filter, d)

\* LWBloomFilterParse of what LWBloomFilterSerialize writes is the same
\* filter, except for elemCount, which is not serialized
RoundTrip ==
  LET p == Parse(Serialize(filter))
  IN  p.ok /\ p.filter = [filter EXCEPT !.elemCount = 0]

=============================================================================
