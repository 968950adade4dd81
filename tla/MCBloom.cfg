CONSTANTS
  Data = {1, 2, 3}
  Murmur <- MCMurmur
  SEED_WORD = 65536
  HASH_MULT = 51093
  BLOOM_MAX_FILTER_LENGTH = 2
  BLOOM_MAX_HASH_FUNCS = 50
  LN2_NUM = 693147
  LN2_DEN = 1000000
  RawLengths = {0, 1, 3}
  ElemCounts = {2, 3, 20}
  Tweaks = {0, 40000}
  MAX_INSERTS = 3
SPECIFICATION Spec
INVARIANT TypeOK NoFalseNegative RoundTrip
