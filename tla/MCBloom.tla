------------------------------ MODULE MCBloom -------------------------------
EXTENDS Bloom

\* a stand-in for LWMurmur3_32 on 16-bit seeds: it mixes the seed and the
\* data so that the hash functions of one item hit different bits
MCMurmur(d, seed) ==
  LET h1 == (d * 40503 + seed) % 65536
      h2 == (h1 * 29791) % 65536
  IN  (h2 + h2 \div 256) % 65536

=============================================================================
