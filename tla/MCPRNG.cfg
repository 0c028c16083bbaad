SPECIFICATION Spec
CONSTANTS
  t1 = t1
  t2 = t2
  s1 = s1
  s2 = s2
  s3 = s3
  s4 = s4
  Thread = {t1, t2}
  Seed = {s1, s2, s3, s4}
  PRNG_BUFFER_SIZE = 3
  attempts = 3
  nullptr = nullptr
  MaxBlocks = 2
SYMMETRY Symmetric
INVARIANT Inv
PROPERTY NoRepeat ImplementsStreams
