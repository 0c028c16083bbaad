CONSTANTS
  a = a
  b = b
  t = 7
  sizeQ = 4
  qModt <- MCQ4
  Reg <- MCReg
  Value <- MCValue
  Techniques <- Technique
  PlainLevel <- MCLevels
  MaxDegree = 3
  MaxDepth = 4
  Aliased = FALSE
SPECIFICATION Spec
SYMMETRY Symmetric
INVARIANT TypeOK
INVARIANT Decodes
INVARIANT SameScale
INVARIANT AdjustedAgree
INVARIANT DepthSuffices
