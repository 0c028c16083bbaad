CONSTANTS
  a = a
  b = b
  t = 7
  sizeQ = 4
  qModt <- MCQ4
  Reg <- MCReg
  Value <- MCValue
  Techniques = {"FLEXIBLEAUTO"}
  PlainLevel <- MCTop
  MaxDegree = 3
  MaxDepth = 3
  Aliased = TRUE
SPECIFICATION Spec
SYMMETRY Symmetric
INVARIANT Decodes
