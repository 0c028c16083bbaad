CONSTANTS
  a = a
  b = b
  t = 7
  sizeQ = 4
  qModt <- MCQ4
  Reg <- MCReg
  Value <- MCValue
  Techniques = {"FLEXIBLEAUTOEXT"}
  PlainLevel <- MCLast
  MaxDegree = 3
  MaxDepth = 6
  Aliased = FALSE
SPECIFICATION Spec
SYMMETRY Symmetric
INVARIANT Decodes
