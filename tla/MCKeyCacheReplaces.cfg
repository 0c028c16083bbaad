SPECIFICATION Spec
CONSTANTS
  p1 = p1
  p2 = p2
  Param = {p1, p2}
  Tag <- MCTag
  Index <- MCIndex
  MaxReleases = 1
SYMMETRY Symmetric
PROPERTY Replaces
