\* Two staff calls, at once or one after the other, on up to three categories:
\* subtrees are built, moved about and taken down.
SPECIFICATION Spec
CONSTANTS
  Category = {k1, k2, k3}
  Editor = {e1, e2}
  MaxDepth = 4
  None = None
SYMMETRY CategoriesSymmetry
INVARIANTS
  PathsFollowTree
  NoCycle
  PathEndsInSelf
CHECK_DEADLOCK FALSE
