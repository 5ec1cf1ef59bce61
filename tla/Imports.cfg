\* Three files for up to two products each, one batch, up to two commits of it at once, and the
\* calls that change the catalogue before, between and after their steps.
SPECIFICATION ImportsSpec
CONSTANTS
  a1 = a1
  x1 = x1
  x2 = x2
  s1 = s1
  s2 = s2
  k1 = k1
  n1 = n1
  n2 = n2
  n3 = n3
  g1 = g1
  g2 = g2
  Category = {k1}
  Attribute = {a1}
  Value = {x1, x2}
  Select = {}
  Brand = {}
  Product = {p1, p2}
  Variant = {v1, v2}
  Name = {n1, n2, n3}
  Slug = {g1, g2}
  Sku = {s1, s2}
  Editor = {e1, e2}
  Batch = {b1}
  File <- Files
  Folded <- Lower
  SlugOf <- Slugs
  None = None
CONSTRAINT ImportsBound
SYMMETRY ImportsSymmetry
INVARIANTS
  ImportsTypeOK
  RulesFollowed
  ValidRowsFit
PROPERTIES
  RecommittedOnlyIfGone
CHECK_DEADLOCK FALSE
