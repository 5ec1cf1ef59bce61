\* Two staff calls, at once or one after the other, on one category with one attribute
\* of two options and one product; two variants, so that one can be the last.
SPECIFICATION CatalogSpec
CONSTANTS
  Category = {k1}
  Attribute = {a1}
  Value = {x1, x2}
  Select = {a1}
  Brand = {b1}
  Product = {p1}
  Variant = {v1, v2}
  Name = {n1}
  Slug = {g1}
  Sku = {s1, s2}
  Editor = {e1, e2}
  None = None
CONSTRAINT CatalogBound
SYMMETRY CatalogSymmetry
INVARIANTS
  CatalogTypeOK
  RulesFollowed
PROPERTIES
  RemovalsAreGuarded
CHECK_DEADLOCK FALSE
