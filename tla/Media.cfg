\* Two calls at once on two uploads of two entities and two rows: one key may get both
\* rows, and a row another's key.
SPECIFICATION MediaSpec
CONSTANTS
  Entity = {n1, n2}
  Key = {k1, k2}
  Medium = {m1, m2}
  Editor = {e1, e2}
  None = None
SYMMETRY MediaSymmetry
INVARIANTS
  MediaTypeOK
  ShownIsStored
  ShownForItsEntity
PROPERTIES
  DeletedTogether
CHECK_DEADLOCK FALSE
