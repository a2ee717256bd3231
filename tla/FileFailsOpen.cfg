SPECIFICATION Spec
SYMMETRY Symmetry
CONSTANTS
  t1 = t1
  t2 = t2
  place = place
  rate = rate
  missing = missing
  Tasks = {t1, t2}
  Known <- MCKnown
  Missing = {missing}
  RateIds = {rate}
  Lists <- MCLists
  Slots = 1
  Declared = {place}
  Origins = {"file"}
INVARIANTS
  DeclaredBlocks
