CONSTANTS
  Entities = {e1, e2, e3}
  MaxPos = 4
  MaxSize = 2
  ScanLimit = 3
SYMMETRY Symmetry
SPECIFICATION Spec
INVARIANTS
  TypeOK
  NoFalseNegative
  EntitiesChangedComplete
  AnyChangeSeen
  LastChangeIsUpperBound
  Inv
PROPERTY
  HorizonNeverFalls
