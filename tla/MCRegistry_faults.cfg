SPECIFICATION Spec

CONSTANTS
  Tasks = {t1, t2}
  IsDefault = TRUE
  Asked = {"paused", "active"}
  MaxBirths = 2
  Faults = TRUE

INVARIANTS
  TypeOK

PROPERTIES
  GoneUntilCreated
  RefusedUntilChanged

SYMMETRY Symmetry
