CONSTANTS
  t1 = t1
  t2 = t2
  garbage = garbage
  Tasks = {t1, t2}
  size = 3
  Garbage = garbage
SPECIFICATION Spec
INVARIANTS TypeOK
PROPERTIES IsFifo
