SPECIFICATION Spec
CONSTANTS
  N = 4
  K = 2
  Values = {a, b}
  Blank = Blank
INVARIANTS
  TypeOK
  CachedViewsAreSafe
  NoOverwrite
PROPERTY FifoSpec
