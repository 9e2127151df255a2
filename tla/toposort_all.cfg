SPECIFICATION Spec
CONSTANTS
  f = f
  g = g
  h = h
  Fns = {f, g, h}
  Named = {f, g}
  Registries <- MCRegistries
INVARIANTS
  TypeOK
  OrderIsTopological
  RejectsExactlyTheUnsortable
CHECK_DEADLOCK FALSE
