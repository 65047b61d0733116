SPECIFICATION Spec
CONSTANTS
  e1 = e1
  e2 = e2
  Entries = {e1, e2, e3}
  Keys = {1, 2}
  KeyOf <- MCKeyOf
  Sizes = {0, 1, 2, 3}
  NULL = NULL
INVARIANTS
  ChainsAgree
PROPERTIES
  LruSpec
