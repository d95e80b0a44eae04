CONSTANTS
  a = a
  b = b
  N = 4
  Item <- MCItem
  NoItem = NoItem
SPECIFICATION Spec
INVARIANTS TypeOK FreeListComplete
PROPERTIES ImplementsHandleMap
