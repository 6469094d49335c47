\* One queue with three slots and three items, every request on every clock.
CONSTANTS
  Depth = 3
  Item = {a, b, c}
SPECIFICATION Spec
INVARIANT PointersAgree
PROPERTY ImplementsFifo
