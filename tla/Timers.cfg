\* The timers of the scheduler in their trees.  IntBits is small but as wide
\* as the deadlines need; Block is short by one node.
CONSTANTS
  Nil = Nil
  None = None
  Coro = {1, 2, 3, 4, 5, 6}
  Block = {b1, b2, b3}
  Setups <- MCSetups
  IntBits = 4
SPECIFICATION Spec
INVARIANTS TreesAreSound TimespanIsNearest
PROPERTY ImplementsTimerSet
