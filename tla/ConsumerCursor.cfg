CONSTANTS
  Handles = {h1, h2}
  BatchSize = 2
  MaxOffset = 5
  MaxErrors = 2
  None = None
SPECIFICATION Spec
INVARIANTS NothingSkipped RedeliveryBounded
