SPECIFICATION Spec
CONSTANTS
  MaxChain = 5
  MaxRetries = 2
INVARIANTS
  OrderRestoredUnlessRetriedBetween
  BothVerifiedUnlessRetriedBetween
