SPECIFICATION AlgorithmSpec
INVARIANT CanonicalIsBetween
CHECK_DEADLOCK FALSE
