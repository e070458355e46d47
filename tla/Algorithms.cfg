SPECIFICATION AlgorithmSpec
INVARIANT RegionsFollowEvidence
INVARIANT BlocksDoNotShow
INVARIANT EvidenceIsStable
INVARIANT ScoresAreTrue
INVARIANT AuthorityIsEarned
INVARIANT ConformalIsFair
INVARIANT GraphRescueStands
INVARIANT OracleIsOptimal
CHECK_DEADLOCK FALSE
