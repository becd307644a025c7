SPECIFICATION Spec
CONSTANT Tests <- MCTests
CHECK_DEADLOCK FALSE
INVARIANT ArithmeticMatches
INVARIANT BranchesMatch
INVARIANT AccessesMatch
