SPECIFICATION Spec
CONSTANT Tests <- MCTests
CHECK_DEADLOCK FALSE
INVARIANT NativeMatchesInterpreter
