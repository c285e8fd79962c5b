SPECIFICATION Spec
INVARIANTS InstructionsAreExact BuffersAreExact
CHECK_DEADLOCK FALSE
