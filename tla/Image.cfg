SPECIFICATION Spec
INVARIANTS LoadsAreWhole ExportsAreFound LinksAreRight FixupsAreExact
CHECK_DEADLOCK FALSE
