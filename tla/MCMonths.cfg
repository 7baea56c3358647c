SPECIFICATION MCSpec
CONSTANT Parts = {"find", "refused", "iterate"}
INVARIANTS FindExact IteratesExactly
CHECK_DEADLOCK FALSE
