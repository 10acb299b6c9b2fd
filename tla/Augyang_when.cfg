SPECIFICATION Spec
CONSTANT Lenses <- WhenLenses
INVARIANT WhenResolved
CHECK_DEADLOCK FALSE
