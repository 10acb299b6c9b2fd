SPECIFICATION Spec
CONSTANT Lenses <- MCLenses
INVARIANTS TypeOK Asserted PathsKept NoPathInvented ChoiceTogether OneMandatory WhenResolved UsesResolved GroupingsAgree
PROPERTY Terminates
CHECK_DEADLOCK FALSE
