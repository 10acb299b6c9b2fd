SPECIFICATION Spec
CONSTANT Lenses <- RoomLenses
INVARIANT Asserted
CHECK_DEADLOCK FALSE
