SPECIFICATION PathSpec
CONSTANT Rows = 7
INVARIANTS TypeOK SpotsAgree OneBox
PROPERTIES LegsInOrder LandsAsComputed
