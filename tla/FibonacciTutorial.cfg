SPECIFICATION Spec
INVARIANTS TypeOK ReturnsNext
