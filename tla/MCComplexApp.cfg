CONSTANT Depth <- MCDepth
SPECIFICATION Spec
INVARIANTS TypeOK RecursionStops
PROPERTIES FinishedIsLast
