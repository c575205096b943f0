CONSTANTS
    Values <- MCValues
    MaxNodes <- MCMaxNodes
SPECIFICATION Spec
INVARIANT TypeOK
PROPERTY ImplementsList
