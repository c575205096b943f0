CONSTANTS
    NoUser = NoUser
    Requests <- MCRequests
    MaxRequests <- MCMaxRequests
SPECIFICATION Spec
INVARIANTS TypeOK ErrorsCounted
