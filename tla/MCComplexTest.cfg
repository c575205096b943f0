CONSTANTS
    MaxN <- MCMaxN
    Ages <- MCAges
    MaxPeople <- MCMaxPeople
SPECIFICATION Spec
INVARIANTS TypeOK ResultsCorrect
