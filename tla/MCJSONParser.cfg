CONSTANTS
    NoValue = NoValue
    TestCases <- MCTestCases
    MaxNesting <- MCMaxNesting
SPECIFICATION Spec
INVARIANTS TypeOK RoundTrip
