CONSTANTS
    NoValue = NoValue
    TestCases <- MCMalformed
    MaxNesting <- MCMaxNesting
SPECIFICATION Spec
INVARIANT OnlyParseErrors
