CONSTANTS
    Targets <- MCTargets
    NoTarget = NoTarget
    MaxHits <- MCMaxHits
    RecursionHits <- MCRecursionHits
SPECIFICATION Spec
INVARIANTS
    ToolchainAbsentSkips
