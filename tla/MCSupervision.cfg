SPECIFICATION Spec
CONSTANTS
    Configs <- MCConfigs
    MaxFailures = 2
INVARIANTS TypeOK StopLeavesNothing
PROPERTIES StopCompletes ComesBack
