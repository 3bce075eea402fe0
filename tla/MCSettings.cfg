SPECIFICATION Spec
CONSTANTS
    None = None
    Failed = Failed
    Panicked = Panicked
    Files <- MCFiles
    Envs <- MCEnvs
    Machines <- MCMachines
INVARIANTS
    AddressAsConfigured
    FailureHasCause
    ComesUpAsConfigured
CHECK_DEADLOCK FALSE
