SPECIFICATION Spec
CONSTANTS
    Inputs <- MCInputs
    Chunks = 2
INVARIANTS
    DockerExportRefused
