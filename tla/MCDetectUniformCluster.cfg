\* Every list of up to two nodes and both outcomes of List.
CONSTANTS
    MaxNodes = 2
SPECIFICATION Spec
INVARIANT UniformClusterDetected
