\* Every config file with up to two AgentConfig objects of at most one pin
\* and one CA cert path, and every outcome of the library calls.
CONSTANTS
    Nil = Nil
    MaxItems = 1
    MaxObjects = 2
SPECIFICATION Spec
INVARIANT TokenBootstrapHasTrust
