CONSTANTS
    Argcs = {1, 2, 3}

SPECIFICATION Spec

\* Every app is destroyed, or a fault ended the process: nothing is left to
\* step.
CHECK_DEADLOCK FALSE

INVARIANT PerfReadsGivenArgs
