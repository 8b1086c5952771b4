\* Threshold stands for the 10000-decree gap; with Capacity 3 and six
\* commits the prepare list drops decrees a running checkpoint skipped.
CONSTANTS
    Threshold = 2
    Capacity = 3
    MaxDecree = 6

SPECIFICATION Spec

INVARIANT TypeOK
INVARIANT AppCaughtUpWhenIdle
PROPERTY CheckpointTerminates
PROPERTY CheckpointRefinement
