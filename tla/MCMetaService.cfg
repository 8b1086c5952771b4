CONSTANTS
    g1 = g1
    c1 = c1
    c2 = c2
    NoCfg = NoCfg
    Zero = Zero
    Gpids <- MCGpids
    Ballots <- MCBallots
    Cfgs <- MCCfgs
    MaxWrites = 3
    MaxCrashes = 2
    Self = m1


SPECIFICATION Spec

INVARIANT TypeOK
INVARIANT AckedIsDurable
INVARIANT RecoveredBallotsMatch
INVARIANT QueriesSeeAcked
PROPERTY UpdatesAnswered
PROPERTY ConfigLogRefinement
