CONSTANTS
    g1 = g1
    c1 = c1
    c2 = c2
    NoCfg = NoCfg
    Zero = Zero
    NodeA = NodeA
    NodeB = NodeB
    Gpids <- MCGpids
    Ballots <- MCBallots
    Cfgs <- MCCfgs
    MaxWrites = 1
    MaxCrashes = 0

SPECIFICATION Spec

INVARIANT ConfigAgreement
