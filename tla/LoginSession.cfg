SPECIFICATION Spec
CONSTANTS
    Calls = {c1, c2, c3}
    TTL = 2
    Grace = 1
    End = 3
    MaxTime = 3
    MaxVersion = 2
    Faults = {"read", "fill", "fence", "final", "tx"}
SYMMETRY Symmetry
INVARIANTS
    TypeOK RevokedStaysOut OneWinner
CHECK_DEADLOCK FALSE
