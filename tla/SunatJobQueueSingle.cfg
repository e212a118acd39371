\* One worker process at a time; w3 is never killed.
SPECIFICATION FairSpec
CONSTANTS
    Jobs = {j1, j2}
    Workers = {w1, w2, w3}
    MaxAttempts = 2
    MaxAlive = 1
    Mortal = {w1, w2}
    Nobody = Nobody
INVARIANTS
    TypeOK
    LeaseHeld
PROPERTIES
    SettledIsFinal
    EverySettles
