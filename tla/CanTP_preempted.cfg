SPECIFICATION Spec
CONSTANTS
    NrPool = 2
    NULL = NULL
    can_tp_bomb = can_tp_bomb
    Foods <- MCFoods
    Type <- MCType
    Ttl <- MCTtl
    Again <- MCFoods
    PackNr <- MCPackNr
    MaxTransfers = 3
    MaxBus = 2
    Preempted = TRUE
INVARIANTS
    BombWatches
