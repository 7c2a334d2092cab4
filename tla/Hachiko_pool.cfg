SPECIFICATION HachikoSpec
CONSTANTS
    NrPool = 3
    NULL = NULL
    can_heart_beat = can_heart_beat
    can_tp_bomb = can_tp_bomb
    Foods <- MCFoods
    Type <- MCType
    Ttl <- MCTtl
    Again <- MCAgain
INVARIANTS
    PoolTypeOK
    NotLate
PROPERTIES
    NotEarly
    KilledLeaves
