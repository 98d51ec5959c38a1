SPECIFICATION Spec
CONSTANTS
    Program <- Small
INVARIANTS
    SequentialResults
    ReadsInitialised
    SpawnsAccepted
    MovesInOrder
