\* One miner more than the registry has places.
CONSTANTS
    Miners = {c1, c2, c3}
    History = 2
    SeqRange = 4
    MaxWork = 1
    MaxAsked = 3
SPECIFICATION Spec
INVARIANTS
    AbsentIsStale
