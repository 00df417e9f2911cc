\* Two miners that come, go, and subscribe and authorize again, work that changes told
\* or not, and a registry with room for a round and one handshake, of the two that may
\* overlap in a round.
CONSTANTS
    Miners = {c1, c2}
    History = 3
    SeqRange = 4
    MaxWork = 1
    MaxAsked = 1
SPECIFICATION FairSpec
INVARIANTS
    NoRefreshLost
    KnownWhileThereIsRoom
PROPERTIES
    JobsComeInOrder
    StaleJobIsReplaced
