CONSTANTS
    Workers = {ours}
    Ours = ours
    TableSize = 2
    MaxInt = 2
    HistoryLength = 3
    Sizes = {1, 2}
    Room = 4
    MaxChunks = 1
SPECIFICATION Spec
INVARIANTS AiIsAskedWhileAvailable
