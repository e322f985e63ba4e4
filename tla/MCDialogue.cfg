CONSTANTS
    Workers = {ours, other}
    Ours = ours
    TableSize = 2
    MaxInt = 1
    HistoryLength = 3
    Sizes = {1, 2}
    Room = 4
    MaxChunks = 1
SPECIFICATION FairSpec
INVARIANTS TypeOK EverythingReleasedOnce OnlyTextPassesForAnswer
    AiAnswersTheUtterance TestModeHasACause EntriesInTable
PROPERTIES EveryUtteranceIsAnswered
