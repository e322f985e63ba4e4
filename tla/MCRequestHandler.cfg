CONSTANTS
    Workers = {w1, w2}
    LineCapacity = 2
    FieldCounts = {0, 3, 4}
    NoPosition = NoPosition
    NoToken = NoToken
    Garbage = Garbage
SPECIFICATION FairSpec
INVARIANTS TypeOK ClosedOnceAndNothingKept ReplyFitsRequest
PROPERTIES EndsUnlessFedCarriageReturns
