CONSTANTS
    Workers = {w1, w2}
    LineCapacity = 3
    FieldCounts = {0, 2, 3, 4}
    NoPosition = NoPosition
    NoToken = NoToken
    Garbage = Garbage
SPECIFICATION Spec
INVARIANTS ParsedFieldsAreOwn
