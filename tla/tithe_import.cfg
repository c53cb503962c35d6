CONSTANTS
    b1 = b1  b2 = b2  p1 = p1  w1 = w1  w2 = w2  q1 = q1  q2 = q2
    None = None
    Batches = {b1, b2}
    Payments = {p1}
    Workers = {w1, w2}
    Reviews = {q1, q2}
    Files <- SameTwice
    MaxTries = 2
    MaxStalls = 1
    MaxFaults = 2
SPECIFICATION Spec
INVARIANTS
    TypeOK
    RecordedOncePerBatch
    RecordedTwiceOnlyInRace
    EveryRowHasOutcome
    ResolvedHasRecord
    AcceptedOnce
PROPERTY CompletedStays
SYMMETRY Symmetry
CHECK_DEADLOCK FALSE
