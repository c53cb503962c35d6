CONSTANTS
    d1 = d1  d2 = d2  h1 = h1  h2 = h2
    None = None
    Docs = {d1, d2}
    Handlers = {h1, h2}
    Interval = 2
    LastDay = 2
    Dates = {0}
SPECIFICATION Spec
INVARIANTS
    TypeOK
    EntryOfAgreed
    EntryOnce
    SpacedOut
SYMMETRY Symmetry
