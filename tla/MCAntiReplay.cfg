SPECIFICATION Spec
CONSTANTS
    WordBits = 3
    MaxSeq = 11
    MaxRejects = 2
INVARIANTS
    WindowExact
PROPERTY
    ImplementsFilter
