\* Two concurrent requests of every kind.
CONSTANTS
    a = a
    b = b
    c = c
    v = v
    w = w
    NSlots = 2
    Dims = {1, 2, 3, 4}
    SlotOf <- MCSlotOf
    Mcs = {1, 2}
    Codes = {a, b, c}
    Vals = {v, w}
    NNN = NNN
    None = None
    Keep = Keep
    Txs = {t1, t2}
    Kinds <- AllKinds
    Faults = TRUE
    Seeds <- PairSeeds
SPECIFICATION Spec
SYMMETRY Interchangeable
INVARIANTS
    TypeOK CodesComposed ActiveReferences SessionCurrent RecompositionNeverConflicts
    RowLocksAcyclic
PROPERTIES CommitsAreConditional EtagTracksRepresentation ImplementsAtomicCatalog
CHECK_DEADLOCK FALSE
