\* Every history of up to MaxChanges mutations over two seeds.
CONSTANTS
    a = a
    b = b
    v = v
    w = w
    NSlots = 2
    Dims = {1, 2, 3}
    SlotOf <- MCSlotOf
    Mcs = {1, 2}
    Codes = {a, b}
    Vals = {v, w}
    NNN = NNN
    None = None
    Times = {1, 2}
    MaxChanges = 3
    Seeds <- MCSeeds
SPECIFICATION AuditSpec
INVARIANTS RowsReplayFromLogs RecompositionsExplained
PROPERTIES TriggersAccept LogsImplementCatalog
CHECK_DEADLOCK FALSE
