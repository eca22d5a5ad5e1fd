\* Two transactions, reviews of one request or direct changes of its target.
CONSTANTS
    a = a
    b = b
    v = v
    NSlots = 2
    Dims = {1, 2}
    SlotOf <- DeskSlotOf
    Mcs = {1, 2}
    Codes = {a, b}
    Vals = {v}
    NNN = NNN
    None = None
    Keep = Keep
    Inline = Inline
    Txs = {t1, t2}
    Requests = {r1}
    Kinds <- DeskKinds
    Faults = TRUE
    Seeds <- DeskSeeds
SPECIFICATION ReviewSpec
SYMMETRY Interchangeable
INVARIANTS AppliedExactlyOnce
PROPERTIES ApprovalsAreCurrent RequestTableAccepts
CHECK_DEADLOCK FALSE
