\* Two code changes and a creation that can wait for each other in a circle.
CONSTANTS
    a = a
    b = b
    c = c
    v = v
    w = w
    NSlots = 2
    Dims = {1, 2, 3}
    SlotOf <- KeySlotOf
    Mcs = {1, 2}
    Codes = {a, b}
    Vals = {v, w}
    NNN = NNN
    None = None
    Keep = Keep
    Txs = {t1, t2, t3}
    Kinds <- KeyKinds
    Faults = FALSE
    Seeds <- KeySeed
SPECIFICATION FairSpec
PROPERTIES EveryRequestEnds
CHECK_DEADLOCK FALSE
