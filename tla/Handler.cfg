SPECIFICATION Spec
CONSTANTS
    Goroutines = {g1, g2}
    Records = {r1, r2, r3}
    Writers = {w1, w2, w3}
    MaxHandlers = 3
    Sinks = {s1}
CHECK_DEADLOCK FALSE
SYMMETRY Symmetry
INVARIANT
    RecordsAreWhole
