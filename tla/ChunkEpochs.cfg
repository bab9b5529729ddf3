SPECIFICATION Spec
CONSTANTS
    Writers = {w1, w2, w3}
    Epochs = {1, 2, 3, 4, 5}
    MaxPuts = 5
SYMMETRY Symmetry
CHECK_DEADLOCK FALSE
INVARIANT
    FirstIsEarliest
PROPERTY
    EndNeverFalls
