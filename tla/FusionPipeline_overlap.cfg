SPECIFICATION Spec
CONSTANTS
    radar = radar
    inverted = inverted
    thermal = thermal
    junk = junk
    bad = bad
    cell = cell
    Readings = {radar, thermal, bad}
    Cells = {cell}
    Copies = {k1, k2, k3}
    Workers = {w1, w2}
    NoReading = none
    NoCopy = none
    CellOf <- AllCells
    ModalityOf <- ReadingModality
    ScoreOf <- ReadingScore
    FormOf <- ReadingForm
    BatchSize = 2
    MaxReceive = 3
    Threshold = 700
    OperatorStatus = {"confirmed"}
    MaxUpdates = 1
SYMMETRY Symmetry
INVARIANTS NothingReverted
CHECK_DEADLOCK FALSE
