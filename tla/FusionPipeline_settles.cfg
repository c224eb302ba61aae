SPECIFICATION FairSpec
CONSTANTS
    radar = radar
    inverted = inverted
    thermal = thermal
    junk = junk
    bad = bad
    cell = cell
    Readings = {radar, junk, bad}
    Cells = {cell}
    Copies = {k1, k2}
    Workers = {w1, w2}
    NoReading = none
    NoCopy = none
    CellOf <- AllCells
    ModalityOf <- ReadingModality
    ScoreOf <- ReadingScore
    FormOf <- ReadingForm
    BatchSize = 2
    MaxReceive = 2
    Threshold = 300
    OperatorStatus = {}
    MaxUpdates = 0
PROPERTIES EveryMessageSettles
CHECK_DEADLOCK FALSE
