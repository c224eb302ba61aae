SPECIFICATION Spec
CONSTANTS
    radar = radar
    inverted = inverted
    thermal = thermal
    junk = junk
    bad = bad
    cell = cell
    Readings = {radar, thermal, inverted}
    Cells = {cell}
    Copies = {k1, k2}
    Workers = {w1, w2}
    NoReading = none
    NoCopy = none
    CellOf <- AllCells
    ModalityOf <- ReadingModality
    ScoreOf <- ReadingScore
    FormOf <- ReadingForm
    BatchSize = 2
    MaxReceive = 2
    Threshold = 700
    OperatorStatus = {"confirmed"}
    MaxUpdates = 1
SYMMETRY Symmetry
INVARIANTS TypeOK EveryReadingAccountedFor ItemsAreConsistent AlertsAreCorroborated
    AlertAttemptedBeforeAck ExactWithoutOverlap
CHECK_DEADLOCK FALSE
