CONSTANTS
    Ids = {q1, q2}
    MaxRequest = 2
    MaxContent = 2
    MaxRecords = 6
    NoRequest = NoRequest
    Streams <- MCStreams
    Units <- MCUnits
    MaxHeaders = 6
    MaxBlock = 3
    MaxDigits = 3
SPECIFICATION HandlerSpec
SYMMETRY Symmetry
CHECK_DEADLOCK FALSE
INVARIANTS
    AnswersAsMeant
    EndsAsMeant
    HttpAsMeant
    ScgiAsMeant
