CONSTANTS
    Filings <- OneFiling
    Responses <- OneResponse
    Readings <- OneReading
    Retrievals <- OneRetrieval
    Defences = {0}
    Replies <- OneReply
    Selections <- SomeSelections
    None = None
    Reopening = TRUE
    MaxPhases = 3
SPECIFICATION Spec
INVARIANT OrderMeetsFloor
CHECK_DEADLOCK FALSE
