CONSTANTS
    Filings <- SomeFilings
    Responses <- SomeResponses
    Readings <- SomeReadings
    Retrievals <- SomeRetrievals
    Defences = {0, 55, 100}
    Replies <- SomeReplies
    Selections <- SomeSelections
    None = None
    Reopening = FALSE
    MaxPhases = 2
SPECIFICATION FairSpec
INVARIANTS TypeOK AwardIsFounded BindingIsRoutine OrderIsFounded
PROPERTIES ImplementsAgentRuns JobEnds
CHECK_DEADLOCK FALSE
