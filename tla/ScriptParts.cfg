CONSTANTS
    a1 = a1
    a2 = a2
    b1 = b1
    b2 = b2
    k1 = k1
    k2 = k2
    d1 = d1
    d2 = d2
    f1 = f1
    f2 = f2
    v1 = v1
    v2 = v2
    t1 = t1
    t2 = t2
    w1 = w1
    won = won
    lost = lost
    A = {a1, a2}
    B = {b1, b2}
    None = None
    Missing = Missing
    Torn = Torn
    MaxStarts = 2
    MaxKills = 1
    MaxEdits = 1
    Judgments = {d1}
    Mirror = {d1}
    Orders = {d2}
    Complex <- SomeComplex
    Categories = {contract, debt}
    PerCategory = 1
    FactWorkers = 2
    Every = 1
    CaseIds = {k1, k2}
    Facts = {f1, f2}
    Codes = {v1, v2}
    Rests = {t1, t2}
    Outputs = {won, lost}
    Scripted <- FollowsCodeOrFacts
    JudgeWorkers = 2
    JudgeAnswers <- SomeJudgements
    Decided <- SomeDecided
    MaxVersions = 2
    Keys = {k1}
    EnTexts <- SomeTexts
    Papers = {d1, d2}
    Contents <- SomeContents
    Words = {w1}
    ModelAnswers <- SomeAnswers
    MaxChecks = 2
    Claims <- SomeClaims
    Replies <- SomeReplies
    Readings <- SomeReadings
    MaxCases = 2
SPECIFICATION MCSpec
SYMMETRY Symmetry
CHECK_DEADLOCK FALSE
INVARIANTS StringsAreChecked FindingsRestOnDocuments PleadingsAreReadAlike
PROPERTIES SourcingIsSound FactsAreKept VerdictsAreCurrent LabelsAreComparable
