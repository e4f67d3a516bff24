CONSTANTS
    A = {a1, a2}
    B = {b1, b2}
    None = None
    Unreadable = Unreadable
    Unread = Unread
    Torn = Torn
    Users = {u1}
    Browsers = {p1}
    MaxTokens = 3
    MaxTokensOfResets = 2
    MaxLinks = 1
    Emails = {e1}
    Phones = {p1}
    Endpoints = {x1}
    OtpLimit = 1
    AttemptLimit = 1
    LoginLimit = 1
    IpLimit = 1
    CallLimit = 1
    MaxAccounts = 2
    MaxCodes = 2
    MaxGuesses = 2
    Ops = {"signup_email", "signup_phone", "login_phone", "link_phone", "login_email", "call"}
    LimitOps = {"login_email", "login_phone", "call"}
    Texts = {k1, k2}
    Chunks <- SomeChunks
    MaxMemory = 1
    Lifetime = 1
    Events = {h1, h2}
    MaxRows = 4
    MaxLegacy = 1
    MaxChanges = 1
    FileKinds = {"native", "scanned", "long", "image", "audio"}
    Configured = TRUE
    Tesseract = TRUE
    ServiceThreshold = 1
    Types = {x1, x2, x3}
    Active = {x1, x2}
    Readers = {u1}
    English = en
    MaxVersions = 2
    MaxRuns = 3
    Snapshots <- SomeSnapshots
    Models = {m1, m2}
    CorpusSize = 2
    MaxEdits = 1
    CallKinds = {"text", "stream", "translate"}
    Setting = "auto"
    CallThreshold = 2
    Cooldown = 2
    Attempts = 2
SPECIFICATION MCSpec
SYMMETRY Symmetry
CHECK_DEADLOCK FALSE
INVARIANTS AccountsAreSound ExtractionIsExplained ViewsAreOfOneMoment RankingsAreFounded
PROPERTIES SessionsRotate TranslationsAreWhole AuditsAreTrue ReviewsAreFair DecisionsStand OutageIsContained
