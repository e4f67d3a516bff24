----------------------------- MODULE MCServerParts -----------------------------
(***************************************************************************)
(* The server's parts that share no state, checked side by side: `part`    *)
(* says which one a behaviour is about, and the others stay as they begin. *)
(***************************************************************************)
EXTENDS Integers, Sequences, FiniteSets, TLC

CONSTANTS
    A, B,               \* whatever a part has two of: threads, requests, documents, cases
    None, Unreadable, Unread, Torn,
    Users, Browsers, MaxTokens, MaxTokensOfResets, MaxLinks,              \* sessions
    Emails, Phones, Endpoints, OtpLimit, AttemptLimit, LoginLimit, IpLimit, CallLimit,
    MaxAccounts, MaxCodes, MaxGuesses, Ops, LimitOps,                     \* codes
    Texts, Chunks, MaxMemory, Lifetime,                                   \* translations
    Events, MaxRows, MaxLegacy, MaxChanges,                               \* chain
    FileKinds, Configured, Tesseract, ServiceThreshold,                   \* documents
    Types, Active,                                                        \* review
    Readers, English, MaxVersions,                                        \* views
    MaxRuns, Snapshots,                                                   \* desk
    Models, CorpusSize, MaxEdits,                                         \* index
    CallKinds, Setting, CallThreshold, Cooldown, Attempts                 \* calls

VARIABLES
    part,
    tokens, links, cookie, access, signed, loading, req, excused, \* sessions
    users, codes, recent, codeTh,                                 \* codes
    memory, disk, unsaved, th,                                    \* translations
    rows, seq, lock, append, legacy, edits, touched,              \* chain
    file, breaker, job, result, raised,                           \* documents
    type, description, document, model, review, told, suggestion, \* review
    case, enabled, up, view, lapsed,                              \* views
    deskCase, runs, page, request, snapshot,                      \* desk
    corpus, stored, ollama, embedder, loaded, checked, provider, built, vectors,
    indexLock, search, failed,                                    \* index
    callBreaker, callService, chat, call, late                    \* calls

sVars == <<tokens, links, cookie, access, signed, loading, req, excused>>
oVars == <<users, codes, recent, codeTh>>
tVars == <<memory, disk, unsaved, th>>
eVars == <<rows, seq, lock, append, legacy, edits, touched>>
dVars == <<file, breaker, job, result, raised>>
rVars == <<type, description, document, model, review, told, suggestion>>
vVars == <<case, enabled, up, view, lapsed>>
kVars == <<deskCase, runs, page, request, snapshot>>
pVars == <<corpus, stored, ollama, embedder, loaded, checked, provider, built, vectors,
           indexLock, search, failed>>
mVars == <<callBreaker, callService, chat, call, late>>

Symmetry == Permutations(A) \cup Permutations(B) \cup Permutations(Events)

S == INSTANCE Sessions WITH Tabs <- A, Requests <- B, Faults <- {"loss", "restart"}
O == INSTANCE OneTimeCodes WITH Threads <- A, th <- codeTh
T == INSTANCE Translations WITH Threads <- A, Faults <- {"full", "damage", "restart"}
E == INSTANCE EventChain WITH Threads <- A, Cases <- B, MaxEdits <- MaxChanges
D == INSTANCE DocumentText WITH
    Docs <- A, Threads <- B, Kinds <- FileKinds, Threshold <- ServiceThreshold
R == INSTANCE PreliminaryReview WITH Docs <- A, result <- told
V == INSTANCE CaseViews WITH Languages <- {English} \cup B
K == INSTANCE ReviewDesk WITH Cases <- A, Reviewers <- B, case <- deskCase
P == INSTANCE PrecedentIndex WITH Threads <- A, model <- embedder, lock <- indexLock

(* The breakers of the model and of the translator, during outages. *)
M == INSTANCE ModelCalls WITH
    Threads <- A, Kinds <- CallKinds, Threshold <- CallThreshold,
    breaker <- callBreaker, service <- callService, provider <- chat

ASSUME PartsAssumption ==
    /\ S!BoundsAssumption /\ S!NoneAssumption
    /\ O!LimitsAssumption /\ O!ThreadsAssumption
    /\ T!BoundsAssumption /\ T!NoneAssumption
    /\ E!BoundsAssumption /\ E!NoneAssumption /\ D!SettingsAssumption /\ D!ThresholdAssumption
    /\ D!DocsAssumption
    /\ R!TypesAssumption /\ R!DocsAssumption /\ R!NoneAssumption
    /\ V!EnglishAssumption /\ V!BoundAssumption
    /\ K!BoundAssumption /\ K!SnapshotsAssumption /\ K!CasesAssumption
    /\ P!SizesAssumption /\ P!NoneAssumption /\ D!NoneAssumption
    /\ M!BoundsAssumption /\ M!ThreadsAssumption /\ M!SettingAssumption /\ M!NoneAssumption

-----------------------------------------------------------------------------
(* Sessions, codes and translations have two names each, for MCNext to bound *)
(* a different side of them.                                                *)
Parts == {"sessions", "resets", "codes", "limits", "translations", "faults", "chain",
          "documents", "review", "views", "desk", "index", "calls"}

Init ==
    /\ part \in Parts
    /\ S!Init /\ O!Init /\ T!Init /\ E!Init /\ D!Init /\ R!Init /\ V!Init /\ K!Init /\ P!Init
    /\ M!Init

Next ==
    /\ UNCHANGED part
    /\ \/ /\ part \in {"sessions", "resets"} /\ S!Next
          /\ UNCHANGED <<oVars, tVars, eVars, dVars, rVars, vVars, kVars, pVars, mVars>>
       \/ /\ part \in {"codes", "limits"} /\ O!Next
          /\ UNCHANGED <<sVars, tVars, eVars, dVars, rVars, vVars, kVars, pVars, mVars>>
       \/ /\ part \in {"translations", "faults"} /\ T!Next
          /\ UNCHANGED <<sVars, oVars, eVars, dVars, rVars, vVars, kVars, pVars, mVars>>
       \/ /\ part = "chain" /\ E!Next
          /\ UNCHANGED <<sVars, oVars, tVars, dVars, rVars, vVars, kVars, pVars, mVars>>
       \/ /\ part = "documents" /\ D!Next
          /\ UNCHANGED <<sVars, oVars, tVars, eVars, rVars, vVars, kVars, pVars, mVars>>
       \/ /\ part = "review" /\ R!Next
          /\ UNCHANGED <<sVars, oVars, tVars, eVars, dVars, vVars, kVars, pVars, mVars>>
       \/ /\ part = "views" /\ V!Next
          /\ UNCHANGED <<sVars, oVars, tVars, eVars, dVars, rVars, kVars, pVars, mVars>>
       \/ /\ part = "desk" /\ K!Next
          /\ UNCHANGED <<sVars, oVars, tVars, eVars, dVars, rVars, vVars, pVars, mVars>>
       \/ /\ part = "index" /\ P!Next
          /\ UNCHANGED <<sVars, oVars, tVars, eVars, dVars, rVars, vVars, kVars, mVars>>
       \/ /\ part = "calls" /\ M!Next
          /\ UNCHANGED <<sVars, oVars, tVars, eVars, dVars, rVars, vVars, kVars, pVars>>

vars == <<part, sVars, oVars, tVars, eVars, dVars, rVars, vVars, kVars, pVars, mVars>>

Spec == Init /\ [][Next]_vars

(* What TLC begins with: the parts a behaviour is not about begin in one    *)
(* state only; the types of disputes are alike; and there is no description *)
(* or a full one.                                                           *)
MCInit ==
    /\ Init
    /\ type = CHOOSE x \in Active : TRUE
    /\ part # "review" => model = "answers" /\ description = "full"
    /\ part = "review" => description \in {"empty", "full"}
    /\ part # "views" => enabled /\ up
    /\ part # "desk" => snapshot = None
    /\ part # "calls" => \A s \in M!Services : callService[s] = "up"
    /\ part # "index" => ollama = "up" /\ embedder = CHOOSE m \in Models : TRUE

(* Bounds: sessions with more tokens, or with restarts and password resets;  *)
(* the codes of a phone, or the limits of sign-in and of the calls with one  *)
(* account and one wrong guess; translations of two requests at once, or     *)
(* with a full or damaged disk and one request at a time.                    *)
MCNext ==
    /\ Next
    /\ part = "sessions" => links' = <<>> /\ ~S!Restart
    /\ part = "resets" => Len(tokens') + Cardinality(S!Owed') <= MaxTokensOfResets
    /\ part = "codes" => \A t \in A : codeTh'[t].at # "idle" => codeTh'[t].op \notin LimitOps
    /\ part = "limits" =>
           /\ \A t \in A : codeTh'[t].at # "idle" => codeTh'[t].op \in LimitOps \cup {"signup_email"}
           /\ Len(users') <= 1 /\ \A k \in DOMAIN codes' : codes'[k].wrong <= 1
    /\ part = "translations" => unsaved' = {}
    /\ part = "faults" => Cardinality({t \in A : th'[t].at # "idle"}) <= 1

MCSpec == MCInit /\ [][MCNext]_vars

(* One text of one chunk and others of two; snapshots without graded cases  *)
(* and with some.                                                           *)
SomeChunks == [k \in Texts |-> IF k = CHOOSE j \in Texts : TRUE THEN 1 ELSE 2]
SomeSnapshots ==
    {[match |-> n, partial |-> n, mismatch |-> n, judge_failed |-> 1] : n \in {0, 1}}

-----------------------------------------------------------------------------
(* Refresh tokens (auth/router.py:351-386): a token that has a successor is *)
(* spent; a browser left to itself keeps its session; and a family of       *)
(* tokens that has ended never has a usable one again.                      *)
SessionsRotate ==
    /\ [](part \in {"sessions", "resets"} =>
              S!TypeOK /\ S!ParentIsSpent /\ S!SessionSurvives)
    /\ S!EndedStaysEnded

(* Sign-up and sign-in (auth/router.py:160-345, rate_limit.py:20-105):      *)
(* overlapping requests exceed a limit by no more than their number, no     *)
(* code is charged a guess that was not made, no two accounts share an      *)
(* address, and an account's phone was proved by a code.                    *)
AccountsAreSound ==
    part \in {"codes", "limits"} =>
        /\ O!TypeOK /\ O!LimitsHold /\ O!AttemptsWereMade
        /\ O!OneAccountEach /\ O!PhoneWasProved

(* The gateway and its cache (language/cache.py, gateway.py): nothing but   *)
(* whole translations is kept, every text of an answer is wholly translated *)
(* or as it was and said to be, an eviction loses nothing, and the two      *)
(* levels are one store that never answers with what is too old.            *)
TranslationsAreWhole ==
    /\ [](part \in {"translations", "faults"} =>
              T!TypeOK /\ T!CacheIsWhole /\ T!AnswersAreHonest /\ T!MemoryIsOnDisk)
    /\ T!ImplementsExpiringStore

(* The chained audit log (db.py, append_event and verify_case_events): a    *)
(* log nobody touched verifies, a break is reported where the first unsound *)
(* row is, and what is done to a row with a hash is found: to its event or  *)
(* hashes at once, its removal, or its hash's, where the next row has one.  *)
AuditsAreTrue ==
    /\ [](part = "chain" => E!TypeOK /\ E!UntouchedVerifies /\ E!BreakIsLocated)
    /\ E!EditIsFound

(* Extraction (documents/extraction.py:59-424): a document without text has *)
(* the reason, and a breaker counts the calls to its own service that       *)
(* raised, whatever the service answered about other documents.             *)
ExtractionIsExplained ==
    part = "documents" =>
        D!TypeOK /\ D!FailuresAreExplained /\ D!BreakersBlameTheirService

(* The preliminary review (agents/preliminary_review.py): what the claimant *)
(* is told is true of the documents listed that are not being processed, a  *)
(* score has what it rests on, and an outage of the model makes no document *)
(* irrelevant.                                                              *)
ReviewsAreFair ==
    /\ [](part = "review" => R!TypeOK /\ R!NoteIsTrue /\ R!ScoreIsFounded)
    /\ R!OutageCondemnsNoDocument

(* The case page (main.py:297-435): a view is of the record as it was when  *)
(* it was loaded, though jobs and parties rewrite it during a translation.  *)
ViewsAreOfOneMoment == part = "views" => V!TypeOK /\ V!ViewIsOfOneRecord

(* The reviewers' desk (routers/reviews.py:180-219): a decision is replaced *)
(* only by one that had passed its checks before it was written.            *)
DecisionsStand ==
    /\ [](part = "desk" => K!TypeOK)
    /\ K!DecisionsStandUnlessOverlapped

(* The precedent index (rag/index.py, embeddings.py): a ranking is by the   *)
(* vectors of the corpus the process has read, or by keywords.              *)
RankingsAreFounded == part = "index" => P!TypeOK /\ P!RankingIsFounded

(* core/circuit_breaker.py:38-73: between two openings of a breaker no more *)
(* calls fail than the threshold lets or were under way, though after a     *)
(* cooldown every caller is admitted; and an open breaker closes early only *)
(* through a call it admitted before it opened.                             *)
OutageIsContained ==
    /\ [](part = "calls" => M!TypeOK /\ M!OutageIsCheap)
    /\ M!EarlyCloseIsStale

(* "changing any stored field of ANY past event [...] verify_case_events()  *)
(* can detect" (db.py, _compute_event_hash), in a log of hashed rows.       *)
EveryFieldIsCovered == E!AnyFieldIsCovered

(* A file "(still processing, will resolve on its own)"                     *)
(* (agents/preliminary_review.py, run_preliminary_review): while there is   *)
(* one, a claimant is not told that nothing supports the claim.             *)
WaitingIsSaid == part = "review" => R!NothingToldTooEarly
=============================================================================
