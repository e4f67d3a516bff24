# Formal models of DigiNyaya

TLA+ specifications of DigiNyaya: the case record and its background jobs, the event log with its live
stream, the documents of a case, the path a case takes through the agents to its order, and around
them sign-in, translation, extraction, review, retrieval, the calls of outside services, and the scripts
that build and judge the data sets.
Each specification is translated from the Python (and, where the page takes part, the JavaScript) source; TLC
checks it on small instances. Theorems hold for every number of cases, documents, request threads and workers
(`CaseLifecycle_proofs`, `Evidence_proofs`), for every claim, answer and reply of
a model and any number of jobs (`AgentGraph_proofs`), for any number of writers and pages (`EventStream_proofs`), and
for any number of browsers, threads, texts, rows, readers, searches and limits in ten more parts of the server (`Accounts_proofs`,
`Translations_proofs`, `ServerParts_proofs`), and for any cases, documents, runs and kills of the offline scripts and the analysis of a
case (`ScriptParts_proofs`). Every safety invariant, action property and refinement that a
passing run checks is also a theorem, under the condition of the run where it has one: uploads one after another, and no other writer than the
agents while a page watches.

## 1. The system

DigiNyaya is a FastAPI process (`backend/app`), a React page (`frontend/src`), a SQL database and a
directory of offline scripts (`backend/scripts`). A claimant files a case, the other party answers or does
not, five agents produce a mediation proposal and then an order, a safety gate may hand the case to a
human reviewer instead. The scripts collect court judgments, run the agents on them and compare the
orders with what the courts did.

### Inventory

| component | state | operations | hard behaviours | what makes it correct |
|---|---|---|---|---|
| **case lifecycle** (`main.py`, `routers/reviews.py`, `jobs.py`, `db.py`, `core/context.py`) | one JSON record per case: status, response, `_ctx`, proposal, order, escalation, decision; `jobs._running`; the executor's queue and threads | create, submit, respond, skip-response, request-review, run, mediation, reviewer's decision; the pipeline and resolution jobs; restart; `reset_stuck_cases.py` | handlers check, then write; jobs work on a copy for minutes; both raise; the process restarts | one job per case; an order rests on the proposal decided on; claims are given back; statuses move as documented |
| **event log and live stream** (`core/events.py`, `main.events`, `jobs._pump`, `pages/Resolve.jsx`) | `events` table, subscriber queues, the stream's `last`, the page's cursor | append, publish, subscribe, replay, go live, reconnect, reload | append and publish are two steps; several writers; a job ends between replay and live; connections are cut | nothing lost, repeated or out of order on a page; every stream ends |
| **documents and discrepancy check** (`routers/documents.py`, `jobs.py`, `agents/discrepancy.py`) | `documents` and `discrepancies` tables, `_running_docs`, `_running_discrepancy`, `case.evidence` | upload, extraction job, automatic and manual check | coroutines that interleave at `await`; a batch that fails in the middle; a check refused while an older one runs; restart | cap, evidence list, each document extracted once, the last batch checked |
| **agent graph and safety gate** (`core/graph.py`, `core/safety_gate.py`, `core/confidence.py`) | the `CaseContext` blackboard | nodes ingest, route, research, analyze, mediate, resolve; checkpoints A and B | one loop back to research; two jobs with the record between them; an escalation instead of an answer | the loop is taken at most once; no order without both checkpoints |
| **mediation validator and order** (`agents/mediation.py`, `resolution.py`) | none | clamps of the ratio, kinds of relief, the order | corrections that apply one after another; a model that answers anything | amounts follow the strengths and stay in the band; only routine settlements bind |
| **analysis of pleadings** (`agents/nlp.py`, `analysis.py`, `ingestion.py`, `research.py`) | none | relief, substance of a defence, strengths, confidence, route | capped sums of matched terms, lists that overlap | like cases alike; more for the claimant is never weaker |
| **analysis of documents** (`agents/discrepancy.py`, `preliminary_review.py`, `documents/grounding.py`, `image_forensics.py`) | `discrepancies` rows; a review under way | mechanical and model findings, verification, preliminary review | a list of documents read once, a model that is out or says anything | findings rest on documents; an outage condemns no file |
| **document extraction** (`documents/extraction.py`) | two breakers, the result of each document | native text, OCR service, Tesseract, transcription | threads share breakers; services fail by themselves | an outage degrades; a failure says why; a breaker counts what its own service did not answer |
| **event hash chain** (`db.append_event`, `verify_case_events`) | `hash`, `prev_hash` of each event, `_event_lock` | append, verify | concurrent appends; rows without a hash; a server that stops | an untouched chain verifies, a break is located, and it is known which changes of the table show |
| **circuit breaker** (`core/circuit_breaker.py`) | failure count, `open_until` | allow, record_success, record_failure | calls that return after the breaker changed state | an outage costs few timeouts; only a stale success closes it early |
| **LLM client and providers** (`llm/`) | the process's provider | complete, stream, embed, the choice of provider | retries, streams that break off, a provider chosen while a service is down | every failure is counted once and ends in the scripted path |
| **authentication** (`auth/`, `frontend/src/auth`, `api.ts`) | users, refresh-token families, one-time codes, attempt logs; a browser's cookie and tabs | sign-up, sign-in, refresh, logout, reset, codes, linking | rows read in one transaction and written in another; answers lost; two tabs | a spent token stays spent, an ended family ended, a session survives; limits hold; one account each |
| **language gateway** (`language/gateway.py`, `cache.py`, `translator.py`) | memory LRU, disk entries | translate, batch, get, set | two levels, expiry, eviction, chunks that fail, torn files | one store with expiry; nothing partly translated |
| **language detection and speech** (`language/detector.py`, `tts.py`) | a breaker each | detect, synthesize | as the LLM client | as the breaker |
| **case page** (`main.py`) | the view under construction | create, respond, load, localize, audio | a view takes seconds while the record is rewritten | a view is of one moment |
| **reviewers' desk** (`routers/reviews.py`) | queue, decisions, evaluation snapshot | list, decide, metrics | two reviewers check before either writes | a decision stands |
| **retrieval** (`rag/index.py`, `statutes.py`) | document vectors, their file, the probed provider | build, load, search | a flag set before the work is done; a file of another corpus or cut short | a ranking is by the corpus's own vectors, or by keywords for a reason |
| **sourcing scripts** (`source_*.py`, `ingest_judgments.py`) | dataset, precedents, document cache, blocklist | search, fetch, build, write; review | four scripts share files they rewrite whole; killed while writing | paid once; one case a judgment; cases survive |
| **fact scripts** (`extract_case_signals.py`, `extract_claim_amounts.py`) | enriched file, two checkpoints | extract, checkpoint, finish | killed, run again, overlapping | what was extracted is kept |
| **judging of outcomes** (`judge_real_outcomes.py`, `build_human_label_sheet.py`, `label_cases.py`, `judge_human_agreement.py`) | the comparison file, sheet, key, labels | run, judge, skip; build, label, undo, compare | caches by fingerprint; edits between runs; sessions left and resumed | a verdict says what it is of; answers that were undone do not count; what is compared is of one case |
| **web client labels** (`translate_ui_strings.py`, `verify_translations.py`, `LanguageContext.jsx`) | dictionaries, report | translate, verify, show | a service that drops placeholders; English edited meanwhile | a label that lost a placeholder is caught |
| file storage, schema and migrations, web client, reports and measurements, third-party client, deployment | none that two steps share | I/O, declarations, rendering, statistics | | see section 6 |

How they interact: handlers and jobs share the database and the in-memory claim registries; a job
consumes the graph as a generator, and for each event `_pump` appends it to the log, publishes it on
the bus and then calls back to update the record; `/events` subscribes to the bus, replays the log and
follows its queue; uploads start extraction jobs, which may start a discrepancy check; all jobs share
one bounded pool. Agents and extraction call the services through the breakers, the research agent searches
the index, the case page and the filing go through the language gateway. Sign-in hands out the tokens the
other endpoints ask for. The scripts share files with each other, and the precedents with the server.

## 2. Modules

| module | models |
|---|---|
| `CaseLifecycle` | the case record, every handler that writes it, the jobs, restart and reset |
| `AgentRuns` | abstract: what the jobs promise about the agents' side of a case; `CaseLifecycle` and `AgentGraph` implement it |
| `EventStream` | log, bus, SSE generator, page |
| `LogReplay` | abstract: a page's cursor walks the log entry by entry; `EventStream` with one writer implements it |
| `Evidence` | uploads, extraction jobs, discrepancy check |
| `AgentGraph` | one case through the agents, the safety gate and the settlement rule |
| `Sessions` | refresh tokens, sign-out, password reset, and the tabs that use them |
| `OneTimeCodes` | accounts, codes by phone, the limits |
| `Translations` | the gateway, the two-level cache, the chunked translator |
| `ExpiringStore` | abstract: a store that never answers with what is too old; `Translations` implements it |
| `ModelCalls` | choice of provider, retries, streams, the breakers of the services |
| `EventChain` | `append_event` and `verify_case_events` |
| `DocumentText` | extraction with its breakers |
| `PreliminaryReview` | the look at a draft's evidence, and the suggested dispute type |
| `CaseViews` | filing, answering and showing a case across languages |
| `ReviewDesk` | queue, decisions, metrics |
| `PrecedentIndex` | vectors, their file, the probe, the ranking |
| `Findings` | what a discrepancy check finds, keeps and writes |
| `Pleadings` | relief, defence, strengths |
| `Sourcing`, `CaseFacts`, `Verdicts`, `LabelSheets`, `UiStrings` | the scripts |
| `CaseLifecycle_proofs`, `AgentGraph_proofs`, `Evidence_proofs`, `EventStream_proofs`, `Accounts_proofs`, `Translations_proofs`, `ServerParts_proofs`, `ScriptParts_proofs` | theorems, section 4 |
| `MCCaseLifecycle`, `MCEventStream`, `MCEvidence`, `MCAgentGraph` | operation sets, data and symmetry for TLC |
| `MCSettling`, `MCServerParts` | several modules side by side, section 3 |
| `ScriptParts`, `MCScriptParts` | the scripts and the analysis side by side, every set and bound a constant; their values for TLC |

### CaseLifecycle

`cases` is the table, `claim` is `jobs._running`, `queue` and `worker` are the `ThreadPoolExecutor`,
`request` holds what each handler thread has checked and not yet done, `filings` counts the
`filing_confirmed` events. A handler is a `…Check` action with the conditions of its early returns and
a `…Write` (and `…Start`, `…Audit`) action for each later write; `respond` and `skip_response` check
nothing and write once, so they are one action. `db.update_case` holds a lock for its whole
read-modify-write and is atomic. A job is `Dequeue`, `…Load` (the copy of the record or `_ctx`), `PipelineMark`
(status processing), `…Agents` (the generator up to its last event), `…Persist` (the `on_event` callback),
`Release` (the `finally`); `Raise` may happen at each of the first four, then the handler's database
call either writes status `error` (`RecordError`) or fails too (`HandlerRaises`). The blackboard is
reduced to the submission it was built from (`basis`), whether the agents filled it (`full`) and
whether the route demands a signature (`signoff`); submissions and reviewers are model values.
`Ops` and `Faults` select what clients do and what fails in a run.

### EventStream

`log` is the events table, in which a row's index is its `seq`; a writer (the case's agents, or another
thread for the same case) appends and then puts the event on each subscriber's queue, one queue
per step. A page's stream is the generator of `main.events`: `Open` (subscribe), `Fetch` and `ReplayRow`,
`CheckRunning`, `Live`, `IdleTimeout`; `wire` is what is sent and not yet received. `Close` cuts the
connection at any point, the page reconnects after its cursor, `Reload` starts at 0. `Note` appends without
publishing, as `submit` and the reset script do; the threads of `Quiet` do only that, and only while no page watches. `MaxWire`,
`MaxSteps` and `MaxTokens` bound the wire, the log and the unlogged token events.

### Evidence

`doc` is the documents table (`extraction_status`), `evidence` the list in the case record, `claimed` the two
claim registries, `checked` what the last finished check read. An upload is cut where it awaits a file
(`UploadFile.read` suspends for a file that was spooled to disk): `BeginUpload` reads the record and the
count, `StoreFile` stores one file, `StoreLast` stores the last one and, with no await in between, writes the
record and starts the jobs. An extraction is `ExtractionBegin`, `Extract`, `Record`, `Count`, `AutoTrigger`,
`Release`; a check `CheckRead`, `CheckReport`, `Release`. Which file is invalid and which extraction fails
is a choice. One case suffices: nothing here relates two cases but the pool, whose other jobs only
delay these ones.

### AgentGraph

The inside of the two steps that `CaseLifecycle` calls `PipelineAgents` and `ResolutionAgents`, for one case. `node` is
the node of the graph the job is about to run (`gate` is checkpoint A, `await` and `release` are what the job does
around the graph, `draft` is the second half of `resolve_node`), `ctx` its blackboard, `record` the fields the jobs write. What
free text or a model decides is a choice from constants (`Readings`, `Retrievals`, `Defences`, `Replies`, `Selections`); what
the code computes from it is computed: Agent 1's confidence and route, Agent 3's strengths (in hundredths), the
scripted ratio, its corrections in their order, the kind of relief and the amount (in thousandths of the claim), the
composite score, the three conditions of checkpoint B. The nine kinds of non-monetary relief behave in four ways
and are four values; the three preview dispute types are the type they behave as, which every rule but Tier 1's
(`consumer_dispute` only, as none of them) looks up. `filing` and the answers carry the keyword hits of their text.
Requests race jobs in `CaseLifecycle`; here a request and the start of its job are one step, but answers
still arrive while a job runs. A model that answers NaN is left out.

`AgentRuns` is implemented by both: `CaseLifecycle` shows that races, failures and restarts around the jobs respect
it, `AgentGraph` that the graph inside them does.

### Sessions

`tokens` are the rows of `refresh_tokens`, `links` the password-reset rows, `req` what each request thread has done of
its handler. A refresh is `ReadToken`, `RevokeToken` or `RevokeFamily`, `IssueSession`: one transaction each, as in
the code. The pages are in the model because the tokens' fate depends on them: tabs share the browser's
`cookie` and hold `access` in memory, `Open` loads a page anew, `Renew` and `MayRefresh` are the shared promise of
`refreshAccessToken`, `LateAnswer` sets the cookie of a page that was left. `LoseAnswer` and `Restart` are the
faults. `excused` remembers which browsers may have lost their session for a reason outside the code.

### OneTimeCodes

Each query and commit of a handler is a step (`StartCode`, `IssueCode`; `BeginVerify`, `Guess`, `CountMiss`, `Consume`, `FindAccount`,
`WriteAccount`; `LoginEmail`, `CheckPassword`, `RecordFailure`; `BeginCall`, `LogCall`). `recent` counts the rows of each log within
its window, and `Forget` lets one leave it. The unique indexes of `users` are in `Unique`.

### Translations, ExpiringStore

`memory` is the `OrderedDict`, least recently used first, `disk` a file per key. `Ask` takes up one text or a batch,
`Lookup` is `TranslationCache.get` (with the promotion from disk and what expiry drops), `Chunk` and `ChunkFails` the
translator's loop, `Store` the write to both levels, `StoreRaises` a disk that is full, `Damage` a file cut short. `unsaved`
remembers texts whose file is not what was stored. `ExpiringStore` is refined with the union of the two
levels for its content and the cached answers for what readers found.

### ModelCalls

One call per thread: `Admit` (`allow`), `GetProvider` and `CreateProvider` (`LLMFactory`, created without a lock), then the request. `Answer`,
`OddAnswer`, `OddTranslation`, `NoAnswer`, `RecordFailure`, `Abandon` say what each kind of call makes of what comes back and what it tells
the breaker. `breaker[b].left` is the rest of the cooldown in ticks.

### EventChain

`ReadLast` takes `_event_lock` and reads the case's last row, `Insert` writes and releases; `Restart` may come in between.
`Hash` is the term it is computed from, which makes it free of collisions. `InsertLegacy` adds a row of the time before the
chain. `Edit` is one change of the table by hand: a column of a row (`Altered`: the event, which stands for the seven columns that are hashed,
`created_at`, `prev_hash`, `hash`, the last two to another stored value, to the first of a chain or to NULL), an exchange of two rows of a case
(`Exchanged`), a row removed, or given to another case (`Given`). Several columns changed at once, as by somebody who computes the
hashes anew, are left out. `VerifyCaseEvents` is a fold over the case's rows, as the loop in the code.

### DocumentText

`Start` is the choice of path by kind and text layer, `OcrAnswers`, `OcrRaises`, `OcrImage`, `SttAnswers`, `SttRaises` what became
of the call, with Tesseract behind it for everything but audio. A call may raise at any time, whether the service is down, refuses this
document or answers what cannot be read, or the disk is full: the code tells none of these from another, and records a failure for each. What is recognized is a
choice of words, noise that `normalize_text` drops, or nothing. `raised` remembers which documents' calls raised since a service last answered.

### PreliminaryReview

`Begin` reads the documents once, `DocumentRelevance` asks the model about one of them, `Finish` computes winnability and
note; uploads, extraction jobs (`Extract`: pending, processing, complete or failed) and the model's state change in between. Scores and thresholds are computed.

### CaseViews

A text is what it says and the language it is in. `CreateCase` and `Respond` go through `Inbound`, `Persist` is a job that writes,
`Open` loads and copies the record, `Localize` translates one of its drafts; `Change` is the translator's coming and going.

### ReviewDesk

What the desk sees of a record: status, decision, whether a signature is due. `ReviewQueue` and the metrics are read-only
operators over it; `CheckDecision` and `WriteDecision` are the two halves of the handler. The agents' runs in between are `Outcome`.
`request[r].over` remembers which decisions were written after the checks of reviewer r.

### PrecedentIndex

A search is `Begin`, `Built` (the unlocked look at `_doc_built`), the building under `lock` (`LoadCached`, `GetProvider`, `Probe`, `EmbedCorpus`,
`OpenCache`, `WriteCache`, `Keep`), then `EmbedQuery` and `Answer`. `OpenCache` truncates the file that `WriteCache` fills, so `Restart` in
between leaves it `Torn`. `checked` is set before the probe, as in `factory.py`.

### Findings

`Mechanical`, `ScriptedCandidates` and `ImageCandidates` are computed from what the documents hold, `VerifySources`, `Severity`,
`ModelCandidate` and `Confidence` from what the model answered; `Answer` merges, `Insert` writes one row at a time, `Stop` is a restart
in between. Scores are in thousandths.

### Pleadings

Pure functions: `ReliefType`, `ScoreDefense`, `ClaimantStrength`, `RespondentStrength`, `Analysis`. `Analyse` handles one more case and keeps the one
before it, so that two can be compared. `AgentGraph` chooses the strengths' inputs; this module computes how texts get there.

### Sourcing, CaseFacts

Files are sets of cases (in `Sourcing` records that hold one), or `Torn`. A run (`Begin`) loads the dataset, then fetches, reads and adds document by document
and rewrites the dataset from its copy (`Add`, `Finish`); `documents` is the shared cache with the shape each script writes. `Kill`
and `TearDocument`, `TearDataset`, `TearCorpus` end a process between or during its writes. In `CaseFacts` the two scripts share the enriched
file, each with its checkpoint and its threads. Both have history variables for what a run met (another run, `--fresh`, a
checkpoint), which is what the properties excuse.

### Verdicts, LabelSheets

The comparison file of `Verdicts` is `Missing`, `Torn` or a record of its entries, kept with the code, facts and mode that made them; `Skip` is the full skip
by fingerprint of the sources, `RunAndCapture` runs the pipeline and reuses a verdict of the same output, `Judge` asks the model and
writes the file. What the scripted pipeline makes of a case (`Scripted`) follows from the case, from `code`, the sources in
`_PIPELINE_SOURCE_FILES`, and from `rest`, all that this list leaves out: `confidence.py`, the retrieval with its data, `_build_ctx`, the day
(the order names a deadline), and whether the embedding service answers. `code` and the dataset change between runs only; `rest` at any time.

`LabelSheets` has the sheet, the key, the labels, and a session with its questions, undo and quitting. What a row of the sheet shows is decided
anew (`Decided`, by the version of the sources and the `day`); what the judge was shown is in `judged`: a decision of the first version on some
day, or anything where the verdicts are of a live run. A verdict that a run
carried over (`Reused`) is of an output that came out again, so it is no case of its own.

### UiStrings

A text is what is left of its placeholders, the brand and the numbers that stand for them. `TranslateNext` is one label with its two
attempts (`Protect`, `Answers`, `Restore`, `TranslateKey`), `CheckNext` one comparison, `Shown` the client's fallback.

## 3. Runs

Bounds are chosen so that two of everything that races can race: two request threads and a job
on one case (`case_races`; a second worker adds no state to it, since a case has one job at a time, queued or
running), two cases on one worker where queueing matters (`settling`), a second
writer beside the agents and a restart in the stream (streams do not touch each other's queues: one page), two batches of documents. Runs with
two triggers of one case need one reviewer and one answer, since a second one would only repeat the
writes of the first. The data of `agent_orders` has a value on each side of every threshold it meets (net strength around
0 and 0.1, ratios below 0.05, above the best precedent and above 1, confidence around 0.6, coverage around the thin
bound, none, one and several precedents); two jobs are a proposal and its order, and what a third does to a case
that has an order is `agent_stale_score`, on one value of each kind. No invariant compares more than two of anything. `CHECK_DEADLOCK FALSE` is set where the
system may rest: clients owe nothing, and a finished case needs no further step.

Three runs check several modules side by side. Their parts share no state in the program either, so a product of
their state spaces would say nothing that the sum does not: `part` is chosen at the start, one part moves
and the others stay at one of their initial states. A property speaks of its part (`part = ... => ...`) or, where it is an
action property, of variables no other part changes. The model values `a1`, `a2` and `b1`, `b2` stand for whatever a part
has two of, which is what makes their permutations a symmetry of all parts. `MCServerParts` and `ScriptParts` keep every bound and nearly
every set a constant, so that their properties can be theorems; the values are in `ServerParts.cfg`, and in `ScriptParts.cfg` and
`MCScriptParts`. TLC begins in `MCInit`, which lets a part that does not move begin in one state only, and steps by `MCNext`, which
splits a part whose whole would be too large into two that are bounded on different sides, named in `Parts`: sign-in sessions
with more tokens, or with restarts and reset links ("sessions", "resets"); the codes of a phone, or the limits with one account
and one wrong guess ("codes", "limits"); two translations at once, or one at a time with a full or damaged disk and restarts
("translations", "faults"). The theorems are about `Spec`, which has none of these bounds. In a sum a part at rest cannot be told
from a deadlock, so deadlock is not checked there.

Runs that pass:

| run | bounds | shows |
|---|---|---|
| `case_races` | 1 case, 2 threads, 1 worker | answers, triggers, reviews and jobs on one case at once: claims exact, orders rest on the proposal, escalations explained, the agents' output changes under a claim only |
| `case_faults` | 1 case, 1 thread, 1 worker, 1 restart | every other operation with failing jobs, failing error handlers, a restart and the reset script: types, and all of it implements `AgentRuns` |
| `stream_one_writer` | 1 page, 3 log entries and the run's end, 1 token, restarts | with the agents as the only writer while the page watches (`Quiet`), a page that is cut, reopened and reloaded walks the log without a gap and never sees the case go back (`ShownInOrder`; its theorem is for any writers) |
| `evidence_uploads` | 3 documents, 3 uploads one after another, cap 2, 1 restart | claims are exact (`ClaimsAreExact`), documents change under their claim only (`DocumentsUnderClaim`), cap and evidence list hold (`UploadsAreKept`), with rejected batches and failures |
| `agent_orders` | 1 case, 2 jobs; 5 claims, 3 answers, 5 readings, 5 retrievals, 3 defences, 5 model replies, 2 selections of citations | awards follow strengths and precedents, only routine settlements bind, orders are grounded and in scope, both jobs end and implement `AgentRuns` |
| `settling` | 2 cases on 1 worker; 1 page with 2 writers; 2 documents in overlapping uploads on 2 workers; all fair | jobs settle though they raise, a stream ends, an extraction ends with a verdict, claims are given back |
| `server_parts` | 13 parts of two threads each, bounds in `ServerParts.cfg` | the parts of the server below |
| `script_parts` | 7 parts of two processes or cases each, bounds in `ScriptParts.cfg` and `MCScriptParts` | the scripts and the analysis below |

| property of a part | bounds | says |
|---|---|---|
| `SessionsRotate` | 1 user, 1 browser, 2 tabs, 2 threads; 3 tokens, or 2 tokens with a reset link and restarts | a token with a successor is spent; an undisturbed browser's cookie is the live token of its family; a family that has ended stays ended |
| `AccountsAreSound` | 2 threads, 1 address, 1 phone, 2 codes, limits of 1 | a window has at most the limit's rows plus one per other thread; a code is charged no guess that was not made; no two accounts share an address; a phone was proved |
| `TranslationsAreWhole` | 2 texts (1 and 2 chunks), memory of 1, 2 threads with restarts, or 1 at a time with every fault | only whole translations are kept; an answer is whole or said not to be; an eviction loses nothing; the cache is an `ExpiringStore` |
| `AuditsAreTrue` | 2 cases, 2 threads, 4 rows, 1 of them legacy, 1 edit, 2 alike contents | an untouched log verifies; the break is where the first unsound row is; which edits of a row with a hash are found, and at which row |
| `ExtractionIsExplained` | 2 documents of 5 kinds, 2 threads, threshold 1 | a document fails only for its own reasons; a breaker counts no more than the documents whose calls to its service raised since that answered |
| `ReviewsAreFair` | 2 documents, 3 types, one not in use | what the claimant is told is true of the documents listed that are not being processed; scores have what they rest on; an outage condemns no document |
| `ViewsAreOfOneMoment` | 1 reader, 3 languages, 2 versions of each draft | proposal and order shown are those loaded together |
| `DecisionsStand` | 2 cases, 2 reviewers, 3 outcomes | a decision is replaced only by one that had passed its checks before |
| `RankingsAreFounded` | 2 threads, 2 embedding models, 1 edit of the corpus | a ranking is by vectors of the corpus that is ranked, or by keywords for a reason |
| `OutageIsContained` | 2 threads, 3 kinds of call, threshold 2, cooldown 2 | between two openings at most threshold or thread-count calls fail; an early close comes from a call admitted before |
| `SourcingIsSound` | 2 processes, 1 judgment, 1 order, 2 starts, 1 kill | paid once, one case a judgment, a nameless case has its reason, cases survive |
| `FactsAreKept` | 2 cases, 2 threads, 2 starts of each script, 1 kill | cases, signals and amounts stay, but for the listed reasons |
| `VerdictsAreCurrent` | 2 cases, 2 facts (of one of them, at the start), 2 versions, 2 values of the rest, 2 starts, 1 edit, 1 kill | a scripted entry is of what was once made of its case, after a scripted run with that run's fingerprint, and on its facts unless the case was skipped; failures are tried again |
| `LabelsAreComparable` | 2 cases, 2 versions, 2 days | an undone answer leaves nothing; who is compared was shown a decision of that case; a label stays |
| `StringsAreChecked` | 1 label of 3 shapes, 1 edit | a label that lost a placeholder is not shown or is reported |
| `FindingsRestOnDocuments` | 2 documents of 6 contents, 6 answers of the model, 2 checks | findings are about extracted documents and quote them; a check that ends has written all |
| `PleadingsAreReadAlike` | pairs of 7 claims, 30 replies and 3 readings | more for the claimant is never weaker; that a deed is void, or the heirs are to have the estate, is found whatever else is asked |

Two of each suffices for these: each property relates at most two threads, processes, rows or documents, and a third
would repeat what the second does. The sums restrict the choice of an initial state where it makes no difference
(the dispute types of a review are alike, and its description is empty or full), let a sheet be built once per version and
the day not turn while a person labels, leave out a run of the judging that both resumes and starts over (it has no cache to resume from), and let one thread at a time meet the
faults of the translation cache.

Runs that find a disagreement between the code and what its documentation, comments or tests say
(the quotes are in `PROJECT.json`, findings):

| run | what happens |
|---|---|
| `case_escalated_unqueued` | an escalated case with an older decision is not in the queue |
| `stream_gap` | an event overtaken by another writer's is lost to a page |
| `evidence_unchecked` | the last documents of a case are never checked |
| `agent_stale_score` | an order below the confidence floor passes checkpoint B, which looks at the order before it |

Four more sentences of the repository are stated as properties that the two runs of several parts do not check, because TLC refutes them: it does
so in seconds to a minute when one takes the place of the properties in the cfg (with `CaseIds = {k1}` for the third).

| property | cfg | the repository says | the code |
|---|---|---|---|
| `EveryFieldIsCovered` | `ServerParts.cfg` | "changing any stored field of ANY past event [...] changes every hash computed after it, which verify_case_events() can detect" (`db.py:192`) | `created_at` is hashed nowhere (`db.py:196`), and a last row whose hash is set to NULL counts as one from before the chain (`db.py:360`): such a log of hashed rows verifies |
| `WaitingIsSaid` | `ServerParts.cfg` | "(still processing, will resolve on its own)" (`preliminary_review.py:351`) | only "pending" is counted as that; a file a job has begun with is "processing" (`jobs.py:276`) and in no count, so a claimant whose only file is being processed is told that nothing uploaded supports the claim |
| `SkippingLosesNothing` | `ScriptParts.cfg` | "re-executing it would produce byte-identical output" (`judge_real_outcomes.py:151`) | the fingerprint leaves out `core/confidence.py`, `rag/`, the statutes and `_build_ctx` (line 131); the order names a deadline counted from today (`resolution.py:205`) and `llm.embed` asks its service in scripted runs too (`client.py:287`): a run skips a case it would resolve otherwise |
| `SheetsRepeatTheJudged` | `ScriptParts.cfg` | "byte-identical to what the judge saw provided the verdict file was produced by this same code" (`build_human_label_sheet.py:12`) | the sheet is a new scripted run (line 71) on another day and retrieval |

The models also show the following. They are not kept as runs, because they are variants of the runs
above or because no line of the repository plainly says otherwise. In the server:

* respond and skip-response take a draft out of draft without the confirmation `submit` demands (`main.py:744`, `main.py:751`);
* a mediation decision that is refused because a job runs has already changed the status, and leaves the case in
  processing once that job ends (`main.py:798`);
* a proposal of kind "dismissed" can carry an amount: a ratio below 0.05 is called a dismissal and still multiplies
  the claim (`mediation.py:269`), so the order says that no payment is ordered and its relief amount is not zero;
* two submissions of one draft both pass the check and both append `filing_confirmed` (`main.py:639`);
* two reviewers decide on one case and the second decision replaces the first (`reviews.py:204`);
* a `run` that was checked earlier starts the agents on a case that has run since (`main.py:785`);
* an escalation is overridden by a mediation decision that was checked before it, or by a new run;
* a stream that looks at the registry after the job ended closes without the logged terminal event
  (`main.py:822`); the page then asks again after its cursor;
* two uploads that overlap exceed the cap, and one batch vanishes from the evidence list
  (`documents.py:80`, `documents.py:91`): set `Overlapping = TRUE` in `Evidence_uploads.cfg`;
* when the last extraction of a case raises after the others finished, its exception path starts no check
  (`jobs.py:305`);
* a breaker cannot tell an outage from documents that make its calls raise (a file the service refuses, an answer without the expected
  fields, a full disk): such documents, one after another, open it for all (`extraction.py:126`, `extraction.py:230`);
* a document whose extraction job was lost at a restart stays "pending", and the preliminary review goes on saying it is
  being processed, or "processing", and then it is counted nowhere; an audio transcript of noise alone gives an empty text without an error;
* after a cooldown the breaker admits every caller, where its docstring speaks of "one trial call" (`circuit_breaker.py`);
* a chat provider that is chosen while its services are down is the mock for the life of the process (`factory.py:115`);
  `_embedding_provider_checked` is set before the probe, so a second first search falls back to keywords though the
  service is there (`factory.py:159`), and an outage at the first search disables ranking by meaning for good; the file of
  vectors is keyed by the corpus and not by the embedding model;
* the removal of a log's last row, a last row whose hash is set to NULL, a changed `created_at`, and an edit of a row from before the chain are not found by `verify_case_events`;
* description and statement are not translated when a reader overrides the language (`main.py:381`); a statement is shown
  verbatim to a reader of the filing language even if it was written in another; an outage at filing leaves
  untranslated text in the record that is taken for English;
* a decided escalation counts as resolved in the rate of escalations;
* a candidate finding of the model without a snippet is kept, though `discrepancy.py:24` says that grounding drops what no
  text backs, and a snippet need only be in one of the documents it cites; an image scored between 0.4 and 0.7 is not
  flagged for review while one between 0.3 and 0.4 is; compared values that are a number make the check fail with its
  mechanical findings; each further check inserts the same findings again;
* phrases of the lexicons are found inside words ("iou" in "various"), and one phrase can count as two terms.

In the scripts:

* the free scripts write the shared document cache without `tid`, though they say it is the paid script's shape, and the
  paid script makes nameless cases of such a file; it also keeps error answers of the API, does not read the blocklist,
  and may take one judgment for two categories; overlapping scripts lose each other's cases; a torn file stops later runs;
* extracting signals again, or from a checkpoint, drops claim amounts; the two scripts overlapping lose data;
* a killed re-run of `judge_real_outcomes.py` loses the verdicts of the cases it had not come to, where a comment says it
  "never loses more than the single in-flight case per worker"; the full skip compares some of the sources only, so an edited case, too,
  keeps its old verdict; a reused entry keeps the count of model calls of another run;
* `label_cases.py` saves once a case's questions are all answered, not after every answer; a rebuilt sheet drops labels of
  cases no longer on it and keeps labels given on an older decision; a sheet drawn from verdicts of a live run shows scripted decisions; sheet and key are written one after the other;
* `translate_ui_strings.py` raises on today's `en.json`, which holds lists, and writes nothing; the brand is not checked after
  it was put back; a number from 900 on is taken for a placeholder; a fallback to English is not flagged.

### Fairness

`Fairness` in `CaseLifecycle`, `EventStream` and `Evidence` asks weak fairness of each request thread that is past its checks, of each
executor thread, of the writers that are in the middle of an event and of each stream; `AgentGraph` of the job. These are threads
the operating system schedules, locks are held for one database call, and `ThreadPoolExecutor` serves its queue in
order. Clients, failures and restarts are owed nothing. An agent's call to a model is assumed to return or
raise, which the HTTP timeouts of the providers ensure. The 120-second idle time of a stream is weakly fair: it
elapses unless an event resets it. In `settling` the three conditions stand together; what they ask of a part that stays at its
initial state is not enabled there. Liveness is asked where the code promises an end: jobs, streams,
extractions, the graph. The other parts are handlers and scripts that run to their end by themselves, or stop anywhere.

## 4. Proofs

The theorems about `CaseLifecycle` assume `NoneAssumption` (Python's None is none of the other values) and `BoundAssumption`
(the bound on restarts is a number) and nothing else: the numbers of cases, request threads, workers,
submissions and reviewers, the operations called and the failures that occur are arbitrary.

`CaseLifecycle_proofs`:

* `TypeCorrect`: `Spec => []TypeOK`. TypeOK is inductive as it stands, because `Running` and `Pending` type
  the local state of a thread by its program counter.
* `ClaimCorrect`: `Spec => []ClaimIsExact`: a case is claimed exactly while a job for it is queued or running,
  there is at most one, and it is of the claimed phase. ClaimIsExact quantifies over the jobs of each case as a
  set; it is inductive together with TypeOK in the form of positions (`ClaimInv`): each queue position and each
  worker carries a claimed case, no two carry the same, and each claimed case has one. The lemmas
  follow a job through its life: `StartJob` appends one for an unclaimed case, `Dequeue` moves the
  head to an idle worker, the job's own steps leave its case alone, `Release` removes the worker and the
  claim together, `Crash` empties everything.

In the same module, for what the agents put on record, from the inductive invariant `Inv` (`TypeOK`, `ClaimInv` and `AgentInv`):

* `OrderCorrect` and `EscalationCorrect`: `Spec => []OrderRestsOnProposal`, `Spec => []EscalationIsExplained`.
  Neither is inductive: an order is written from the copy a resolution loaded minutes before.
  `ResolutionOK` says that this copy still equals the blackboard on record; it survives the steps of
  all other workers because `ClaimInv` leaves them no job of the case, and those of handlers because they write
  other fields (`SameOutcomes`). `ProposalMatches` ties a filled blackboard to the proposal, `PipelineOK` says that a
  pipeline's blackboard is empty until it proposes, and `Blank` that creating a case overwrites nothing.
* `WritesAreClaimed`: `Spec => AgentsWriteUnderClaim`, the action property, from the same invariant.
* `AgentRunsImplemented`: `Spec => ImplementsAgentRuns`. Under the refinement mapping the activity of a case is
  that of its job; `ActiveIsClaim` derives from `ClaimCorrect`'s argument that this is the registry's entry.
  `StartJob` maps to `Start`, the two persist actions to `Propose`, `Refuse`, `Resolve` and `Escalate`, `Release` to
  `Stop`, `Crash` to `Restart`, and everything else to a stutter.

`AgentGraph_proofs` assumes `NoneAssumption` and `DataAssumption`: each constant is a set of records of its type, of any
size, retrievals are what `rag.retrieve` can return (`Ranked`; the proofs use its type only). No bound
on the number of jobs is used, and parties may answer between any two steps (`Reopening` is arbitrary).

* `InvCorrect`: the inductive invariant `Inv`. `BoardOK` says of a blackboard what the properties want of it; it is not
  inductive alone, since the graph writes a board field by field. `NodeOK` says what has been filled in, and what has
  not, when the job comes to a node (no proposal before `mediate`, so a repeated research cannot change the strengths under one;
  two precedents at `draft`), and `RestOK` that a board no job works on, which a resolution loads much later, carries all
  of the agents' results or none (a case escalated at checkpoint A has an empty one).
* `AwardsFounded`, from `AwardCorrect` and `AwardBounded`: `MeritsBound` follows the model's ratio through the clamp, the zero for a
  claimant who is not ahead and the floor for one who is, `DecreeBound` through the decree in full; both hold for any integer ratio.
* `BindingCorrect`: `TierOK` carries Agent 1's decision to the route and `KindOK` the kind of relief to the proposal, so that
  an order of tier 1 is one of money.
* `OrdersFounded`, from `GroundedCorrect` and `ScopeCorrect`: what checkpoint B and checkpoint A found still holds of the order; the
  second through the proposal's basis, because the submission on record may have changed since.
* `TypeCorrect`: with `ConfidenceRange`, `ClaimantRange`, `RespondentRange` and `CompositeRange` for the arithmetic.
* `AgentRunsImplemented`: `Spec => ImplementsAgentRuns`, with `RunInv` in addition: a resolution's board is the one on record
  but for acceptance and score (`Alike`), and a proposal's basis is its board's.

`Evidence_proofs` assumes `NoneAssumption`, `CheckAssumption` ("check" is no document's id) and `BoundAssumption` (the bounds are
numbers, the documents finitely many).

* `TypeCorrect`: TypeOK is inductive; `RunningJob` and `NextPc` tie a worker's program counter to its kind of job.
* `ClaimsCorrect`, `UnderClaimCorrect`: `Spec => []ClaimsAreExact`, `Spec => DocumentsUnderClaim`, for overlapping uploads too. `ClaimInv` says of positions what `ClaimsAreExact`
  says of sets. It is not inductive alone: `start_extraction` is never refused a document only because ids are new, so
  `BatchInv` says that what an open upload has stored is pending, unclaimed and in no other batch. `PendingInv` says that a
  document stays pending until its job has begun, from which the second follows: only the job that holds the claim
  writes (`JobStep`), and "processing" only over "pending".
* `UploadsKept`: with `~Overlapping`, `Spec => []UploadsAreKept`. `KeptInv` adds that at most one upload is open, that what is stored
  and what is still to come fit under the cap (`Fits`, one file less to come for each row more, `StoresOne`), and that the
  list an upload read at its beginning still holds all the record lists (`BaseIsCurrent`). Both fail once uploads overlap,
  which is what goes wrong in the code then.

`EventStream_proofs` assumes what the module assumes of its constants, and for its last two theorems `OneWriter`
(`Others \subseteq Quiet`: while a page watches, only the agents write); without it `stream_gap` refutes the first of them.

* `TypeCorrect`: from `TypeInv`, by which each event in a thread's hand, in a queue or on a wire is one of the log, with its type and,
  unless it is an error, its seq. The log only grows (`LogGrows`), so this stays true.
* `ShownCorrect`: `Spec => []ShownInOrder`, for any number of writers. `OrderInv` adds that what is on a page's wire comes after what it has
  seen, one after another, and up to what its stream has delivered. The queue of a stream may be in any order: `Live` skips what is
  not above `delivered`, which is why order survives and completeness does not.
* `CursorCorrect`: `Spec => []CursorIsComplete`. `WriterInv` says that one thread at most has an event in hand (`jobs._running`). `CompleteInv`
  says that the queue of a page is in order, and that what the log has beyond the replay, or beyond what was delivered, is
  in that queue or in the writer's hand, with the page's queue still to come; this is where it matters that `events` subscribes before it reads.
* `ReplayCorrect`: `Spec => ImplementsLogReplay`: every step is one of the abstract page's or leaves the log and the cursors alone.

The theorems about the smaller parts of the server are about `MCServerParts`, with all operations and all faults of a part at once. They assume
`PartsAssumption`, the parts' own assumptions together: bounds are numbers, threads and documents finitely many, None
and the other markers none of the values they mark. A lemma at the head of each module takes a step of the whole to a step or a
stutter of each part, so that each part is proved by itself.

`Accounts_proofs`, on sign-in sessions, all from `SessionsInv`:

* `ParentSpent`: `RowsInv` says that a family is named for its first row and that parents are spent; `RequestsInv` says that a
  request about to insert a successor has its token in hand revoked, so the insert in the second transaction is sound whatever came between.
* `SurvivesCorrect`: `S!Spec => []S!SessionSurvives`, which is not inductive: a rotation leaves a family without a live token for a while. `KeptInv` says of a
  browser that is not excused that it has one request at most, that this one has the cookie's token in its hand, and where its
  rotation is (no live token at "issue", the new one alone at "ok"). Nobody else may touch that family: `HoldersInv` says that a
  family is known to one browser only, the cookie and the requests taken together (`OneHolder`), and that the token of a sign-in not
  yet answered is known to nobody else (`NewSignIn`).
* `EndedCorrect`: `S!Spec => S!EndedStaysEnded`, step by step: a row is added to a family only by a request in `Rotating`, and a request
  enters `Rotating` only with a token that is not revoked.
* `SessionsCorrect`: `Spec => SessionsRotate`, all of these with the types, for the server.

and on accounts and codes, from `AccountsInv`, in which `ThreadsInv` types a request by what it is at, and says that the code in its hand
was sent to its phone:

* `CodesTypeCorrect`, and `LimitsCorrect`. A request counts a window before it inserts its row, so the rows and the
  requests about to insert one (`Writers`) together exceed the limit by less than the number of threads (`LimitsInv`).
* `AttemptsCorrect`: a counter is written as what was read and one, so it may lag behind the wrong guesses but not exceed them.
* `OneEachCorrect`, `ProvedCorrect`: `Unique` decides at the write, whatever the handlers looked up before; a phone is written only
  with a redeemed code in hand, and a redeemed code stays so.
* `AccountsCorrect`: `Spec => []AccountsAreSound`, the five together, for the server.

`Translations_proofs`:

* `TypeCorrect`, `CacheCorrect`, `AnswersCorrect`, `MemoryCorrect` from `Inv` (`CacheInv`, `RequestsInv`): memory holds distinct texts, files are under their own
  names, a request's chunks are counted up to those of its text, and what it has still to do has no answer yet.
* `StoreImplemented`: `T!Spec => T!ImplementsExpiringStore`. The content of the abstract store is what either level holds (`Kept`); `AbstractStep` takes
  a lookup to a get, a store to a put, and evictions, damage, restarts and what expiry drops to losses.
* `TranslationsCorrect`: `Spec => TranslationsAreWhole`, all of these for the server.

`ServerParts_proofs`:

* `ViewsCorrect`: `OfOneRecord` says that a view under way still holds what the record said when it was loaded, translated or not.
* `DecisionsCorrect`: by `RequestsInv` the decision of a case that a request has checked is none, or one of those written since
  (`request.over`); `FiguresAreFractions` is about the metrics' counts of finite sets.
* `RankingsCorrect`: vectors in the process are of the corpus it loaded, and without any it has failed or is building (`ProcessInv`); who
  builds holds the lock, who queries has vectors, and a provider that was looked for and is not there has failed or is being
  probed (`SearchesInv`).
* `ExtractionCorrect`: `JobsInv` keeps each document in at most one thread's hands, at a step that suits its kind (`Suits`), and a result
  explained (`Explains`); `BlameInv` bounds each count by the documents whose calls raised, all of the kinds the service is asked about, and says that a
  document under way is not yet one of them, so that each failure adds one.
* `OutageCorrect`: OutageIsCheap is not inductive. While a breaker is open its calls under way were all admitted before, and with those that have failed
  since it opened they are fewer than the threads; while its count is below the threshold, late failures are no more than the count (`OutageInv`).
* `ReviewsCorrect`: `JudgedInv` says that only what was read to the end has been judged; `ListedAndJudged` does the counting.
* `AuditsCorrect`: `Spec => AuditsAreTrue`, for logs of any length. `verify_case_events` is a fold, and the library's induction theorems are
  out of the provers' reach, so what it computes is proved by a least counterexample (`LeastNumber`): `Knows` says what the walk
  knows after n rows (the hash it expects next, the first unsound row, the counts of verified and unverifiable ones), `CheckKnows` that one more row
  keeps it so, `WalkExists` that the recursive function is there at all. `ChainInv` says that a thread under the lock has the hash of the last row in its
  hand, unless someone edited that case, that every row of an untouched case matches the one before it, and that a row's hash is one of its own case or of one
  that was touched (`From`), so that a row moved to another case cannot match there. `EditsAreFound` goes through the edits: each makes a row, or the one after it, not match.

`ScriptParts_proofs` assumes `PartsAssumption` of `ScriptParts`: cases, documents and phrases are finitely many, bounds are numbers, and the markers None, `Missing` and
`Torn` are no files, outputs or answers.

* `FindingsCorrect` (`FindingsInv`, in which `CheckInv` is about a check under way): `RowsInv` and `CandidatesInv` say that what is stored, and what a check still holds, is founded; `WholeInv` that
  what is left to insert and what is inserted make up the whole result, so a check that ends has written all.
* `StringsCorrect` (`StringsInv`): every entry of a dictionary passed the placeholder check against the English text it was made from (`EntryOK`), which
  may have been edited since; a flag, or its absence, is what the comparison found in the entry it read (`FlagOK`).
* `PleadingsCorrect`: `ClaimantGrows`, `DefenceGrows`, `ContestGrows` and `RespondentShrinks` follow each capped sum of `nlp.py` and `analysis.py` through one
  more term, document or phrase; `NeverWeaker` puts them together. `ReliefIsSpecific` is about the order of the relief rules.
* `FactsCorrect` (`FactsInv`): `SigInv` and `AmtInv` say that what an undisturbed run has in hand, and what it has still to do, covers what the files have of
  the cases it works on; `MetInv` that of two runs at once both know.
* `LabelsCorrect` (`LabelsInv`): `SheetOK` and `LabelOK` tie each row of a sheet, in the file or in a session, and each label to a decision that a version of the
  code so far makes of the case on some day (`Shown`), and the key to what was judged; `OneSheetInv` says that until a second sheet
  is built the labels in the session and in the file agree, which is the excuse the property makes.
* `VerdictsCorrect` (`VerdictsInv`), with nothing assumed of what the pipeline makes of a case but that it follows from case, facts, sources and rest: `CacheOK`, `ResultsOK`, `JudgingOK`, `MadeOK` and `HitOK` follow a case through a run: not come to, resolved, being
  judged, with its entry; `KeptInv` says that a run that does not start over holds all verdicts of the file it will replace, `FinishedInv` what a scripted run has left; the
  cases a run skipped (`skipped`) are all it may have on other facts.
* `SourcingCorrect` (`SourcingInv`): `PaidInv` says that a judgment that is not wasted is fetched by one process, and has a file once it is
  paid for; `BareInv`, `SeenInv` and `HeldInv` that a document without an id, and a run that reads one as such, come from another script that keeps
  it; `DataInv` what the dataset has in common with the runs that will rewrite it. Each action is shown to be within a frame (`Framed`: whose turn it
  is, how it leaves the runs, what it does to the files and the payments), and each part of the invariant is then proved once, from the frame.

Only model-checked:

* liveness (`JobsSettle`, `StreamEnds`, `WorkEnds`, `JobEnds`), which is beyond the prover, as `ENABLED` is;
* that the bounds of a run meet every action, and the disagreements of section 3: those are counterexamples, for which TLC is the tool.

## 5. Plan

Done: the modules of section 2 and the theorems of section 4. What would add most next:

1. A composition of `CaseLifecycle` with `EventStream`: what a page that reloads the case on a terminal event can read. The
   product of the two is beyond TLC beside the rest; it wants an abstraction of the record first.
2. Liveness of a sign-in session and of an extraction under an outage that ends.

## 6. Not modelled

* **File storage** (`storage/`): one write and one read of a file under a fresh name. That either fails is a choice in `Evidence`
  and `Findings`.
* **Schema and migrations**, **deployment**: declarations.
* **Web client**: rendering and forms. Its cursor, tokens and labels are in `EventStream`, `Sessions` and `UiStrings`; that a client
  may call any operation at any time is all the rest assumes of it.
* **Reports and measurements** (`run_empirical_eval.py`, `calibrate_safety_gate.py`, `eval_scorecard.py`, `promote_reviewer.py`): they read data sets
  and write one file or one row; the statistics are in floating point.
* **Third-party client** (`_vendor/ikapi.py`): what `Sourcing` needs of it is external there.

Left out of modelled parts: prompts, HTTP details and the parsing of replies; what agents read from free text beyond the
phrases of the lexicons (names, dates, amounts); the similarity of texts and the statutes; OCR and speech recognition
themselves; e-mail verification, the profile, the delivery of mail and messages, hashing of passwords; which language a text is in;
`fill_missing_translations.py`, which repeats the steps of `UiStrings` for missing keys; kappa, intervals and certification in
the comparison with people; wording, interest and deadlines of an order; logging. A failing handler (not job) answers with
status 500 and stops between two of its writes; that is the same as a request thread that takes no further step, which safety
runs allow.
