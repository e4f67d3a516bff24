-------------------------------- MODULE Sourcing --------------------------------
(***************************************************************************)
(* The scripts that collect court judgments, each a process of its own:    *)
(* source_eval_judgments.py (paid: Indian Kanoon's API, one search per     *)
(* category), source_free_judgments.py (free: a mirror of the same         *)
(* judgments), source_district_court_judgments.py (district: archives of   *)
(* eCourts orders) and ingest_judgments.py (ingest: the precedents the     *)
(* server retrieves from).                                                 *)
(*                                                                         *)
(* The first three rewrite one dataset from the copy they loaded; all four *)
(* keep the texts in one directory, a file per document.  Files are        *)
(* written in place, so that a killed process can leave one torn.          *)
(***************************************************************************)
EXTENDS Naturals, FiniteSets

CONSTANTS
    Processes,
    Judgments,    \* documents of Indian Kanoon
    Mirror,       \* those of them the mirror has
    Orders,       \* documents of eCourts
    Complex,      \* the court complex of each order
    Categories,
    PerCategory,  \* --per-category
    None,         \* the id of a case whose document has none
    Torn,         \* a file that was being written when its process was killed
    MaxStarts,    \* bound on the runs
    MaxKills      \* bound on the kills

DocumentsAssumption ==
    /\ Mirror \subseteq Judgments /\ Judgments \cap Orders = {}
    /\ IsFiniteSet(Judgments) /\ IsFiniteSet(Orders)
    /\ None \notin Judgments \cup Orders
BoundsAssumption == {PerCategory, MaxStarts, MaxKills} \subseteq Nat

Documents == Judgments \cup Orders
Writers == {"paid", "free", "district"}
Scripts == Writers \cup {"ingest"}

Cases == [of : Documents, category : Categories \cup {None}, by : Scripts,
          id : Documents \cup {None}]
Whole == [cases : SUBSET Cases]
TornAssumption == Torn \notin Whole \cup {"none", "full", "bare", "errmsg"}

VARIABLES
    dataset,    \* eval_judgments.json: its cases, or Torn
    corpus,     \* precedents.json: its precedents, or Torn
    documents,  \* data_cache/indiankanoon: the shape of each document's file
    blocked,    \* free_sourcing_excluded_tids.json
    archives,   \* the complexes whose archive was downloaded
    bad,        \* district_court_bad_complexes.json
    run,        \* what each process is at
    starts, kills,
    paid,       \* history: how often each judgment was paid for
    wasted,     \* history: judgments two processes fetch at a time, or paid for just before a kill
    leftover    \* history: documents kept for a case which the dataset lost,
                \* or got while another script ran

vars == <<dataset, corpus, documents, blocked, archives, bad, run, starts, kills,
          paid, wasted, leftover>>

Off == [at |-> "off"]
At(p, at) == run[p].at = at
Is(p, script) == run[p].script \in script
Goto(p, at) == run' = [run EXCEPT ![p].at = at]
GoOn(p, cases) ==
    run' = [run EXCEPT ![p].at = "next", ![p].cases = cases, ![p].doc = None,
                       ![p].shape = "none",
                       ![p].category = IF Is(p, {"paid"}) THEN @ ELSE None]
Live == {p \in Processes : ~At(p, "off")}

Named(cases) == {c.id : c \in cases} \ {None}
InCategory(cases, category) == {c \in cases : c.category = category}

Init ==
    /\ dataset = [cases |-> {}] /\ corpus = [cases |-> {}]
    /\ documents = [d \in Documents |-> "none"]
    /\ blocked = {} /\ archives = {} /\ bad = {}
    /\ run = [p \in Processes |-> Off]
    /\ starts = 0 /\ kills = 0
    /\ paid = [d \in Judgments |-> 0]
    /\ wasted = {} /\ leftover = {}

-----------------------------------------------------------------------------
Known(cases) == Named(cases)

(* The documents a run goes through; a paid one searches for them later. *)
Pool(script, known) ==
    CASE script = "free" -> Mirror \ (known \cup blocked)
      [] script = "district" -> {d \in Orders : d \notin known /\ Complex[d] \notin bad}
      [] script = "ingest" -> Judgments
      [] script = "paid" -> {}

(* What a run loads of a file; ingest_judgments keys the precedents by id,  *)
(* so that one is left of those without.                                    *)
Loaded(script, file) ==
    LET nameless == {c \in file.cases : c.id = None} IN
    IF script = "ingest" /\ nameless # {}
    THEN {(file.cases \ nameless) \cup {c} : c \in nameless}
    ELSE {file.cases}

(* A run loads the file it will rewrite, and ends there if it is torn; with *)
(* --fresh or --replace it starts from nothing.                             *)
Begin(p, script, fresh) ==
    LET file == IF script = "ingest" THEN corpus ELSE dataset IN
    /\ At(p, "off") /\ starts < MaxStarts
    /\ fresh => script \in {"paid", "ingest"}
    /\ fresh \/ file # Torn
    /\ \E cases \in IF fresh THEN {{}} ELSE Loaded(script, file) :
       run' = [q \in Processes |->
           IF q = p
           THEN [at |-> "next", script |-> script, cases |-> cases,
                 known |-> Known(cases), todo |-> Pool(script, Known(cases)),
                 left |-> IF script = "paid" THEN Categories ELSE {},
                 category |-> None, doc |-> None, shape |-> "none", bad |-> bad,
                 fresh |-> fresh, met |-> Live # {}]
           ELSE IF q \in Live THEN [run[q] EXCEPT !.met = TRUE] ELSE Off]
    /\ starts' = starts + 1
    /\ UNCHANGED <<dataset, corpus, documents, blocked, archives, bad, kills,
                   paid, wasted, leftover>>

(* search_candidates: as many as the category lacks, none of them known.    *)
(* What one category found is not known to the next.                        *)
Search(p, category) ==
    LET have == Cardinality(InCategory(run[p].cases, category)) IN
    /\ At(p, "next") /\ run[p].todo = {} /\ category \in run[p].left
    /\ \E found \in SUBSET (Judgments \ run[p].known) :
           /\ found = {} \/ have + Cardinality(found) <= PerCategory
           /\ run' = [run EXCEPT ![p].todo = found, ![p].category = category,
                                 ![p].left = @ \ {category}]
    /\ UNCHANGED <<dataset, corpus, documents, blocked, archives, bad, starts, kills,
                   paid, wasted, leftover>>

-----------------------------------------------------------------------------
Take(p, d, at, shape) ==
    run' = [run EXCEPT ![p].todo = @ \ {d}, ![p].at = at, ![p].shape = shape,
                       ![p].doc = IF at = "next" THEN None ELSE d]

(* ingest_judgments skips what the corpus has. *)
Skip(p, d) ==
    /\ Is(p, {"ingest"}) /\ d \in run[p].known
    /\ Take(p, d, "next", "none")

(* Mutant of FetchDoc: a torn file is taken as it is. *)
FetchDocTorn(p, d) ==
    /\ Is(p, {"paid", "ingest"})
    /\ Is(p, {"ingest"}) => d \notin run[p].known
    /\ IF documents[d] = "none" THEN Take(p, d, "pay", "none")
       ELSE Take(p, d, "extract", documents[d])

(* fetch_doc: the file of the document, or the API.  A torn file raises:    *)
(* source_eval_judgments goes on with the next, ingest_judgments ends.      *)
FetchDoc(p, d) ==
    /\ Is(p, {"paid", "ingest"})
    /\ Is(p, {"ingest"}) => d \notin run[p].known
    /\ \/ documents[d] = "none" /\ Take(p, d, "pay", "none")
       \/ documents[d] \notin {"none", Torn} /\ Take(p, d, "extract", documents[d])
       \/ documents[d] = Torn /\ Is(p, {"paid"}) /\ Take(p, d, "next", "none")
       \/ documents[d] = Torn /\ Is(p, {"ingest"}) /\ run' = [run EXCEPT ![p] = Off]

(* The mirror has the text; an order's is in the archive of its complex,    *)
(* which is downloaded for the first of them.                               *)
OpenText(p, d) ==
    \/ Is(p, {"free"}) /\ Take(p, d, "extract", "bare")
    \/ /\ Is(p, {"district"})
       /\ Complex[d] \notin run[p].bad
       /\ Take(p, d, IF Complex[d] \in archives THEN "extract" ELSE "download", "bare")

Fetching(d) == \E q \in Processes : (At(q, "pay") \/ At(q, "write")) /\ run[q].doc = d

NextDocument(p) ==
    /\ At(p, "next")
    /\ \E d \in run[p].todo :
           /\ Skip(p, d) \/ FetchDoc(p, d) \/ OpenText(p, d)
           /\ wasted' = IF Fetching(d) /\ run'[p].at = "pay"
                        THEN wasted \cup {d} ELSE wasted
    /\ UNCHANGED <<dataset, corpus, documents, blocked, archives, bad, starts, kills,
                   paid, leftover>>

(* The request fails. *)
NoDocument(p) ==
    /\ At(p, "pay")
    /\ GoOn(p, run[p].cases)
    /\ UNCHANGED <<dataset, corpus, documents, blocked, archives, bad, starts, kills,
                   paid, wasted, leftover>>

(* It is answered; an answer that only says errmsg is kept by the official  *)
(* client's caller, and raised by ingest_judgments.                         *)
Pay(p) ==
    /\ At(p, "pay")
    /\ \E shape \in {"full"} \cup IF Is(p, {"paid"}) THEN {"errmsg"} ELSE {} :
           run' = [run EXCEPT ![p].at = "write", ![p].shape = shape]
    /\ paid' = [paid EXCEPT ![run[p].doc] = @ + 1]
    /\ UNCHANGED <<dataset, corpus, documents, blocked, archives, bad, starts, kills,
                   wasted, leftover>>

WriteDocument(p) ==
    /\ At(p, "write")
    /\ documents' = [documents EXCEPT ![run[p].doc] = run[p].shape]
    /\ Goto(p, "extract")
    /\ UNCHANGED <<dataset, corpus, blocked, archives, bad, starts, kills,
                   paid, wasted, leftover>>

(* download_complex_tar: a complex that cannot be had is not tried again.   *)
Download(p) ==
    LET c == Complex[run[p].doc] IN
    /\ At(p, "download")
    /\ \/ /\ archives' = archives \cup {c}
          /\ Goto(p, "extract")
          /\ UNCHANGED bad
       \/ /\ run' = [run EXCEPT ![p].at = "next", ![p].doc = None,
                         ![p].shape = "none", ![p].bad = @ \cup {c},
                         ![p].todo = {d \in @ : Complex[d] # c}]
          /\ bad' = run'[p].bad
          /\ UNCHANGED archives
    /\ UNCHANGED <<dataset, corpus, documents, blocked, starts, kills,
                   paid, wasted, leftover>>

-----------------------------------------------------------------------------
(* The model gives no answer, or one that is incomplete or out of scope. *)
Reject(p) ==
    /\ At(p, "extract")
    /\ GoOn(p, run[p].cases)
    /\ UNCHANGED <<dataset, corpus, documents, blocked, archives, bad, starts, kills,
                   paid, wasted, leftover>>

(* build_case: the id is the one in the document's file, which the API's    *)
(* answers have and the texts kept by the other scripts have not; these     *)
(* take it from the row they are at.                                        *)
Case(p, category) ==
    [of |-> run[p].doc, category |-> category, by |-> run[p].script,
     id |-> IF run[p].shape = "bare" /\ Is(p, {"paid", "ingest"}) THEN None
            ELSE run[p].doc]

(* A case is extracted; a precedent is also written to the corpus at once. *)
Extract(p) ==
    LET cases == run[p].cases \cup {Case(p, run[p].category)} IN
    /\ At(p, "extract") /\ run[p].shape # "errmsg"
    /\ Is(p, {"paid", "ingest"})
    /\ GoOn(p, cases)
    /\ corpus' = IF Is(p, {"ingest"}) THEN [cases |-> cases] ELSE corpus
    /\ UNCHANGED <<dataset, documents, blocked, archives, bad, starts, kills,
                   paid, wasted, leftover>>

(* extract_and_classify: the model names the category. *)
Classify(p) ==
    /\ At(p, "extract")
    /\ Is(p, {"free", "district"})
    /\ \E category \in Categories :
           run' = [run EXCEPT ![p].at = "keep", ![p].category = category]
    /\ UNCHANGED <<dataset, corpus, documents, blocked, archives, bad, starts, kills,
                   paid, wasted, leftover>>

(* The text is kept first, and the case added to the dataset next. *)
Keep(p) ==
    /\ At(p, "keep")
    /\ documents' = [documents EXCEPT ![run[p].doc] = "bare"]
    /\ Goto(p, "add")
    /\ UNCHANGED <<dataset, corpus, blocked, archives, bad, starts, kills,
                   paid, wasted, leftover>>

Dropped(cases) == IF dataset = Torn THEN {} ELSE Named(dataset.cases) \ Named(cases)

WriteDataset(cases, unseen) ==
    /\ dataset' = [cases |-> cases]
    /\ leftover' = leftover \cup Dropped(cases) \cup unseen

Add(p) ==
    LET cases == run[p].cases \cup {Case(p, run[p].category)} IN
    /\ At(p, "add")
    /\ GoOn(p, cases)
    /\ WriteDataset(cases, IF run[p].met THEN {run[p].doc} ELSE {})
    /\ UNCHANGED <<corpus, documents, blocked, archives, bad, starts, kills,
                   paid, wasted>>

(* The paid script writes once, after its last category; the others end     *)
(* when they have as many as they were asked for, or nothing is left.       *)
Finish(p) ==
    /\ At(p, "next")
    /\ \/ /\ Is(p, {"paid"}) /\ run[p].todo = {} /\ run[p].left = {}
          /\ WriteDataset(run[p].cases, {})
       \/ /\ ~Is(p, {"paid"})
          /\ UNCHANGED <<dataset, leftover>>
    /\ run' = [run EXCEPT ![p] = Off]
    /\ UNCHANGED <<corpus, documents, blocked, archives, bad, starts, kills,
                   paid, wasted>>

-----------------------------------------------------------------------------
Ends(p) ==
    /\ run' = [run EXCEPT ![p] = Off]
    /\ kills' = kills + 1
    /\ UNCHANGED <<blocked, archives, bad, starts, paid>>

(* A process is killed: between two steps ... *)
Kill(p) ==
    /\ p \in Live /\ kills < MaxKills
    /\ Ends(p)
    /\ wasted' = IF At(p, "write") THEN wasted \cup {run[p].doc} ELSE wasted
    /\ leftover' = IF At(p, "add") THEN leftover \cup {run[p].doc} ELSE leftover
    /\ UNCHANGED <<dataset, corpus, documents>>

(* ... while it writes the file of a document ... *)
TearDocument(p) ==
    /\ At(p, "write") \/ At(p, "keep")
    /\ kills < MaxKills
    /\ Ends(p)
    /\ documents' = [documents EXCEPT ![run[p].doc] = Torn]
    /\ UNCHANGED <<dataset, corpus, wasted, leftover>>

(* ... the dataset ... *)
TearDataset(p) ==
    /\ \/ At(p, "add")
       \/ At(p, "next") /\ Is(p, {"paid"}) /\ run[p].todo = {} /\ run[p].left = {}
    /\ kills < MaxKills
    /\ Ends(p)
    /\ dataset' = Torn
    /\ leftover' = leftover \cup Dropped({}) \cup IF At(p, "add") THEN {run[p].doc} ELSE {}
    /\ UNCHANGED <<corpus, documents, wasted>>

(* ... or the corpus. *)
TearCorpus(p) ==
    /\ At(p, "extract") /\ Is(p, {"ingest"})
    /\ kills < MaxKills
    /\ Ends(p)
    /\ corpus' = Torn
    /\ UNCHANGED <<dataset, documents, wasted, leftover>>

(* A reviewer removes a mislabelled case and blocks its document. *)
Remove(d) ==
    /\ dataset # Torn
    /\ d \in Named(dataset.cases) \cap Judgments
    /\ blocked' = blocked \cup {d}
    /\ WriteDataset({c \in dataset.cases : c.id # d}, {})
    /\ UNCHANGED <<corpus, documents, archives, bad, run, starts, kills, paid, wasted>>

Step(p) ==
    \/ \E category \in Categories : Search(p, category)
    \/ NextDocument(p)
    \/ NoDocument(p) \/ Pay(p) \/ WriteDocument(p) \/ Download(p)
    \/ Reject(p) \/ Extract(p) \/ Classify(p) \/ Keep(p) \/ Add(p)
    \/ Finish(p)

Next ==
    \/ \E p \in Processes : Step(p)
    \/ \E p \in Processes, script \in Scripts, fresh \in BOOLEAN : Begin(p, script, fresh)
    \/ \E p \in Processes : Kill(p) \/ TearDocument(p) \/ TearDataset(p) \/ TearCorpus(p)
    \/ \E d \in Judgments : Remove(d)

Spec == Init /\ [][Next]_vars
-----------------------------------------------------------------------------
(* The type invariant; a text being read was whole when it was opened. *)
TypeOK ==
    /\ {dataset, corpus} \subseteq Whole \cup {Torn}
    /\ documents \in [Documents -> {"none", "full", "bare", "errmsg", Torn}]
    /\ blocked \subseteq Judgments
    /\ bad \subseteq {Complex[d] : d \in Orders}
    /\ archives \subseteq {Complex[d] : d \in Orders}
    /\ starts \in 0 .. MaxStarts /\ kills \in 0 .. MaxKills
    /\ paid \in [Judgments -> Nat]
    /\ wasted \subseteq Judgments /\ leftover \subseteq Documents
    /\ \A p \in Live :
           /\ run[p].at \in {"next", "pay", "write", "download", "extract", "keep", "add"}
           /\ run[p].script \in Scripts
           /\ run[p].cases \subseteq Cases
           /\ run[p].todo \subseteq Documents
           /\ At(p, "extract") => run[p].shape \in {"full", "bare", "errmsg"}

(* "raw docs are cached [...] so re-runs never re-pay for the same document": *)
(* a document is paid for once, unless two processes fetched it at a time or  *)
(* one was killed between the answer and the file (fetch_doc).                *)
PaidOnce == \A d \in Judgments : paid[d] > 1 => d \in wasted

(* A case without a document id was read from a text that a script kept for *)
(* a case which the dataset had not got yet, or lost, or got while another  *)
(* script ran (fetch_doc and build_case, over the files                     *)
(* source_free_judgments writes).                                           *)
NamelessIsLeftover ==
    LET kept == leftover \cup {run[p].doc : p \in {q \in Live : At(q, "add")}} IN
    dataset # Torn => \A c \in dataset.cases : c.id = None => c.of \in kept

(* Two cases of one judgment are what two categories of one paid run found; *)
(* nothing that was in the dataset is sourced again.                        *)
OneCaseEach ==
    dataset # Torn =>
        \A c, e \in dataset.cases :
            c.id = e.id /\ c.id # None /\ c # e =>
                c.by = "paid" /\ e.by = "paid" /\ c.category # e.category

(* A sourced case stays in the dataset until a reviewer removes it, a kill  *)
(* tears the file, --fresh starts over, or a script rewrites it that ran at *)
(* the same time as another (the scripts' incremental runs).                *)
CasesSurvive ==
    [][dataset # Torn /\ dataset' # Torn =>
           \A id \in Named(dataset.cases) \ Named(dataset'.cases) :
               \/ id \in blocked'
               \/ \E p \in Live :
                      run'[p] # run[p] /\ (run[p].fresh \/ run[p].met)]_vars
=============================================================================
