------------------------------ MODULE PrecedentIndex ------------------------------
(***************************************************************************)
(* Retrieval of precedents (app/rag/index.py): the corpus is embedded once *)
(* by a local service (app/llm/factory.py get_embedding_provider,          *)
(* client.py embed), its vectors are kept in memory and in a file keyed by *)
(* the corpus, and a search that cannot have vectors falls back to         *)
(* keywords.  Searches of several threads overlap; the process restarts,   *)
(* perhaps in the middle of writing the file and perhaps with another      *)
(* embedding model.                                                        *)
(***************************************************************************)
EXTENDS Naturals, FiniteSets

CONSTANTS
    Threads,
    Models,     \* embedding models of the configuration
    CorpusSize, \* precedents, one request of the service each
    MaxEdits,   \* bound on the versions of the corpus
    None, Torn

SizesAssumption == CorpusSize \in Nat \ {0} /\ MaxEdits \in Nat

VARIABLES
    corpus,   \* version of the file of precedents
    stored,   \* the file of vectors: what it holds, or Torn
    ollama,   \* the service: up, down, or up without the model
    model,    \* the embedding model of the process
    loaded,   \* version of the corpus the process has read
    checked,  \* _embedding_provider_checked
    provider, \* _embedding_provider is there
    built,    \* _doc_built
    vectors,  \* _doc_vectors: of which corpus, by which model
    lock,     \* the thread that holds _lock
    search,   \* the search of each thread
    failed    \* history: a request of the service failed since the start

process == <<model, loaded, checked, provider, built, vectors, lock, failed>>
disk == <<corpus, stored>>
vars == <<disk, ollama, process, search>>

Vectors == [corpus : 1 .. MaxEdits + 1, model : Models]

NoneAssumption ==
    None \notin Threads \cup 1 .. MaxEdits + 1 \cup Vectors \cup {Torn} /\ Torn \notin Vectors

Idle == [at |-> "idle"]
At(t, at) == search[t].at = at
Goto(t, at) == search' = [search EXCEPT ![t] = [at |-> at]]

Init ==
    /\ corpus = 1 /\ stored = None
    /\ ollama \in {"up", "down", "no_model"}
    /\ model \in Models
    /\ loaded = None /\ vectors = None /\ lock = None
    /\ checked = FALSE /\ provider = FALSE /\ built = FALSE /\ failed = FALSE
    /\ search = [t \in Threads |-> Idle]

-----------------------------------------------------------------------------
(* The corpus is read by the first search of the process, and kept. *)
Begin(t) ==
    /\ At(t, "idle")
    /\ loaded' = IF loaded = None THEN corpus ELSE loaded
    /\ Goto(t, "ensure")
    /\ UNCHANGED <<disk, ollama, model, checked, provider, built, vectors, lock, failed>>

(* Mutant of Usable: the key of the file is not compared. *)
UsableAny(file) == file \notin {None, Torn}

(* A file that is missing, cut short, or of another corpus is not used. *)
Usable(file) == file \notin {None, Torn} /\ file.corpus = loaded

Free == lock = None

(* Whether another thread was asking for the service, for the properties.   *)
ByKeyword(t, racing) == search' = [search EXCEPT ![t] = [at |-> "keyword", racing |-> racing]]

Built(t) ==
    /\ At(t, "ensure") /\ Free /\ built
    /\ IF vectors # None THEN Goto(t, "query") ELSE ByKeyword(t, FALSE)
    /\ UNCHANGED <<disk, ollama, process>>

(* The first thread looks for the file, holding the lock. *)
LoadCached(t) ==
    /\ At(t, "ensure") /\ Free /\ ~built
    /\ built' = TRUE
    /\ IF Usable(stored)
       THEN vectors' = stored /\ Goto(t, "query") /\ UNCHANGED lock
       ELSE lock' = t /\ Goto(t, "provider") /\ UNCHANGED vectors
    /\ UNCHANGED <<disk, ollama, model, loaded, checked, provider, failed>>

(* No vectors: the lock is released and keywords must do. *)
GiveUp(t) ==
    /\ lock' = IF lock = t THEN None ELSE lock
    /\ ByKeyword(t, \E u \in Threads \ {t} : At(u, "probe"))

(* get_embedding_provider: the flag is set before the service is asked, and *)
(* whoever finds it set takes what is there.                                *)
GetProvider(t) ==
    /\ search[t].at \in {"provider", "query"}
    /\ IF ~checked
       THEN /\ checked' = TRUE
            /\ search' = [search EXCEPT ![t] = [at |-> "probe", then |-> @.at]]
            /\ UNCHANGED lock
       ELSE /\ UNCHANGED checked
            /\ IF provider THEN /\ search' = [search EXCEPT ![t] =
                                       [at |-> IF @.at = "query" THEN "ask" ELSE "embed", n |-> 0]]
                                /\ UNCHANGED lock
               ELSE GiveUp(t)
    /\ UNCHANGED <<disk, ollama, model, loaded, provider, built, vectors, failed>>

(* OllamaProvider.is_available. *)
Probe(t) ==
    /\ At(t, "probe")
    /\ provider' = (ollama # "down")
    /\ failed' = (failed \/ ollama = "down")
    /\ Goto(t, search[t].then)
    /\ UNCHANGED <<disk, ollama, model, loaded, checked, built, vectors, lock>>

(* One precedent after the other; any failure gives up the corpus. *)
EmbedCorpus(t) ==
    /\ At(t, "embed")
    /\ IF ollama # "up" THEN GiveUp(t)
       ELSE /\ search' = [search EXCEPT ![t] =
                   IF @.n + 1 < CorpusSize THEN [at |-> "embed", n |-> @.n + 1]
                   ELSE [at |-> "save"]]
            /\ UNCHANGED lock
    /\ failed' = (failed \/ ollama # "up")
    /\ UNCHANGED <<disk, ollama, model, loaded, checked, provider, built, vectors>>

(* The file is opened, which empties it, and written; or it cannot be.      *)
OpenCache(t) ==
    /\ At(t, "save")
    /\ \/ stored' = Torn /\ Goto(t, "write")
       \/ UNCHANGED stored /\ Goto(t, "keep")
    /\ UNCHANGED <<corpus, ollama, process>>

Embedded == [corpus |-> loaded, model |-> model]

WriteCache(t) ==
    /\ At(t, "write")
    /\ \/ stored' = Embedded
       \/ UNCHANGED stored
    /\ Goto(t, "keep")
    /\ UNCHANGED <<corpus, ollama, process>>

Keep(t) ==
    /\ At(t, "keep")
    /\ vectors' = Embedded
    /\ lock' = None
    /\ Goto(t, "query")
    /\ UNCHANGED <<disk, ollama, model, loaded, checked, provider, built, failed>>

(* The query is embedded: then the ranking is by its distance to the        *)
(* vectors; without an answer it is by keywords.                            *)
EmbedQuery(t) ==
    /\ At(t, "ask")
    /\ IF ollama = "up" THEN Goto(t, "semantic") ELSE ByKeyword(t, FALSE)
    /\ failed' = (failed \/ ollama # "up")
    /\ UNCHANGED <<disk, ollama, model, loaded, checked, provider, built, vectors, lock>>

Answer(t) ==
    /\ search[t].at \in {"semantic", "keyword"}
    /\ Goto(t, "idle")
    /\ UNCHANGED <<disk, ollama, process>>

-----------------------------------------------------------------------------
EditCorpus ==
    /\ corpus <= MaxEdits
    /\ corpus' = corpus + 1
    /\ UNCHANGED <<stored, ollama, process, search>>

Change ==
    /\ ollama' \in {"up", "down", "no_model"} \ {ollama}
    /\ UNCHANGED <<disk, process, search>>

Restart ==
    /\ model' \in Models
    /\ loaded' = None /\ vectors' = None /\ lock' = None
    /\ checked' = FALSE /\ provider' = FALSE /\ built' = FALSE /\ failed' = FALSE
    /\ search' = [t \in Threads |-> Idle]
    /\ UNCHANGED <<disk, ollama>>

Next ==
    \/ \E t \in Threads :
          \/ Begin(t) \/ Built(t) \/ LoadCached(t) \/ GetProvider(t) \/ Probe(t)
          \/ EmbedCorpus(t) \/ OpenCache(t) \/ WriteCache(t) \/ Keep(t)
          \/ EmbedQuery(t) \/ Answer(t)
    \/ EditCorpus \/ Change \/ Restart

Spec == Init /\ [][Next]_vars

-----------------------------------------------------------------------------
(* The type invariant. *)
TypeOK ==
    /\ corpus \in 1 .. MaxEdits + 1 /\ loaded \in 1 .. MaxEdits + 1 \cup {None}
    /\ stored \in Vectors \cup {None, Torn} /\ vectors \in Vectors \cup {None}
    /\ lock \in Threads \cup {None}
    /\ \A t \in Threads : search[t].at \in {"provider", "embed", "save", "write", "keep"} => lock = t

(* "Cached to disk, keyed by a hash of the corpus content": a ranking by    *)
(* meaning is over vectors of the very precedents that are ranked, through  *)
(* edits, restarts and files cut short; and one by keywords is given only   *)
(* when the service failed a request since the start, or when another       *)
(* thread asks at that moment whether it is there.                          *)
RankingIsFounded ==
    /\ \A t \in Threads : search[t].at \in {"ask", "semantic"} =>
           vectors # None /\ vectors.corpus = loaded
    /\ \A t \in Threads : At(t, "keyword") => failed \/ search[t].racing
=============================================================================
