----------------------------- MODULE Translations -----------------------------
(***************************************************************************)
(* The language gateway (app/language/gateway.py) over its two-level cache *)
(* (cache.py) and the chunk-by-chunk translator (translator.py).           *)
(*                                                                         *)
(* A text stands for what a cache key is made of: a language pair and the  *)
(* normalized words.  A translation is known by how many chunks of its     *)
(* text it holds; 0 is the text as it was.  Ages are counted in ticks up   *)
(* to the first one past the lifetime.  ModelCalls has what a chunk costs. *)
(***************************************************************************)
EXTENDS Naturals, FiniteSets, SequencesExt

CONSTANTS
    Threads,
    Texts,
    Chunks,        \* Chunks[k]: how many chunks text k is cut into
    MaxMemory,     \* max_memory_entries
    Lifetime,      \* ttl_seconds, in ticks; with none, nothing expires
    Faults,        \* subset of {"full", "damage", "restart"}
    None, Unreadable

BoundsAssumption ==
    /\ MaxMemory \in Nat \ {0} /\ Lifetime \in Nat \ {0}
    /\ Chunks \in [Texts -> Nat \ {0}]
    /\ IsFiniteSet(Texts)

VARIABLES
    memory,    \* the entries in memory, least recently used first
    disk,      \* disk[k]: the entry in text k's file
    unsaved,   \* history: texts whose file is not what was stored last
    th         \* what each thread is at

vars == <<memory, disk, unsaved, th>>

Entry == [text : Texts, value : Nat, age : 0 .. Lifetime + 1]
AnswerType == [value : Nat, translated : BOOLEAN, cached : BOOLEAN]

NoneAssumption ==
    None \notin Texts \cup Entry \cup AnswerType \cup {Unreadable} /\ Unreadable \notin Entry

Expired(e) == e.age > Lifetime

NoAnswers == [k \in Texts |-> None]
Idle == [at |-> "idle", op |-> None, todo |-> {}, text |-> None, done |-> 0,
         answers |-> NoAnswers]

Init ==
    /\ memory = <<>>
    /\ disk = [k \in Texts |-> None]
    /\ unsaved = {}
    /\ th = [t \in Threads |-> Idle]

At(t, at) == th[t].at = at

-----------------------------------------------------------------------------
(* The cache; each of its methods runs under one lock. *)

(* A dictionary: no two entries are of one text. *)
InMemory(k) == \E i \in DOMAIN memory : memory[i].text = k
Place(k) == CHOOSE i \in DOMAIN memory : memory[i].text = k
Remembered(k) == memory[Place(k)]
Without(k) == IF InMemory(k) THEN RemoveAt(memory, Place(k)) ELSE memory

(* _store_in_memory: e is the most recent, the least recent one goes. *)
WithNewest(e) ==
    LET all == Append(Without(e.text), e) IN
    IF Len(all) > MaxMemory THEN Tail(all) ELSE all

Hit(k) ==
    \/ InMemory(k) /\ ~Expired(Remembered(k))
    \/ ~InMemory(k) /\ disk[k] \notin {None, Unreadable} /\ ~Expired(disk[k])

(* get, of an entry that may be used: it becomes the most recent. *)
Found(k) == IF InMemory(k) THEN Remembered(k) ELSE disk[k]
TouchEntry(k) ==
    /\ memory' = WithNewest(Found(k))
    /\ UNCHANGED <<disk, unsaved>>

(* get, otherwise: what is expired or unreadable is deleted on both levels. *)
DropEntry(k) ==
    /\ memory' = Without(k)
    /\ disk' = [disk EXCEPT ![k] = None]
    /\ unsaved' = unsaved \ {k}

(* set: memory first, then the file, through a temporary file; a full disk  *)
(* raises with the memory changed and the file as it was.                   *)
SetEntry(k, value, saved) ==
    LET e == [text |-> k, value |-> value, age |-> 0] IN
    /\ memory' = WithNewest(e)
    /\ disk' = IF saved THEN [disk EXCEPT ![k] = e] ELSE disk
    /\ unsaved' = IF saved THEN unsaved \ {k} ELSE unsaved \cup {k}

-----------------------------------------------------------------------------
(* The gateway. *)

(* to_pipeline_language and to_user_language take one text; localize_many a *)
(* batch of named ones, in which an error is the failing text's own.        *)
Ask(t, op, todo) ==
    /\ At(t, "idle")
    /\ todo # {} /\ (op = "one" => Cardinality(todo) = 1)
    /\ th' = [th EXCEPT ![t] = [Idle EXCEPT !.at = "next", !.op = op,
                                            !.todo = todo]]
    /\ UNCHANGED <<memory, disk, unsaved>>

(* Answer text k and go on to the next one. *)
Answered(t, k, value, translated, cached) ==
    th' = [th EXCEPT ![t].at = "next", ![t].text = None, ![t].done = 0,
                     ![t].todo = @ \ {k},
                     ![t].answers[k] = [value |-> value, cached |-> cached,
                                        translated |-> translated]]
AsItWas(t, k) == Answered(t, k, 0, FALSE, FALSE)

(* The gateway is off, the text is taken to be in the pipeline's language   *)
(* (declared, detected, or because detection fell back to the default), or  *)
(* there is no key for the service.                                         *)
PassThrough(t) ==
    /\ At(t, "next")
    /\ \E k \in th[t].todo : AsItWas(t, k)
    /\ UNCHANGED <<memory, disk, unsaved>>

Lookup(t) ==
    /\ At(t, "next")
    /\ \E k \in th[t].todo :
           IF Hit(k)
           THEN /\ Answered(t, k, Found(k).value, TRUE, TRUE)
                /\ TouchEntry(k)
           ELSE /\ th' = [th EXCEPT ![t].at = "translate", ![t].text = k]
                /\ DropEntry(k)

(* translate: the chunks one after another, *)
Chunk(t) ==
    /\ At(t, "translate")
    /\ LET done == th[t].done + 1 IN
       th' = [th EXCEPT ![t].done = done,
                        ![t].at = IF done = Chunks[th[t].text] THEN "store" ELSE @]
    /\ UNCHANGED <<memory, disk, unsaved>>

(* Mutant of ChunkFails: what was translated so far is kept. *)
ChunkFailsPartly(t) ==
    /\ At(t, "translate")
    /\ th' = [th EXCEPT ![t].at = "store"]
    /\ UNCHANGED <<memory, disk, unsaved>>

(* and if one of them has no translation, the whole text as it was. *)
ChunkFails(t) ==
    /\ At(t, "translate")
    /\ AsItWas(t, th[t].text)
    /\ UNCHANGED <<memory, disk, unsaved>>

Store(t) ==
    /\ At(t, "store")
    /\ SetEntry(th[t].text, th[t].done, TRUE)
    /\ Answered(t, th[t].text, th[t].done, TRUE, FALSE)

(* An error of the cache: a batch passes the text through, a single call    *)
(* raises.                                                                  *)
StoreRaises(t) ==
    /\ At(t, "store")
    /\ "full" \in Faults
    /\ SetEntry(th[t].text, th[t].done, FALSE)
    /\ IF th[t].op = "batch" THEN AsItWas(t, th[t].text)
       ELSE th' = [th EXCEPT ![t] = Idle]

Reply(t) ==
    /\ At(t, "next")
    /\ th[t].todo = {}
    /\ th' = [th EXCEPT ![t] = Idle]
    /\ UNCHANGED <<memory, disk, unsaved>>

-----------------------------------------------------------------------------
Older(e) == [e EXCEPT !.age = IF Expired(e) THEN @ ELSE @ + 1]

Tick ==
    /\ memory' = [i \in DOMAIN memory |-> Older(memory[i])]
    /\ disk' = [k \in Texts |->
           IF disk[k] \in {None, Unreadable} THEN disk[k] ELSE Older(disk[k])]
    /\ UNCHANGED <<unsaved, th>>

(* A file of the cache directory is removed or spoilt from outside. *)
Damage(k) ==
    /\ "damage" \in Faults
    /\ disk[k] \notin {None, Unreadable}
    /\ \E d \in {None, Unreadable} : disk' = [disk EXCEPT ![k] = d]
    /\ unsaved' = unsaved \cup {k}
    /\ UNCHANGED <<memory, th>>

Restart ==
    /\ "restart" \in Faults
    /\ memory' = <<>>
    /\ th' = [t \in Threads |-> Idle]
    /\ UNCHANGED <<disk, unsaved>>

Serve(t) ==
    \/ PassThrough(t) \/ Lookup(t) \/ Chunk(t) \/ ChunkFails(t)
    \/ Store(t) \/ StoreRaises(t) \/ Reply(t)

Next ==
    \/ \E t \in Threads : Serve(t)
    \/ \E t \in Threads, op \in {"one", "batch"}, todo \in SUBSET Texts :
           Ask(t, op, todo)
    \/ Tick
    \/ \E k \in Texts : Damage(k)
    \/ Restart

Spec == Init /\ [][Next]_vars

-----------------------------------------------------------------------------
(* The type invariant; the memory holds each text once, and no more than    *)
(* its limit.                                                               *)
TypeOK ==
    /\ memory \in Seq(Entry) /\ Len(memory) <= MaxMemory
    /\ \A i, j \in DOMAIN memory : memory[i].text = memory[j].text => i = j
    /\ disk \in [Texts -> Entry \cup {None, Unreadable}]
    /\ unsaved \subseteq Texts
    /\ th \in [Threads -> [at : {"idle", "next", "translate", "store"},
                           op : {None, "one", "batch"}, todo : SUBSET Texts,
                           text : Texts \cup {None}, done : Nat,
                           answers : [Texts -> AnswerType \cup {None}]]]

Whole(k, value) == value = Chunks[k]

(* Nothing but whole translations is ever cached: a translation that failed *)
(* half way, or a text passed through, would be served as a translation for *)
(* a month (gateway.py:203-206).                                            *)
CacheIsWhole ==
    /\ \A i \in DOMAIN memory : Whole(memory[i].text, memory[i].value)
    /\ \A k \in Texts : disk[k] \in {None, Unreadable} \/ Whole(k, disk[k].value)

(* Every text of an answer is either wholly translated and said to be, or   *)
(* exactly what it was and said not to be, whichever chunk, cache or disk   *)
(* failed on the way, and whatever happened to the others of its batch.     *)
AnswersAreHonest ==
    \A t \in Threads, k \in Texts :
        LET a == th[t].answers[k] IN
        a # None => /\ a.translated => Whole(k, a.value)
                    /\ ~a.translated => a.value = 0

(* What memory holds is in its file, unless writing it failed or the file   *)
(* was damaged since: an eviction or a restart loses no translation.        *)
MemoryIsOnDisk ==
    \A i \in DOMAIN memory :
        memory[i].text \notin unsaved => disk[memory[i].text] = memory[i]

(* The two levels together, as one store whose answers are never older than *)
(* the lifetime.                                                            *)
Value(e) == [value |-> e.value, age |-> e.age]
Store2 == INSTANCE ExpiringStore WITH
    Keys <- Texts, Values <- {Chunks[k] : k \in Texts}, Readers <- Threads,
    kept <- [k \in Texts |->
        {Value(memory[i]) : i \in {j \in DOMAIN memory : memory[j].text = k}}
        \cup (IF disk[k] \in {None, Unreadable} THEN {} ELSE {Value(disk[k])})],
    found <- [t \in Threads |->
        {<<k, th[t].answers[k].value>> : k \in
            {j \in Texts : th[t].answers[j] # None /\ th[t].answers[j].cached}}]

(* The cache implements the store: eviction, expiry, damage, a restart and  *)
(* a full disk never bring back an entry that is past its lifetime.         *)
ImplementsExpiringStore == Store2!Spec
=============================================================================
