-------------------------- MODULE Translations_proofs --------------------------
(* Theorems about the language gateway and its cache, one of the parts of    *)
(* the server in MCServerParts, for every value of the constants.            *)
EXTENDS MCServerParts, FiniteSetTheorems, SequenceTheorems, TLAPS

(* The cardinalities of the instance are the ones of the theorems.           *)
LEMMA FiniteTexts ==
    ASSUME T!BoundsAssumption
    PROVE  IsFiniteSet(Texts)
BY Zenon DEF T!BoundsAssumption, T!IsFiniteSet, IsFiniteSet

LEMMA SameSizes == \A set : T!Cardinality(set) = Cardinality(set)
BY Zenon DEF T!Cardinality, Cardinality

LEMMA TranslationsOfSpec == Spec => T!Spec
<1>1. Init => T!Init
  BY DEF Init
<1>2. [Next]_vars => [T!Next]_(T!vars)
  BY Zenon DEF Next, vars, tVars, T!vars
<1> QED BY <1>1, <1>2, PTL DEF Spec, T!Spec

-----------------------------------------------------------------------------
(* The cache by itself: a memory of distinct texts, files under their own    *)
(* names, whole translations only, and in the files what memory holds.       *)

WellFormed(m) ==
    /\ m \in Seq(T!Entry) /\ Len(m) <= MaxMemory
    /\ \A i, j \in DOMAIN m : m[i].text = m[j].text => i = j

OnFile(k) == disk[k] \notin {None, Unreadable}

CacheInv ==
    /\ WellFormed(memory)
    /\ disk \in [Texts -> T!Entry \cup {None, Unreadable}]
    /\ unsaved \subseteq Texts
    /\ \A k \in Texts : OnFile(k) => disk[k].text = k
    /\ T!CacheIsWhole
    /\ T!MemoryIsOnDisk

(* A request: what is still to do has no answer yet, and a single text's has *)
(* none until it is done; chunks are counted up to those of the text.        *)
RequestOK(r) ==
    /\ r.at = "idle" => r = T!Idle
    /\ r.at # "idle" => r.op \in {"one", "batch"}
    /\ r.at = "next" => r.done = 0
    /\ r.at \in {"translate", "store"} => r.text \in r.todo
    /\ r.at = "translate" => r.done < Chunks[r.text]
    /\ r.at = "store" => r.done = Chunks[r.text]
    /\ \A k \in r.todo : r.answers[k] = None
    /\ r.op = "one" => /\ \A j, k \in r.todo : j = k
                       /\ r.todo # {} => r.answers = T!NoAnswers

Request ==
    [at : {"idle", "next", "translate", "store"}, op : {None, "one", "batch"},
     todo : SUBSET Texts, text : Texts \cup {None}, done : Nat,
     answers : [Texts -> T!AnswerType \cup {None}]]

Honest(k, a) == a # None => /\ a.translated => T!Whole(k, a.value)
                            /\ ~a.translated => a.value = 0

RequestsInv ==
    /\ th \in [A -> Request]
    /\ \A t \in A : RequestOK(th[t])
    /\ \A t \in A, k \in Texts : Honest(k, th[t].answers[k])

Inv == CacheInv /\ RequestsInv

-----------------------------------------------------------------------------
(* Memory, as a sequence of distinct texts. *)

LEMMA Positions ==
    ASSUME NEW Elems, NEW s \in Seq(Elems)
    PROVE  /\ Len(s) \in Nat /\ DOMAIN s = 1 .. Len(s)
           /\ \A i \in DOMAIN s : s[i] \in Elems
BY LenProperties, ElementOfSeq

LEMMA RemoveFacts ==
    ASSUME NEW Elems, NEW s \in Seq(Elems), NEW n \in DOMAIN s
    PROVE  /\ T!RemoveAt(s, n) \in Seq(Elems)
           /\ Len(T!RemoveAt(s, n)) = Len(s) - 1
           /\ \A i \in 1 .. Len(s) - 1 : T!RemoveAt(s, n)[i] = s[IF i < n THEN i ELSE i + 1]
<1> DEFINE l == SubSeq(s, 1, n - 1)
           r == SubSeq(s, n + 1, Len(s))
<1>1. n \in 1 .. Len(s) /\ Len(s) \in Nat /\ \A i \in 1 .. Len(s) : s[i] \in Elems
  BY Positions
<1>2. l \in Seq(Elems) /\ Len(l) = n - 1 /\ \A i \in 1 .. n - 1 : l[i] = s[i]
  <2>1. 1 \in Int /\ n - 1 \in Int /\ \A i \in 1 .. n - 1 : s[i] \in Elems
    BY <1>1
  <2>2. /\ l \in Seq(Elems) /\ Len(l) = IF 1 <= n - 1 THEN (n - 1) - 1 + 1 ELSE 0
        /\ \A i \in 1 .. (n - 1) - 1 + 1 : l[i] = s[1 + i - 1]
    BY <2>1, SubSeqProperties
  <2> QED BY <1>1, <2>2
<1>3. r \in Seq(Elems) /\ Len(r) = Len(s) - n /\ \A i \in 1 .. Len(s) - n : r[i] = s[n + i]
  <2>1. n + 1 \in Int /\ Len(s) \in Int /\ \A i \in n + 1 .. Len(s) : s[i] \in Elems
    BY <1>1
  <2>2. /\ r \in Seq(Elems) /\ Len(r) = IF n + 1 <= Len(s) THEN Len(s) - (n + 1) + 1 ELSE 0
        /\ \A i \in 1 .. Len(s) - (n + 1) + 1 : r[i] = s[(n + 1) + i - 1]
    BY <2>1, SubSeqProperties
  <2> QED BY <1>1, <2>2
<1> HIDE DEF l, r
<1>4. /\ l \o r \in Seq(Elems) /\ Len(l \o r) = Len(l) + Len(r)
      /\ \A i \in 1 .. Len(l) + Len(r) : (l \o r)[i] = IF i <= Len(l) THEN l[i] ELSE r[i - Len(l)]
  BY <1>2, <1>3, ConcatProperties
<1>5. T!RemoveAt(s, n) = l \o r
  BY DEF T!RemoveAt, l, r
<1>6. ASSUME NEW i \in 1 .. Len(s) - 1
      PROVE  T!RemoveAt(s, n)[i] = s[IF i < n THEN i ELSE i + 1]
  <2>1. CASE i < n
    <3>1. i \in 1 .. n - 1 /\ i \in 1 .. Len(l) + Len(r) /\ i <= Len(l)
      BY <1>1, <1>2, <1>3, <2>1
    <3> QED BY <1>2, <1>4, <1>5, <2>1, <3>1
  <2>2. CASE ~(i < n)
    <3>1. i - (n - 1) \in 1 .. Len(s) - n /\ i \in 1 .. Len(l) + Len(r) /\ ~(i <= Len(l))
          /\ n + (i - (n - 1)) = i + 1
      BY <1>1, <1>2, <1>3, <2>2
    <3>2. T!RemoveAt(s, n)[i] = r[i - (n - 1)]
      BY <1>2, <1>4, <1>5, <3>1
    <3>3. r[i - (n - 1)] = s[n + (i - (n - 1))]
      BY <1>3, <3>1
    <3> QED BY <2>2, <3>1, <3>2, <3>3
  <2> QED BY <2>1, <2>2
<1>7. Len(T!RemoveAt(s, n)) = Len(s) - 1 /\ T!RemoveAt(s, n) \in Seq(Elems)
  BY <1>1, <1>2, <1>3, <1>4, <1>5, SMTT(60)
<1> QED BY <1>6, <1>7

LEMMA PlaceFacts ==
    ASSUME NEW k, T!InMemory(k)
    PROVE  T!Place(k) \in DOMAIN memory /\ T!Remembered(k) = memory[T!Place(k)] /\ T!Remembered(k).text = k
BY DEF T!InMemory, T!Place, T!Remembered

(* What Without leaves is the entries of the other texts. *)
LEMMA WithoutFacts ==
    ASSUME WellFormed(memory), MaxMemory \in Nat, NEW k
    PROVE  /\ WellFormed(T!Without(k))
           /\ \A i \in DOMAIN T!Without(k) :
                  /\ T!Without(k)[i].text # k
                  /\ \E j \in DOMAIN memory : T!Without(k)[i] = memory[j]
<1>1. memory \in Seq(T!Entry) /\ Len(memory) \in Nat /\ DOMAIN memory = 1 .. Len(memory)
      /\ Len(memory) <= MaxMemory
  BY Positions DEF WellFormed
<1>2. CASE ~T!InMemory(k)
  BY <1>2 DEF T!Without, T!InMemory
<1>3. CASE T!InMemory(k)
  <2> DEFINE n == T!Place(k)
             m == T!RemoveAt(memory, n)
             src(i) == IF i < n THEN i ELSE i + 1
  <2>1. n \in 1 .. Len(memory) /\ memory[n].text = k
    BY <1>1, <1>3, PlaceFacts
  <2>2. T!Without(k) = m
    BY <1>3 DEF T!Without
  <2>3. m \in Seq(T!Entry) /\ Len(m) = Len(memory) - 1 /\ \A i \in 1 .. Len(memory) - 1 : m[i] = memory[src(i)]
    BY <1>1, <2>1, RemoveFacts
  <2> HIDE DEF m, n
  <2>4. DOMAIN m = 1 .. Len(memory) - 1
    BY <2>3, Positions
  <2>5. ASSUME NEW i \in DOMAIN m
        PROVE  src(i) \in DOMAIN memory /\ src(i) # n /\ m[i] = memory[src(i)] /\ m[i].text # k
    <3>1. i \in 1 .. Len(memory) - 1
      BY <2>4
    <3>2. src(i) \in DOMAIN memory /\ src(i) # n
      BY <1>1, <2>1, <3>1
    <3>3. m[i] = memory[src(i)]
      BY <2>3, <3>1
    <3>4. memory[src(i)].text # memory[n].text
      BY <1>1, <2>1, <3>2 DEF WellFormed
    <3> QED BY <2>1, <3>2, <3>3, <3>4
  <2>6. ASSUME NEW i \in DOMAIN m, NEW j \in DOMAIN m, m[i].text = m[j].text
        PROVE  i = j
    <3>1. src(i) = src(j)
      BY <2>5, <2>6 DEF WellFormed
    <3>2. i \in Nat /\ j \in Nat /\ n \in Nat
      BY <1>1, <2>1, <2>4
    <3> QED BY <3>1, <3>2
  <2>7. Len(m) <= MaxMemory
    BY <1>1, <2>3
  <2> QED BY <2>2, <2>3, <2>5, <2>6, <2>7 DEF WellFormed
<1> QED BY <1>2, <1>3

(* WithNewest keeps a well-formed memory within its limit. *)
LEMMA NewestFacts ==
    ASSUME WellFormed(memory), MaxMemory \in Nat \ {0}, NEW e \in T!Entry
    PROVE  /\ WellFormed(T!WithNewest(e))
           /\ \A i \in DOMAIN T!WithNewest(e) :
                  \/ T!WithNewest(e)[i] = e
                  \/ \E j \in DOMAIN memory : T!WithNewest(e)[i] = memory[j] /\ memory[j].text # e.text
<1> DEFINE rest == T!Without(e.text)
           all == Append(rest, e)
           Known(x) == x = e \/ \E j \in DOMAIN memory : x = memory[j] /\ memory[j].text # e.text
<1>1. WellFormed(rest) /\ \A i \in DOMAIN rest : rest[i].text # e.text /\ Known(rest[i])
  BY WithoutFacts
<1> HIDE DEF rest, Known
<1>2. rest \in Seq(T!Entry) /\ Len(rest) \in Nat /\ DOMAIN rest = 1 .. Len(rest) /\ Len(rest) <= MaxMemory
  BY <1>1, Positions DEF WellFormed
<1>3. /\ all \in Seq(T!Entry) /\ Len(all) = Len(rest) + 1 /\ DOMAIN all = 1 .. Len(rest) + 1
      /\ \A i \in 1 .. Len(rest) : all[i] = rest[i]
      /\ all[Len(rest) + 1] = e
  <2>1. all \in Seq(T!Entry) /\ Len(all) = Len(rest) + 1 /\ (\A i \in 1 .. Len(rest) : all[i] = rest[i])
        /\ all[Len(rest) + 1] = e
    BY <1>2, AppendProperties
  <2> QED BY <2>1, Positions
<1> HIDE DEF all
<1>4. Known(e)
  BY DEF Known
<1>5. \A i \in DOMAIN all : Known(all[i])
  BY <1>1, <1>2, <1>3, <1>4
<1>6. ASSUME NEW i \in DOMAIN all, NEW j \in DOMAIN all, all[i].text = all[j].text
      PROVE  i = j
  <2>1. CASE i \in 1 .. Len(rest) /\ j \in 1 .. Len(rest)
    <3>1. all[i] = rest[i] /\ all[j] = rest[j]
      BY <1>3, <2>1
    <3> QED BY <1>1, <1>2, <1>6, <2>1, <3>1 DEF WellFormed
  <2>2. CASE i = Len(rest) + 1 /\ j \in 1 .. Len(rest)
    BY <1>1, <1>2, <1>3, <1>6, <2>2
  <2>3. CASE j = Len(rest) + 1 /\ i \in 1 .. Len(rest)
    BY <1>1, <1>2, <1>3, <1>6, <2>3
  <2>4. i \in 1 .. Len(rest) + 1 /\ j \in 1 .. Len(rest) + 1
    BY <1>3
  <2> QED BY <1>2, <2>1, <2>2, <2>3, <2>4
<1>7. CASE Len(all) > MaxMemory
  <2>1. all # <<>> /\ T!WithNewest(e) = Tail(all)
    <3>1. T!WithNewest(e) = Tail(all)
      BY <1>7 DEF T!WithNewest, all, rest
    <3> QED BY <1>2, <1>3, <3>1, EmptySeq
  <2>2. /\ Tail(all) \in Seq(T!Entry) /\ Len(Tail(all)) = Len(rest)
        /\ \A i \in 1 .. Len(rest) : Tail(all)[i] = all[i + 1]
    <3>1. Tail(all) \in Seq(T!Entry) /\ Len(Tail(all)) = Len(all) - 1
          /\ \A i \in 1 .. Len(Tail(all)) : Tail(all)[i] = all[i + 1]
      BY <1>3, <2>1, HeadTailProperties
    <3> QED BY <1>2, <1>3, <3>1
  <2>3. DOMAIN Tail(all) = 1 .. Len(rest)
    BY <2>2, Positions
  <2>4. \A i \in 1 .. Len(rest) : i + 1 \in DOMAIN all
    BY <1>2, <1>3
  <2>5. ASSUME NEW i \in 1 .. Len(rest), NEW j \in 1 .. Len(rest), Tail(all)[i].text = Tail(all)[j].text
        PROVE  i = j
    <3>1. i + 1 = j + 1
      BY <1>6, <2>2, <2>4, <2>5
    <3> QED BY <1>2, <3>1
  <2>6. WellFormed(Tail(all))
    BY <1>2, <2>2, <2>3, <2>5 DEF WellFormed
  <2>7. \A i \in 1 .. Len(rest) : Known(Tail(all)[i])
    BY <1>5, <2>2, <2>4
  <2> QED BY <2>1, <2>3, <2>6, <2>7 DEF Known
<1>8. CASE ~(Len(all) > MaxMemory)
  <2>1. T!WithNewest(e) = all
    BY <1>8 DEF T!WithNewest, all, rest
  <2>2. WellFormed(all)
    BY <1>2, <1>3, <1>6, <1>8 DEF WellFormed
  <2> QED BY <1>5, <2>1, <2>2 DEF Known
<1> QED BY <1>7, <1>8

-----------------------------------------------------------------------------
(* The methods of the cache. *)

(* Every entry of memory or of a file is new or was there before. *)
Keeps(new) ==
    /\ \A i \in DOMAIN memory' : memory'[i] = new \/ \E j \in DOMAIN memory : memory'[i] = memory[j]
    /\ \A k \in Texts : OnFile(k)' => disk'[k] = new \/ (OnFile(k) /\ disk'[k] = disk[k])

LEMMA CacheTypes ==
    ASSUME CacheInv
    PROVE  /\ \A i \in DOMAIN memory : /\ memory[i] \in T!Entry
                                       /\ T!Whole(memory[i].text, memory[i].value)
                                       /\ memory[i].text \notin unsaved => disk[memory[i].text] = memory[i]
           /\ \A k \in Texts : OnFile(k) => /\ disk[k] \in T!Entry /\ disk[k].text = k
                                            /\ T!Whole(k, disk[k].value)
BY Positions DEF CacheInv, WellFormed, T!CacheIsWhole, T!MemoryIsOnDisk, OnFile

LEMMA NewestKeeps ==
    ASSUME CacheInv, MaxMemory \in Nat \ {0}, NEW e \in T!Entry, memory' = T!WithNewest(e),
           T!Whole(e.text, e.value),
           disk' \in [Texts -> T!Entry \cup {None, Unreadable}], unsaved' \subseteq Texts,
           disk'[e.text] \in {e, disk[e.text]}, e.text \notin unsaved' => disk'[e.text] = e,
           \A j \in Texts \ {e.text} : disk'[j] = disk[j] /\ (j \notin unsaved' => j \notin unsaved)
    PROVE  CacheInv' /\ Keeps(e)
<1>1. WellFormed(memory)' /\ \A i \in DOMAIN memory' :
          memory'[i] = e \/ \E j \in DOMAIN memory : memory'[i] = memory[j] /\ memory[j].text # e.text
  <2>1. WellFormed(memory)
    BY DEF CacheInv
  <2>2. /\ WellFormed(T!WithNewest(e))
        /\ \A i \in DOMAIN T!WithNewest(e) :
               \/ T!WithNewest(e)[i] = e
               \/ \E j \in DOMAIN memory : T!WithNewest(e)[i] = memory[j] /\ memory[j].text # e.text
    BY <2>1, NewestFacts
  <2> QED BY <2>2 DEF WellFormed
<1>2. e.text \in Texts
  BY DEF T!Entry
<1>3. ASSUME NEW i \in DOMAIN memory'
      PROVE  /\ memory'[i].text \in Texts
             /\ T!Whole(memory'[i].text, memory'[i].value)
             /\ memory'[i].text \notin unsaved' => disk'[memory'[i].text] = memory'[i]
  <2>1. CASE memory'[i] = e
    BY <1>2, <2>1
  <2>2. ASSUME NEW j \in DOMAIN memory, memory'[i] = memory[j], memory[j].text # e.text
        PROVE  /\ memory'[i].text \in Texts
               /\ T!Whole(memory'[i].text, memory'[i].value)
               /\ memory'[i].text \notin unsaved' => disk'[memory'[i].text] = memory'[i]
    BY <2>2, CacheTypes DEF T!Entry
  <2> QED BY <1>1, <2>1, <2>2
<1>4. ASSUME NEW k \in Texts, OnFile(k)'
      PROVE  /\ disk'[k].text = k /\ T!Whole(k, disk'[k].value)
             /\ disk'[k] = e \/ (OnFile(k) /\ disk'[k] = disk[k])
  <2>1. CASE disk'[k] = disk[k]
    BY <1>4, <2>1, CacheTypes DEF OnFile
  <2>2. CASE k = e.text /\ disk'[k] = e
    BY <2>2
  <2> QED BY <2>1, <2>2
<1>5. T!CacheIsWhole' /\ T!MemoryIsOnDisk'
  BY <1>3, <1>4 DEF T!CacheIsWhole, T!MemoryIsOnDisk, T!Whole, OnFile
<1> QED BY <1>1, <1>4, <1>5 DEF CacheInv, Keeps

LEMMA FoundFacts ==
    ASSUME CacheInv, NEW k \in Texts, T!Hit(k)
    PROVE  /\ T!Found(k) \in T!Entry /\ T!Found(k).text = k /\ T!Whole(k, T!Found(k).value) /\ ~T!Expired(T!Found(k))
           /\ (k \notin unsaved => disk[k] = T!Found(k))
           /\ \/ \E i \in DOMAIN memory : memory[i] = T!Found(k)
              \/ OnFile(k) /\ T!Found(k) = disk[k]
<1>1. CASE T!InMemory(k)
  <2>1. T!Found(k) = memory[T!Place(k)] /\ T!Place(k) \in DOMAIN memory /\ memory[T!Place(k)].text = k
        /\ ~T!Expired(T!Found(k))
    BY <1>1, PlaceFacts DEF T!Found, T!Hit
  <2> QED BY <2>1, CacheTypes
<1>2. CASE ~T!InMemory(k)
  <2>1. T!Found(k) = disk[k] /\ OnFile(k) /\ ~T!Expired(T!Found(k))
    BY <1>2 DEF T!Found, T!Hit, OnFile
  <2> QED BY <2>1, CacheTypes
<1> QED BY <1>1, <1>2

LEMMA TouchKeeps ==
    ASSUME CacheInv, MaxMemory \in Nat \ {0}, NEW k \in Texts, T!Hit(k), T!TouchEntry(k)
    PROVE  CacheInv' /\ Keeps(T!Found(k))
<1>1. /\ T!Found(k) \in T!Entry /\ T!Found(k).text = k /\ T!Whole(k, T!Found(k).value)
      /\ k \notin unsaved => disk[k] = T!Found(k)
  BY FoundFacts
<1>2. memory' = T!WithNewest(T!Found(k)) /\ UNCHANGED <<disk, unsaved>>
  BY DEF T!TouchEntry
<1>3. disk' \in [Texts -> T!Entry \cup {None, Unreadable}] /\ unsaved' \subseteq Texts
  BY <1>2 DEF CacheInv
<1> QED BY <1>1, <1>2, <1>3, NewestKeeps

LEMMA SetKeeps ==
    ASSUME CacheInv, T!BoundsAssumption, NEW k \in Texts, NEW saved \in BOOLEAN, T!SetEntry(k, Chunks[k], saved)
    PROVE  CacheInv' /\ Keeps([text |-> k, value |-> Chunks[k], age |-> 0])
<1> DEFINE e == [text |-> k, value |-> Chunks[k], age |-> 0]
<1>1. e \in T!Entry /\ e.text = k /\ e.value = Chunks[k]
  BY DEF T!Entry, T!BoundsAssumption
<1>2. /\ memory' = T!WithNewest(e)
      /\ disk' = IF saved THEN [disk EXCEPT ![k] = e] ELSE disk
      /\ unsaved' = IF saved THEN unsaved \ {k} ELSE unsaved \cup {k}
  BY DEF T!SetEntry
<1> HIDE DEF e
<1>3. disk \in [Texts -> T!Entry \cup {None, Unreadable}] /\ unsaved \subseteq Texts
  BY DEF CacheInv
<1>4. disk' \in [Texts -> T!Entry \cup {None, Unreadable}] /\ unsaved' \subseteq Texts
  BY <1>1, <1>2, <1>3
<1>5. /\ disk'[k] \in {e, disk[k]} /\ (k \notin unsaved' => disk'[k] = e)
      /\ \A j \in Texts \ {k} : disk'[j] = disk[j] /\ (j \notin unsaved' => j \notin unsaved)
  BY <1>1, <1>2, <1>3
<1>6. MaxMemory \in Nat \ {0}
  BY DEF T!BoundsAssumption
<1>7. CacheInv' /\ Keeps(e)
  BY <1>1, <1>2, <1>4, <1>5, <1>6, NewestKeeps DEF T!Whole
<1> QED BY <1>7 DEF e

(* Memory and files only lose entries. *)
Loses == /\ \A i \in DOMAIN memory' : \E j \in DOMAIN memory : memory'[i] = memory[j]
         /\ \A k \in Texts : OnFile(k)' => OnFile(k) /\ disk'[k] = disk[k]

LEMMA LosesKeeps ==
    ASSUME CacheInv, Loses, WellFormed(memory'),
           disk' \in [Texts -> T!Entry \cup {None, Unreadable}], unsaved' \subseteq Texts,
           \A i \in DOMAIN memory' : memory'[i].text \notin unsaved' =>
               memory'[i].text \notin unsaved /\ disk'[memory'[i].text] = disk[memory'[i].text]
    PROVE  CacheInv'
<1>1. ASSUME NEW i \in DOMAIN memory'
      PROVE  /\ T!Whole(memory'[i].text, memory'[i].value)
             /\ memory'[i].text \notin unsaved' => disk'[memory'[i].text] = memory'[i]
  BY CacheTypes DEF Loses
<1>2. ASSUME NEW k \in Texts, OnFile(k)'
      PROVE  disk'[k].text = k /\ T!Whole(k, disk'[k].value)
  BY <1>2, CacheTypes DEF Loses
<1>3. T!CacheIsWhole' /\ T!MemoryIsOnDisk'
  BY <1>1, <1>2 DEF T!CacheIsWhole, T!MemoryIsOnDisk, T!Whole, OnFile
<1> QED BY <1>2, <1>3 DEF CacheInv, WellFormed

LEMMA DropKeeps ==
    ASSUME CacheInv, MaxMemory \in Nat \ {0}, NEW k \in Texts, T!DropEntry(k)
    PROVE  CacheInv' /\ Loses
<1>1. memory' = T!Without(k) /\ disk' = [disk EXCEPT ![k] = None] /\ unsaved' = unsaved \ {k}
  BY DEF T!DropEntry
<1>2. /\ WellFormed(memory')
      /\ \A i \in DOMAIN memory' : memory'[i].text # k /\ \E j \in DOMAIN memory : memory'[i] = memory[j]
  <2>1. WellFormed(memory)
    BY DEF CacheInv
  <2> QED BY <1>1, <2>1, WithoutFacts
<1>3. disk \in [Texts -> T!Entry \cup {None, Unreadable}] /\ unsaved \subseteq Texts
  BY DEF CacheInv
<1>4. Loses
  BY <1>1, <1>2, <1>3 DEF Loses, OnFile
<1>5. \A i \in DOMAIN memory' : memory'[i].text \in Texts
  BY <1>2, CacheTypes DEF T!Entry
<1> QED BY <1>1, <1>2, <1>3, <1>4, <1>5, LosesKeeps

LEMMA DamageKeeps ==
    ASSUME CacheInv, NEW k \in Texts, T!Damage(k)
    PROVE  CacheInv' /\ Loses
<1>1. PICK d \in {None, Unreadable} : disk' = [disk EXCEPT ![k] = d]
  BY DEF T!Damage
<1>2. unsaved' = unsaved \cup {k} /\ UNCHANGED memory
  BY DEF T!Damage
<1>3. disk \in [Texts -> T!Entry \cup {None, Unreadable}] /\ unsaved \subseteq Texts /\ WellFormed(memory')
  BY <1>2 DEF CacheInv
<1>4. Loses
  BY <1>1, <1>2, <1>3 DEF Loses, OnFile
<1>5. \A i \in DOMAIN memory : memory[i].text \in Texts
  BY CacheTypes DEF T!Entry
<1> QED BY <1>1, <1>2, <1>3, <1>4, <1>5, LosesKeeps

LEMMA RestartKeeps ==
    ASSUME CacheInv, MaxMemory \in Nat \ {0}, T!Restart
    PROVE  CacheInv' /\ Loses
<1>1. memory' = <<>> /\ UNCHANGED <<disk, unsaved>>
  BY DEF T!Restart
<1>2. <<>> \in Seq(T!Entry) /\ Len(<<>>) = 0 /\ DOMAIN <<>> = {}
  BY EmptySeq, LenProperties
<1>3. WellFormed(memory') /\ Loses
  BY <1>1, <1>2 DEF WellFormed, Loses, OnFile
<1> QED BY <1>1, <1>2, <1>3, LosesKeeps DEF CacheInv

(* A tick makes each entry older and changes nothing else of it. *)
LEMMA OlderFacts ==
    ASSUME T!BoundsAssumption, NEW e \in T!Entry
    PROVE  T!Older(e) \in T!Entry /\ T!Older(e).text = e.text /\ T!Older(e).value = e.value
           /\ T!Older(e).age = IF e.age > Lifetime THEN e.age ELSE e.age + 1
<1>1. Lifetime \in Nat /\ e.age \in 0 .. Lifetime + 1
  BY DEF T!Entry, T!BoundsAssumption
<1>2. (IF T!Expired(e) THEN e.age ELSE e.age + 1) \in 0 .. Lifetime + 1
  BY <1>1 DEF T!Expired
<1>3. T!Older(e) = [e EXCEPT !.age = IF T!Expired(e) THEN e.age ELSE e.age + 1]
  BY DEF T!Older
<1> QED BY <1>2, <1>3 DEF T!Entry, T!Expired

LEMMA TickKeeps ==
    ASSUME CacheInv, T!BoundsAssumption, T!NoneAssumption, T!Tick
    PROVE  /\ CacheInv'
           /\ DOMAIN memory' = DOMAIN memory /\ \A i \in DOMAIN memory : memory'[i] = T!Older(memory[i])
           /\ \A k \in Texts : (OnFile(k)' <=> OnFile(k)) /\ (OnFile(k) => disk'[k] = T!Older(disk[k]))
<1>1. /\ memory \in Seq(T!Entry) /\ DOMAIN memory = 1 .. Len(memory) /\ Len(memory) \in Nat
      /\ memory' = [i \in 1 .. Len(memory) |-> T!Older(memory[i])]
  <2>1. memory \in Seq(T!Entry)
    BY DEF CacheInv, WellFormed
  <2> QED BY <2>1, Positions DEF T!Tick
<1>2. \A i \in 1 .. Len(memory) : /\ memory[i] \in T!Entry /\ memory'[i] = T!Older(memory[i])
                                  /\ memory'[i] \in T!Entry /\ memory'[i].text = memory[i].text
                                  /\ memory'[i].value = memory[i].value
  BY <1>1, CacheTypes, OlderFacts
<1>3. memory' \in Seq(T!Entry) /\ Len(memory') = Len(memory) /\ DOMAIN memory' = DOMAIN memory
  BY <1>1, <1>2, IsASeq, LenProperties
<1>4. WellFormed(memory')
  BY <1>1, <1>2, <1>3 DEF WellFormed, CacheInv
<1>5. ASSUME NEW k \in Texts
      PROVE  /\ ~OnFile(k) => disk'[k] = disk[k]
             /\ OnFile(k) => disk'[k] = T!Older(disk[k]) /\ disk'[k] \in T!Entry
                             /\ disk'[k].text = k /\ T!Whole(k, disk'[k].value)
             /\ OnFile(k)' <=> OnFile(k)
  <2>1. CASE OnFile(k)
    <3>1. disk'[k] = T!Older(disk[k])
      BY <2>1 DEF T!Tick, OnFile
    <3>2. disk[k] \in T!Entry /\ disk[k].text = k /\ T!Whole(k, disk[k].value)
      BY <2>1, CacheTypes
    <3>3. disk'[k] \in T!Entry /\ disk'[k].text = k /\ T!Whole(k, disk'[k].value)
      BY <3>1, <3>2, OlderFacts DEF T!Whole
    <3> QED BY <2>1, <3>1, <3>3 DEF T!NoneAssumption, OnFile
  <2>2. CASE ~OnFile(k)
    BY <2>2 DEF T!Tick, OnFile
  <2> QED BY <2>1, <2>2
<1>6. disk' \in [Texts -> T!Entry \cup {None, Unreadable}]
  <2>1. \A k \in Texts : disk'[k] \in T!Entry \cup {None, Unreadable}
    BY <1>5 DEF CacheInv
  <2>2. disk' = [k \in Texts |-> disk'[k]]
    BY DEF T!Tick
  <2> QED BY <2>1, <2>2
<1>7. unsaved' = unsaved
  BY DEF T!Tick
<1>8. T!MemoryIsOnDisk'
  <2> SUFFICES ASSUME NEW i \in DOMAIN memory, memory[i].text \notin unsaved
               PROVE  disk'[memory[i].text] = memory'[i]
    BY <1>1, <1>2, <1>3, <1>7 DEF T!MemoryIsOnDisk
  <2>1. disk[memory[i].text] = memory[i] /\ memory[i] \in T!Entry /\ memory[i].text \in Texts
    BY CacheTypes DEF T!Entry
  <2>2. OnFile(memory[i].text)
    BY <2>1 DEF OnFile, T!NoneAssumption
  <2> QED BY <1>1, <1>2, <1>5, <2>1, <2>2
<1>9. T!CacheIsWhole'
  <2>1. \A i \in DOMAIN memory' : T!Whole(memory'[i].text, memory'[i].value)
    BY <1>1, <1>2, <1>3, CacheTypes
  <2> QED BY <1>5, <2>1 DEF T!CacheIsWhole, OnFile, T!Whole
<1>10. CacheInv'
  BY <1>4, <1>5, <1>6, <1>7, <1>8, <1>9 DEF CacheInv, WellFormed
<1> QED BY <1>1, <1>2, <1>3, <1>5, <1>10

-----------------------------------------------------------------------------
(* The requests. *)

LEMMA RequestStep ==
    ASSUME RequestsInv, NEW t \in A, NEW r \in Request, RequestOK(r),
           \A k \in Texts : Honest(k, r.answers[k]), th' = [th EXCEPT ![t] = r]
    PROVE  RequestsInv' /\ th'[t] = r /\ \A u \in A \ {t} : th'[u] = th[u]
<1>1. th' \in [A -> Request] /\ th'[t] = r /\ \A u \in A \ {t} : th'[u] = th[u]
  BY DEF RequestsInv
<1>2. ASSUME NEW u \in A
      PROVE  RequestOK(th'[u]) /\ \A k \in Texts : Honest(k, th'[u].answers[k])
  BY <1>1 DEF RequestsInv
<1> HIDE DEF RequestOK, Honest
<1> QED BY <1>1, <1>2 DEF RequestsInv, RequestOK, Honest, T!Whole, T!Idle, T!NoAnswers

LEMMA RequestTypes ==
    ASSUME RequestsInv, NEW t \in A
    PROVE  th[t] \in Request /\ RequestOK(th[t]) /\ \A k \in Texts : Honest(k, th[t].answers[k])
BY DEF RequestsInv

LEMMA IdleFacts ==
    ASSUME RequestsInv, NEW t \in A
    PROVE  /\ T!Idle \in Request /\ RequestOK(T!Idle) /\ \A k \in Texts : Honest(k, T!Idle.answers[k])
           /\ T!Idle.answers = T!NoAnswers /\ T!Idle.at = "idle" /\ T!Idle.op = None
<1>1. T!NoAnswers \in [Texts -> T!AnswerType \cup {None}] /\ \A k \in Texts : T!NoAnswers[k] = None
  BY DEF T!NoAnswers
<1>2. /\ T!Idle.at = "idle" /\ T!Idle.op = None /\ T!Idle.todo = {} /\ T!Idle.text = None /\ T!Idle.done = 0
      /\ T!Idle.answers = T!NoAnswers
  BY DEF T!Idle
<1>3. T!Idle \in Request
  BY <1>1 DEF T!Idle, Request
<1>4. RequestOK(T!Idle)
  BY <1>1, <1>2 DEF RequestOK
<1>5. \A k \in Texts : Honest(k, T!Idle.answers[k])
  BY <1>1, <1>2 DEF Honest
<1> QED BY <1>2, <1>3, <1>4, <1>5

LEMMA ToIdle ==
    ASSUME RequestsInv, NEW t \in A, th' = [th EXCEPT ![t] = T!Idle]
    PROVE  RequestsInv' /\ th'[t] = T!Idle /\ \A u \in A \ {t} : th'[u] = th[u]
BY IdleFacts, RequestStep

LEMMA AskRequest ==
    ASSUME T!BoundsAssumption, RequestsInv, NEW t \in A, NEW op \in {"one", "batch"},
           NEW todo \in SUBSET Texts, T!Ask(t, op, todo)
    PROVE  RequestsInv' /\ th'[t].answers = T!NoAnswers /\ th[t].answers = T!NoAnswers
           /\ \A u \in A \ {t} : th'[u] = th[u]
<1> DEFINE r == [T!Idle EXCEPT !.at = "next", !.op = op, !.todo = todo]
<1>1. /\ r.at = "next" /\ r.op = op /\ r.todo = todo /\ r.done = 0 /\ r.text = None
      /\ r.answers = T!NoAnswers
  BY DEF T!Idle
<1>2. T!NoAnswers \in [Texts -> T!AnswerType \cup {None}] /\ \A k \in Texts : T!NoAnswers[k] = None
  BY DEF T!NoAnswers
<1>3. r \in Request
  BY <1>2 DEF Request, T!Idle
<1>4. th' = [th EXCEPT ![t] = r] /\ th[t].at = "idle" /\ (op = "one" => Cardinality(todo) = 1)
  BY SameSizes DEF T!Ask, T!At
<1> HIDE DEF r
<1>5. op = "one" => \A j, k \in todo : j = k
  <2> SUFFICES ASSUME op = "one" PROVE \A j, k \in todo : j = k
    OBVIOUS
  <2>1. IsFiniteSet(todo) /\ Cardinality(todo) = 1
    BY <1>4, FS_Subset, FiniteTexts
  <2>2. \E x : todo = {x}
    BY <2>1, FS_Singleton
  <2> QED BY <2>2
<1>6. RequestOK(r)
  BY <1>1, <1>2, <1>5 DEF RequestOK
<1>7. \A k \in Texts : Honest(k, r.answers[k])
  BY <1>1, <1>2 DEF Honest
<1>8. th[t] = T!Idle
  BY <1>4, RequestTypes DEF RequestOK
<1> QED BY <1>1, <1>3, <1>4, <1>6, <1>7, <1>8, RequestStep, IdleFacts

LEMMA AnsweredRequest ==
    ASSUME RequestsInv, NEW t \in A, NEW k \in th[t].todo, th[t].at # "idle",
           NEW value \in Nat, NEW translated \in BOOLEAN, NEW cached \in BOOLEAN,
           translated => T!Whole(k, value), ~translated => value = 0,
           T!Answered(t, k, value, translated, cached)
    PROVE  /\ RequestsInv' /\ th[t].answers[k] = None /\ k \in Texts
           /\ th'[t].answers = [th[t].answers EXCEPT ![k] =
                                   [value |-> value, cached |-> cached, translated |-> translated]]
           /\ \A u \in A \ {t} : th'[u] = th[u]
<1> DEFINE a == [value |-> value, cached |-> cached, translated |-> translated]
           r == [th[t] EXCEPT !.at = "next", !.text = None, !.done = 0, !.todo = @ \ {k},
                              !.answers[k] = a]
<1>1. th[t] \in Request /\ RequestOK(th[t]) /\ \A j \in Texts : Honest(j, th[t].answers[j])
  BY RequestTypes
<1>2. a \in T!AnswerType /\ a.value = value /\ a.translated = translated
  BY DEF T!AnswerType
<1>3. Honest(k, a)
  BY <1>2 DEF Honest
<1>4. th' = [th EXCEPT ![t] = r]
  <2>1. th \in [A -> Request] /\ th[t] \in Request
    BY DEF RequestsInv
  <2> QED BY <2>1 DEF T!Answered, Request
<1> HIDE DEF a
<1>5. k \in Texts
  BY <1>1 DEF Request
<1>6. /\ r \in Request /\ r.at = "next" /\ r.op = th[t].op /\ r.done = 0 /\ r.todo = th[t].todo \ {k}
      /\ r.answers = [th[t].answers EXCEPT ![k] = a]
  BY <1>1, <1>2, <1>5 DEF Request
<1> HIDE DEF r
<1>7. /\ \A j \in r.todo : r.answers[j] = th[t].answers[j] /\ j \in th[t].todo
      /\ th[t].answers[k] = None
  BY <1>1, <1>6 DEF RequestOK, Request
<1>8. RequestOK(r)
  BY <1>1, <1>6, <1>7 DEF RequestOK
<1>9. \A j \in Texts : Honest(j, r.answers[j])
  <2> SUFFICES ASSUME NEW j \in Texts PROVE Honest(j, r.answers[j])
    OBVIOUS
  <2>1. CASE j = k
    <3>1. r.answers[j] = a
      BY <1>1, <1>6, <2>1 DEF Request
    <3> QED BY <1>3, <2>1, <3>1
  <2>2. CASE j # k
    <3>1. r.answers[j] = th[t].answers[j]
      BY <1>1, <1>6, <2>2 DEF Request
    <3> QED BY <1>1, <3>1
  <2> QED BY <2>1, <2>2
<1>10. RequestsInv' /\ th'[t] = r /\ \A u \in A \ {t} : th'[u] = th[u]
  BY <1>4, <1>6, <1>8, <1>9, RequestStep
<1> QED BY <1>5, <1>6, <1>7, <1>10 DEF a

LEMMA LookRequest ==
    ASSUME T!BoundsAssumption, RequestsInv, NEW t \in A, th[t].at = "next", NEW k \in th[t].todo,
           th' = [th EXCEPT ![t].at = "translate", ![t].text = k]
    PROVE  RequestsInv' /\ th'[t].answers = th[t].answers /\ \A u \in A \ {t} : th'[u] = th[u]
<1> DEFINE r == [th[t] EXCEPT !.at = "translate", !.text = k]
<1>1. th[t] \in Request /\ RequestOK(th[t]) /\ \A j \in Texts : Honest(j, th[t].answers[j])
  BY RequestTypes
<1>2. k \in Texts /\ Chunks[k] \in Nat \ {0}
  BY <1>1 DEF Request, T!BoundsAssumption
<1>3. /\ r \in Request /\ r.at = "translate" /\ r.text = k /\ r.op = th[t].op /\ r.done = th[t].done
      /\ r.todo = th[t].todo /\ r.answers = th[t].answers
  BY <1>1, <1>2 DEF Request
<1>4. th' = [th EXCEPT ![t] = r]
  OBVIOUS
<1> HIDE DEF r
<1>5. RequestOK(r)
  BY <1>1, <1>2, <1>3 DEF RequestOK
<1> QED BY <1>1, <1>3, <1>4, <1>5, RequestStep

LEMMA ChunkRequest ==
    ASSUME T!BoundsAssumption, T!NoneAssumption, RequestsInv, NEW t \in A, T!Chunk(t)
    PROVE  RequestsInv' /\ th'[t].answers = th[t].answers /\ \A u \in A \ {t} : th'[u] = th[u]
<1> DEFINE n == th[t].done + 1
           r == [th[t] EXCEPT !.done = n, !.at = IF n = Chunks[th[t].text] THEN "store" ELSE @]
<1>1. th[t] \in Request /\ RequestOK(th[t]) /\ \A j \in Texts : Honest(j, th[t].answers[j])
  BY RequestTypes
<1>2. th[t].at = "translate" /\ th' = [th EXCEPT ![t] = r]
  BY DEF T!Chunk, T!At
<1>3. th[t].text \in th[t].todo /\ th[t].done < Chunks[th[t].text] /\ th[t].text \in Texts
  BY <1>1, <1>2 DEF RequestOK, Request
<1>4. n \in Nat /\ n <= Chunks[th[t].text] /\ Chunks[th[t].text] \in Nat
  BY <1>1, <1>3 DEF Request, T!BoundsAssumption
<1> HIDE DEF n
<1>5. /\ r \in Request /\ r.at = (IF n = Chunks[th[t].text] THEN "store" ELSE "translate")
      /\ r.text = th[t].text /\ r.op = th[t].op /\ r.done = n
      /\ r.todo = th[t].todo /\ r.answers = th[t].answers
  BY <1>1, <1>2, <1>4 DEF Request
<1> HIDE DEF r
<1>6. RequestOK(r)
  BY <1>1, <1>2, <1>3, <1>4, <1>5 DEF RequestOK
<1> QED BY <1>1, <1>2, <1>5, <1>6, RequestStep

-----------------------------------------------------------------------------
(* The two levels as one store: what is kept of a text, and what each thread *)
(* has found.                                                                *)

Kept == [k \in Texts |->
            {T!Value(memory[i]) : i \in {j \in DOMAIN memory : memory[j].text = k}}
            \cup (IF disk[k] \in {None, Unreadable} THEN {} ELSE {T!Value(disk[k])})]

Seen == [t \in A |->
            {<<k, th[t].answers[k].value>> : k \in
                {j \in Texts : th[t].answers[j] # None /\ th[t].answers[j].cached}}]

LEMMA KeptMember ==
    ASSUME NEW k \in Texts, NEW v
    PROVE  /\ v \in Kept[k] <=> \/ \E i \in DOMAIN memory : memory[i].text = k /\ v = T!Value(memory[i])
                                \/ OnFile(k) /\ v = T!Value(disk[k])
           /\ v \in Kept'[k] <=> \/ \E i \in DOMAIN memory' : memory'[i].text = k /\ v = T!Value(memory'[i])
                                 \/ OnFile(k)' /\ v = T!Value(disk'[k])
<1>1. v \in Kept[k] <=> \/ \E i \in DOMAIN memory : memory[i].text = k /\ v = T!Value(memory[i])
                        \/ OnFile(k) /\ v = T!Value(disk[k])
  BY DEF Kept, OnFile
<1>2. v \in Kept'[k] <=> \/ \E i \in DOMAIN memory' : memory'[i].text = k /\ v = T!Value(memory'[i])
                         \/ OnFile(k)' /\ v = T!Value(disk'[k])
  BY DEF Kept, OnFile, T!Value
<1> QED BY <1>1, <1>2

LEMMA SeenMember ==
    ASSUME NEW t \in A, NEW x
    PROVE  /\ x \in Seen[t] <=> \E k \in Texts : /\ th[t].answers[k] # None /\ th[t].answers[k].cached
                                                 /\ x = <<k, th[t].answers[k].value>>
           /\ x \in Seen'[t] <=> \E k \in Texts : /\ th'[t].answers[k] # None /\ th'[t].answers[k].cached
                                                  /\ x = <<k, th'[t].answers[k].value>>
BY DEF Seen

LEMMA SameSeen ==
    ASSUME NEW t \in A, th'[t].answers = th[t].answers
    PROVE  Seen'[t] = Seen[t]
BY DEF Seen

LEMMA NoneSeen ==
    ASSUME NEW t \in A
    PROVE  /\ th[t].answers = T!NoAnswers => Seen[t] = {}
           /\ th'[t].answers = T!NoAnswers => Seen'[t] = {}
BY DEF Seen, T!NoAnswers

(* An answer adds what it found in the cache, if it did. *)
LEMMA AnswerSeen ==
    ASSUME T!NoneAssumption, RequestsInv, NEW t \in A, NEW k \in Texts, th[t].answers[k] = None,
           NEW a \in T!AnswerType, th'[t].answers = [th[t].answers EXCEPT ![k] = a]
    PROVE  Seen'[t] = IF a.cached THEN Seen[t] \cup {<<k, a.value>>} ELSE Seen[t]
<1>1. th[t].answers \in [Texts -> T!AnswerType \cup {None}] /\ a # None
  BY RequestTypes DEF Request, T!NoneAssumption
<1>2. /\ th'[t].answers[k] = a
      /\ \A j \in Texts \ {k} : th'[t].answers[j] = th[t].answers[j]
  BY <1>1
<1>3. ASSUME NEW x PROVE x \in Seen'[t] <=> x \in Seen[t] \/ (a.cached /\ x = <<k, a.value>>)
  BY <1>1, <1>2, SeenMember
<1> QED BY <1>3

LEMMA LosesShrinks ==
    ASSUME Loses, NEW k \in Texts
    PROVE  Kept'[k] \subseteq Kept[k]
<1> SUFFICES ASSUME NEW v \in Kept'[k] PROVE v \in Kept[k]
  OBVIOUS
<1>1. CASE \E i \in DOMAIN memory' : memory'[i].text = k /\ v = T!Value(memory'[i])
  BY <1>1, KeptMember DEF Loses
<1>2. CASE OnFile(k)' /\ v = T!Value(disk'[k])
  BY <1>2, KeptMember DEF Loses
<1> QED BY <1>1, <1>2, KeptMember

LEMMA KeepsShrinks ==
    ASSUME NEW e, Keeps(e), CacheInv', NEW k \in Texts
    PROVE  Kept'[k] \subseteq Kept[k] \cup (IF e.text = k THEN {T!Value(e)} ELSE {})
<1> SUFFICES ASSUME NEW v \in Kept'[k], v \notin Kept[k] PROVE e.text = k /\ v = T!Value(e)
  OBVIOUS
<1>1. CASE \E i \in DOMAIN memory' : memory'[i].text = k /\ v = T!Value(memory'[i])
  BY <1>1, KeptMember DEF Keeps
<1>2. CASE OnFile(k)' /\ v = T!Value(disk'[k])
  <2>1. disk'[k] = e
    BY <1>2, KeptMember DEF Keeps
  <2>2. disk'[k].text = k
    BY <1>2 DEF CacheInv, OnFile
  <2> QED BY <1>2, <2>1, <2>2
<1> QED BY <1>1, <1>2, KeptMember

(* The steps of the abstract store. *)

LEMMA IsLose ==
    ASSUME \A k \in Texts : Kept'[k] \subseteq Kept[k],
           \A t \in A : Seen'[t] \in {Seen[t], {}}
    PROVE  T!Store2!Next
<1>1. T!Store2!Lose
  BY DEF T!Store2!Lose, T!Store2!Shrinks, Kept, Seen
<1> QED BY <1>1 DEF T!Store2!Next

LEMMA IsGet ==
    ASSUME NEW t \in A, NEW k \in Texts, NEW e \in Kept[k], e.age <= Lifetime,
           Seen' = [Seen EXCEPT ![t] = @ \cup {<<k, e.value>>}],
           \A j \in Texts : Kept'[j] \subseteq Kept[j]
    PROVE  T!Store2!Next
<1>1. T!Store2!Get(t, k)
  BY DEF T!Store2!Get, T!Store2!Shrinks, Kept, Seen
<1> QED BY <1>1 DEF T!Store2!Next

LEMMA IsPut ==
    ASSUME NEW k \in Texts, Kept'[k] \subseteq Kept[k] \cup {[value |-> Chunks[k], age |-> 0]},
           \A j \in Texts \ {k} : Kept'[j] \subseteq Kept[j], Seen' = Seen
    PROVE  T!Store2!Next
<1>1. T!Store2!Put(k, Chunks[k])
  BY DEF T!Store2!Put, Kept, Seen
<1> QED BY <1>1 DEF T!Store2!Next

LEMMA IsTick ==
    ASSUME Kept' = [k \in Texts |->
               {[e EXCEPT !.age = IF @ > Lifetime THEN @ ELSE @ + 1] : e \in Kept[k]}],
           Seen' = Seen
    PROVE  T!Store2!Next
<1>1. T!Store2!Tick
  BY DEF T!Store2!Tick, Kept, Seen
<1> QED BY <1>1 DEF T!Store2!Next

-----------------------------------------------------------------------------
(* Each step keeps the invariant and is one of the abstract store's. *)

AbstractStep == T!Store2!Next \/ (Kept' = Kept /\ Seen' = Seen)

LEMMA SameKept ==
    ASSUME UNCHANGED <<memory, disk>>
    PROVE  Kept' = Kept
BY DEF Kept, T!Value

LEMMA SameCache ==
    ASSUME CacheInv, UNCHANGED <<memory, disk, unsaved>>
    PROVE  CacheInv' /\ Kept' = Kept
BY SameKept DEF CacheInv, WellFormed, OnFile, T!CacheIsWhole, T!MemoryIsOnDisk, T!Whole

LEMMA SeenBut ==
    ASSUME NEW t \in A, \A u \in A \ {t} : th'[u] = th[u]
    PROVE  /\ \A u \in A \ {t} : Seen'[u] = Seen[u]
           /\ Seen' = [Seen EXCEPT ![t] = Seen'[t]]
           /\ Seen'[t] = Seen[t] => Seen' = Seen
<1>1. \A u \in A \ {t} : Seen'[u] = Seen[u]
  BY SameSeen
<1>2. /\ DOMAIN Seen = A /\ DOMAIN Seen' = A
      /\ Seen = [u \in A |-> Seen[u]] /\ Seen' = [u \in A |-> Seen'[u]]
  BY DEF Seen
<1> QED BY <1>1, <1>2

LEMMA PassStep ==
    ASSUME Inv, T!NoneAssumption, NEW t \in A, NEW k \in th[t].todo, th[t].at # "idle", T!AsItWas(t, k)
    PROVE  RequestsInv' /\ Seen' = Seen
<1> DEFINE a == [value |-> 0, cached |-> FALSE, translated |-> FALSE]
<1>1. RequestsInv
  BY DEF Inv
<1>2. /\ RequestsInv' /\ th[t].answers[k] = None /\ k \in Texts
      /\ th'[t].answers = [th[t].answers EXCEPT ![k] = a]
      /\ \A u \in A \ {t} : th'[u] = th[u]
  BY <1>1, AnsweredRequest DEF T!AsItWas
<1>3. a \in T!AnswerType /\ a.cached = FALSE
  BY DEF T!AnswerType
<1> HIDE DEF a
<1>4. Seen'[t] = Seen[t]
  BY <1>1, <1>2, <1>3, AnswerSeen
<1> QED BY <1>2, <1>4, SeenBut

(* An answer that is a translation: one from the cache, and a new one. *)
FromCache(t, k, value) == T!Answered(t, k, value, TRUE, TRUE)
JustMade(t, k, value) == T!Answered(t, k, value, TRUE, FALSE)
Fetched(value) == [value |-> value, cached |-> TRUE, translated |-> TRUE]
Renewed(value) == [value |-> value, cached |-> FALSE, translated |-> TRUE]

LEMMA HitRequest ==
    ASSUME RequestsInv, NEW t \in A, NEW k \in th[t].todo, th[t].at # "idle",
           NEW value \in Nat, T!Whole(k, value), FromCache(t, k, value)
    PROVE  /\ RequestsInv' /\ th[t].answers[k] = None /\ k \in Texts
           /\ th'[t].answers = [th[t].answers EXCEPT ![k] = Fetched(value)]
           /\ \A u \in A \ {t} : th'[u] = th[u]
<1>1. TRUE \in BOOLEAN /\ TRUE \in BOOLEAN /\ (TRUE => T!Whole(k, value)) /\ (~TRUE => value = 0)
  OBVIOUS
<1>2. /\ RequestsInv' /\ th[t].answers[k] = None /\ k \in Texts
      /\ th'[t].answers = [th[t].answers EXCEPT ![k] = Fetched(value)]
      /\ \A u \in A \ {t} : th'[u] = th[u]
  BY <1>1, AnsweredRequest, Zenon DEF FromCache, Fetched
<1> QED BY <1>2

LEMMA NewRequest ==
    ASSUME RequestsInv, NEW t \in A, NEW k \in th[t].todo, th[t].at # "idle",
           NEW value \in Nat, T!Whole(k, value), JustMade(t, k, value)
    PROVE  /\ RequestsInv' /\ th[t].answers[k] = None /\ k \in Texts
           /\ th'[t].answers = [th[t].answers EXCEPT ![k] = Renewed(value)]
           /\ \A u \in A \ {t} : th'[u] = th[u]
<1>1. TRUE \in BOOLEAN /\ FALSE \in BOOLEAN /\ (TRUE => T!Whole(k, value)) /\ (~TRUE => value = 0)
  OBVIOUS
<1>2. /\ RequestsInv' /\ th[t].answers[k] = None /\ k \in Texts
      /\ th'[t].answers = [th[t].answers EXCEPT ![k] = Renewed(value)]
      /\ \A u \in A \ {t} : th'[u] = th[u]
  BY <1>1, AnsweredRequest, Zenon DEF JustMade, Renewed
<1> QED BY <1>2

LEMMA LookupStep ==
    ASSUME Inv, T!BoundsAssumption, T!NoneAssumption, NEW t \in A, T!Lookup(t)
    PROVE  Inv' /\ AbstractStep
<1>1. CacheInv /\ RequestsInv /\ th[t].at = "next" /\ MaxMemory \in Nat \ {0}
  BY DEF Inv, T!Lookup, T!At, T!BoundsAssumption
<1>2. PICK k \in th[t].todo :
          IF T!Hit(k)
          THEN T!Answered(t, k, T!Found(k).value, TRUE, TRUE) /\ T!TouchEntry(k)
          ELSE th' = [th EXCEPT ![t].at = "translate", ![t].text = k] /\ T!DropEntry(k)
  BY DEF T!Lookup
<1>3. k \in Texts
  BY <1>1, RequestTypes DEF Request
<1>4. CASE T!Hit(k)
  <2> DEFINE e == T!Found(k)
             a == Fetched(e.value)
  <2>1. /\ e \in T!Entry /\ e.text = k /\ T!Whole(k, e.value) /\ ~T!Expired(e)
        /\ \/ \E i \in DOMAIN memory : memory[i] = e
           \/ OnFile(k) /\ e = disk[k]
    BY <1>1, <1>3, <1>4, FoundFacts
  <2>2. FromCache(t, k, e.value) /\ T!TouchEntry(k)
    BY <1>2, <1>4 DEF FromCache
  <2>3. CacheInv' /\ Keeps(e)
    BY <1>1, <1>3, <1>4, <2>2, TouchKeeps
  <2> HIDE DEF e
  <2>4. e.value \in Nat /\ e.age \in Nat /\ e.age <= Lifetime /\ T!Value(e).age = e.age /\ T!Value(e).value = e.value
    BY <2>1 DEF T!Entry, T!Expired, T!Value, T!BoundsAssumption
  <2>5. /\ RequestsInv' /\ th[t].answers[k] = None
        /\ th'[t].answers = [th[t].answers EXCEPT ![k] = a]
        /\ \A u \in A \ {t} : th'[u] = th[u]
        /\ a \in T!AnswerType /\ a.value = e.value /\ a.cached = TRUE
    <3>1. th[t].at # "idle"
      BY <1>1
    <3>2. /\ RequestsInv' /\ th[t].answers[k] = None
          /\ th'[t].answers = [th[t].answers EXCEPT ![k] = a]
          /\ \A u \in A \ {t} : th'[u] = th[u]
      BY <1>1, <2>1, <2>2, <2>4, <3>1, HitRequest
    <3>3. a \in T!AnswerType /\ a.value = e.value /\ a.cached = TRUE
      BY <2>4 DEF T!AnswerType, Fetched
    <3> QED BY <3>2, <3>3
  <2> HIDE DEF a
  <2>7. Seen'[t] = Seen[t] \cup {<<k, T!Value(e).value>>}
    <3>1. Seen'[t] = IF a.cached THEN Seen[t] \cup {<<k, a.value>>} ELSE Seen[t]
      BY <1>1, <1>3, <2>5, AnswerSeen
    <3> QED BY <2>4, <2>5, <3>1
  <2>8. Seen' = [Seen EXCEPT ![t] = @ \cup {<<k, T!Value(e).value>>}]
    BY <2>5, <2>7, SeenBut
  <2>9. T!Value(e) \in Kept[k]
    BY <1>3, <2>1, KeptMember
  <2>10. \A j \in Texts : Kept'[j] \subseteq Kept[j]
    BY <2>1, <2>3, <2>9, KeepsShrinks
  <2>11. T!Store2!Next
    BY <1>3, <2>4, <2>8, <2>9, <2>10, IsGet
  <2> QED BY <2>3, <2>5, <2>11 DEF Inv, AbstractStep
<1>5. CASE ~T!Hit(k)
  <2>1. CacheInv' /\ Loses
    BY <1>1, <1>2, <1>3, <1>5, DropKeeps
  <2>2. RequestsInv' /\ th'[t].answers = th[t].answers /\ \A u \in A \ {t} : th'[u] = th[u]
    BY <1>1, <1>2, <1>5, LookRequest
  <2>3. Seen' = Seen
    BY <2>2, SameSeen, SeenBut
  <2>4. \A j \in Texts : Kept'[j] \subseteq Kept[j]
    BY <2>1, LosesShrinks
  <2>5. T!Store2!Next
    BY <2>3, <2>4, IsLose
  <2> QED BY <2>1, <2>2, <2>5 DEF Inv, AbstractStep
<1> QED BY <1>4, <1>5

(* A finished text is put into the store, whether or not the disk takes it. *)
LEMMA PutStep ==
    ASSUME Inv, T!BoundsAssumption, T!NoneAssumption, NEW t \in A, th[t].at = "store",
           NEW saved \in BOOLEAN, T!SetEntry(th[t].text, th[t].done, saved)
    PROVE  /\ CacheInv' /\ th[t].text \in th[t].todo /\ th[t].text \in Texts
           /\ th[t].done = Chunks[th[t].text] /\ th[t].done \in Nat
           /\ Seen' = Seen => T!Store2!Next
<1> DEFINE k == th[t].text
           e == [text |-> k, value |-> Chunks[k], age |-> 0]
<1>1. CacheInv /\ RequestsInv
  BY DEF Inv
<1>2. k \in th[t].todo /\ k \in Texts /\ th[t].done = Chunks[k] /\ th[t].done \in Nat
  BY <1>1, RequestTypes DEF RequestOK, Request
<1>3. CacheInv' /\ Keeps(e)
  BY <1>1, <1>2, SetKeeps
<1>4. e.text = k /\ T!Value(e) = [value |-> Chunks[k], age |-> 0]
  BY DEF T!Value
<1> HIDE DEF e, k
<1>5. /\ Kept'[k] \subseteq Kept[k] \cup {[value |-> Chunks[k], age |-> 0]}
      /\ \A j \in Texts \ {k} : Kept'[j] \subseteq Kept[j]
  BY <1>2, <1>3, <1>4, KeepsShrinks
<1>6. Seen' = Seen => T!Store2!Next
  BY <1>2, <1>5, IsPut
<1> QED BY <1>2, <1>3, <1>6 DEF k

LEMMA StoreStep ==
    ASSUME Inv, T!BoundsAssumption, T!NoneAssumption, NEW t \in A, T!Store(t)
    PROVE  Inv' /\ AbstractStep
<1> DEFINE k == th[t].text
           a == Renewed(th[t].done)
<1>1. RequestsInv /\ th[t].at = "store" /\ T!SetEntry(k, th[t].done, TRUE)
      /\ JustMade(t, k, th[t].done)
  BY DEF Inv, T!Store, T!At, JustMade
<1>2. /\ CacheInv' /\ k \in th[t].todo /\ k \in Texts /\ th[t].done = Chunks[k] /\ th[t].done \in Nat
      /\ Seen' = Seen => T!Store2!Next
  BY <1>1, PutStep
<1> HIDE DEF k
<1>3. /\ RequestsInv' /\ th[t].answers[k] = None /\ th'[t].answers = [th[t].answers EXCEPT ![k] = a]
      /\ \A u \in A \ {t} : th'[u] = th[u]
      /\ a \in T!AnswerType /\ a.value = th[t].done /\ a.cached = FALSE
  <2>1. th[t].at # "idle" /\ T!Whole(k, th[t].done)
    BY <1>1, <1>2 DEF T!Whole
  <2>2. /\ RequestsInv' /\ th[t].answers[k] = None /\ th'[t].answers = [th[t].answers EXCEPT ![k] = a]
        /\ \A u \in A \ {t} : th'[u] = th[u]
    BY <1>1, <1>2, <2>1, NewRequest
  <2>3. a \in T!AnswerType /\ a.value = th[t].done /\ a.cached = FALSE
    BY <1>2 DEF T!AnswerType, Renewed
  <2> QED BY <2>2, <2>3
<1> HIDE DEF a
<1>5. Seen'[t] = Seen[t]
  BY <1>1, <1>2, <1>3, AnswerSeen
<1>6. Seen' = Seen
  BY <1>3, <1>5, SeenBut
<1> QED BY <1>2, <1>3, <1>6 DEF Inv, AbstractStep

LEMMA RaiseStep ==
    ASSUME Inv, T!BoundsAssumption, T!NoneAssumption, NEW t \in A, T!StoreRaises(t)
    PROVE  Inv' /\ AbstractStep
<1> DEFINE k == th[t].text
<1>1. RequestsInv /\ th[t].at = "store" /\ T!SetEntry(k, th[t].done, FALSE)
  BY DEF Inv, T!StoreRaises, T!At
<1>2. CacheInv' /\ k \in th[t].todo /\ (Seen' = Seen => T!Store2!Next)
  BY <1>1, PutStep
<1>3. RequestsInv' /\ Seen' = Seen
  <2>1. CASE th[t].op = "batch"
    <3>1. T!AsItWas(t, k)
      BY <2>1 DEF T!StoreRaises
    <3> QED BY <1>1, <1>2, <3>1, PassStep
  <2>2. CASE th[t].op # "batch"
    <3>1. th' = [th EXCEPT ![t] = T!Idle]
      BY <2>2 DEF T!StoreRaises
    <3>2. RequestsInv' /\ th'[t] = T!Idle /\ \A u \in A \ {t} : th'[u] = th[u]
      BY <1>1, <3>1, ToIdle
    <3>3. th[t].answers = T!NoAnswers /\ th'[t].answers = T!NoAnswers
      BY <1>1, <1>2, <2>2, <3>2, RequestTypes, IdleFacts DEF RequestOK
    <3> QED BY <3>2, <3>3, SameSeen, SeenBut
  <2> QED BY <2>1, <2>2
<1> QED BY <1>2, <1>3 DEF Inv, AbstractStep

LEMMA ServeStep ==
    ASSUME Inv, T!BoundsAssumption, T!NoneAssumption, NEW t \in A, T!Serve(t)
    PROVE  Inv' /\ AbstractStep
<1>1. CacheInv /\ RequestsInv
  BY DEF Inv
<1>2. CASE T!PassThrough(t)
  <2>1. PICK k \in th[t].todo : T!AsItWas(t, k)
    BY <1>2 DEF T!PassThrough
  <2>2. th[t].at # "idle" /\ UNCHANGED <<memory, disk, unsaved>>
    BY <1>2 DEF T!PassThrough, T!At
  <2> QED BY <1>1, <2>1, <2>2, PassStep, SameCache DEF Inv, AbstractStep
<1>3. CASE T!Chunk(t)
  <2>1. RequestsInv' /\ th'[t].answers = th[t].answers /\ \A u \in A \ {t} : th'[u] = th[u]
    BY <1>1, <1>3, ChunkRequest
  <2>2. UNCHANGED <<memory, disk, unsaved>>
    BY <1>3 DEF T!Chunk
  <2> QED BY <1>1, <2>1, <2>2, SameSeen, SeenBut, SameCache DEF Inv, AbstractStep
<1>4. CASE T!ChunkFails(t)
  <2>1. th[t].at = "translate" /\ T!AsItWas(t, th[t].text) /\ UNCHANGED <<memory, disk, unsaved>>
    BY <1>4 DEF T!ChunkFails, T!At
  <2>2. th[t].text \in th[t].todo
    BY <1>1, <2>1, RequestTypes DEF RequestOK
  <2> QED BY <1>1, <2>1, <2>2, PassStep, SameCache DEF Inv, AbstractStep
<1>5. CASE T!Reply(t)
  <2>1. th' = [th EXCEPT ![t] = T!Idle] /\ UNCHANGED <<memory, disk, unsaved>>
    BY <1>5 DEF T!Reply
  <2>2. RequestsInv' /\ th'[t] = T!Idle /\ \A u \in A \ {t} : th'[u] = th[u]
    BY <1>1, <2>1, ToIdle
  <2>3. Seen'[t] = {}
    BY <2>2, IdleFacts, <1>1, NoneSeen
  <2>4. \A u \in A : Seen'[u] \in {Seen[u], {}}
    BY <2>2, <2>3, SeenBut
  <2>5. CacheInv' /\ Kept' = Kept
    BY <1>1, <2>1, SameCache
  <2>6. T!Store2!Next
    BY <2>4, <2>5, IsLose
  <2> QED BY <2>2, <2>5, <2>6 DEF Inv, AbstractStep
<1> QED BY <1>2, <1>3, <1>4, <1>5, LookupStep, StoreStep, RaiseStep DEF T!Serve

LEMMA TickStep ==
    ASSUME Inv, T!BoundsAssumption, T!NoneAssumption, T!Tick
    PROVE  Inv' /\ AbstractStep
<1> DEFINE Aged(e) == [e EXCEPT !.age = IF @ > Lifetime THEN @ ELSE @ + 1]
<1>1. /\ CacheInv /\ CacheInv'
      /\ DOMAIN memory' = DOMAIN memory /\ \A i \in DOMAIN memory : memory'[i] = T!Older(memory[i])
      /\ \A k \in Texts : (OnFile(k)' <=> OnFile(k)) /\ (OnFile(k) => disk'[k] = T!Older(disk[k]))
  BY TickKeeps DEF Inv
<1>2. ASSUME NEW e \in T!Entry
      PROVE  T!Value(T!Older(e)) = Aged(T!Value(e)) /\ T!Older(e).text = e.text
  <2>1. T!Older(e).text = e.text /\ T!Older(e).value = e.value
        /\ T!Older(e).age = IF e.age > Lifetime THEN e.age ELSE e.age + 1
    BY OlderFacts
  <2> QED BY <2>1 DEF T!Value
<1> HIDE DEF Aged
<1>3. ASSUME NEW k \in Texts
      PROVE  Kept'[k] = {Aged(v) : v \in Kept[k]}
  <2>1. ASSUME NEW w \in Kept'[k] PROVE \E v \in Kept[k] : w = Aged(v)
    <3>1. CASE \E i \in DOMAIN memory' : memory'[i].text = k /\ w = T!Value(memory'[i])
      <4>1. PICK i \in DOMAIN memory : memory'[i].text = k /\ w = T!Value(memory'[i])
        BY <1>1, <3>1
      <4>2. memory[i] \in T!Entry /\ memory'[i] = T!Older(memory[i])
        BY <1>1, CacheTypes
      <4>3. memory[i].text = k /\ w = Aged(T!Value(memory[i]))
        BY <1>2, <4>1, <4>2
      <4>4. T!Value(memory[i]) \in Kept[k]
        BY <4>3, KeptMember
      <4> QED BY <4>3, <4>4
    <3>2. CASE OnFile(k)' /\ w = T!Value(disk'[k])
      <4>1. OnFile(k) /\ disk[k] \in T!Entry /\ disk'[k] = T!Older(disk[k])
        BY <1>1, <3>2, CacheTypes
      <4>2. w = Aged(T!Value(disk[k])) /\ T!Value(disk[k]) \in Kept[k]
        BY <1>2, <3>2, <4>1, KeptMember
      <4> QED BY <4>2
    <3> QED BY <3>1, <3>2, KeptMember
  <2>2. ASSUME NEW v \in Kept[k] PROVE Aged(v) \in Kept'[k]
    <3>1. CASE \E i \in DOMAIN memory : memory[i].text = k /\ v = T!Value(memory[i])
      <4>1. PICK i \in DOMAIN memory : memory[i].text = k /\ v = T!Value(memory[i])
        BY <3>1
      <4>2. memory[i] \in T!Entry /\ memory'[i] = T!Older(memory[i]) /\ i \in DOMAIN memory'
        BY <1>1, CacheTypes
      <4>3. memory'[i].text = k /\ Aged(v) = T!Value(memory'[i])
        BY <1>2, <4>1, <4>2
      <4> QED BY <4>2, <4>3, KeptMember
    <3>2. CASE OnFile(k) /\ v = T!Value(disk[k])
      <4>1. OnFile(k)' /\ disk[k] \in T!Entry /\ disk'[k] = T!Older(disk[k])
        BY <1>1, <3>2, CacheTypes
      <4>2. Aged(v) = T!Value(disk'[k])
        BY <1>2, <3>2, <4>1
      <4> QED BY <4>1, <4>2, KeptMember
    <3> QED BY <3>1, <3>2, KeptMember
  <2> QED BY <2>1, <2>2
<1>4. Kept' = [k \in Texts |-> {Aged(v) : v \in Kept[k]}]
  <2>1. Kept' = [k \in Texts |-> Kept'[k]]
    BY DEF Kept, T!Value
  <2> QED BY <1>3, <2>1
<1>5. th' = th
  BY DEF T!Tick
<1>6. RequestsInv' /\ Seen' = Seen
  BY <1>5 DEF Inv, RequestsInv, RequestOK, Honest, Seen, T!Whole, T!Idle, T!NoAnswers
<1>7. T!Store2!Next
  BY <1>4, <1>6, IsTick DEF Aged
<1> QED BY <1>1, <1>6, <1>7 DEF Inv, AbstractStep

LEMMA AskStep ==
    ASSUME Inv, T!BoundsAssumption, T!NoneAssumption, NEW t \in A, NEW op \in {"one", "batch"},
           NEW todo \in SUBSET Texts, T!Ask(t, op, todo)
    PROVE  Inv' /\ AbstractStep
<1>1. CacheInv /\ RequestsInv /\ UNCHANGED <<memory, disk, unsaved>>
  BY DEF Inv, T!Ask
<1>2. /\ RequestsInv' /\ th'[t].answers = th[t].answers
      /\ \A u \in A \ {t} : th'[u] = th[u]
  BY <1>1, AskRequest
<1>3. Seen' = Seen
  BY <1>2, SameSeen, SeenBut
<1> QED BY <1>1, <1>2, <1>3, SameCache DEF Inv, AbstractStep

LEMMA DamageStep ==
    ASSUME Inv, NEW k \in Texts, T!Damage(k)
    PROVE  Inv' /\ AbstractStep
<1>1. CacheInv /\ RequestsInv /\ th' = th
  BY DEF Inv, T!Damage
<1>2. CacheInv' /\ Loses
  BY <1>1, DamageKeeps
<1>3. RequestsInv' /\ Seen' = Seen
  BY <1>1 DEF RequestsInv, RequestOK, Honest, Seen, T!Whole, T!Idle, T!NoAnswers
<1>4. \A j \in Texts : Kept'[j] \subseteq Kept[j]
  BY <1>2, LosesShrinks
<1>5. T!Store2!Next
  BY <1>3, <1>4, IsLose
<1> QED BY <1>2, <1>3, <1>5 DEF Inv, AbstractStep

(* After a restart, and at the beginning, every thread is idle. *)
LEMMA AllIdle ==
    /\ th = [t \in A |-> T!Idle] => RequestsInv /\ \A t \in A : Seen[t] = {}
    /\ th' = [t \in A |-> T!Idle] => RequestsInv' /\ \A t \in A : Seen'[t] = {}
<1>1. /\ T!Idle \in Request /\ RequestOK(T!Idle) /\ \A k \in Texts : Honest(k, T!Idle.answers[k])
      /\ T!Idle.answers = T!NoAnswers
  <2>1. T!NoAnswers \in [Texts -> T!AnswerType \cup {None}] /\ \A k \in Texts : T!NoAnswers[k] = None
    BY DEF T!NoAnswers
  <2>2. /\ T!Idle.at = "idle" /\ T!Idle.op = None /\ T!Idle.todo = {} /\ T!Idle.text = None /\ T!Idle.done = 0
        /\ T!Idle.answers = T!NoAnswers
    BY DEF T!Idle
  <2> QED BY <2>1, <2>2 DEF T!Idle, Request, RequestOK, Honest
<1>2. ASSUME th = [t \in A |-> T!Idle]
      PROVE  RequestsInv /\ \A t \in A : Seen[t] = {}
  <2>1. \A t \in A : th[t] = T!Idle
    BY <1>2
  <2> HIDE DEF RequestOK, Honest
  <2> QED BY <1>1, <1>2, <2>1, NoneSeen DEF RequestsInv
<1>3. ASSUME th' = [t \in A |-> T!Idle]
      PROVE  RequestsInv' /\ \A t \in A : Seen'[t] = {}
  <2>1. \A t \in A : th'[t] = T!Idle
    BY <1>3
  <2>2. \A t \in A : RequestOK(th'[t]) /\ \A k \in Texts : Honest(k, th'[t].answers[k])
    BY <1>1, <2>1
  <2> QED BY <1>1, <1>3, <2>1, <2>2, NoneSeen
          DEF RequestsInv, RequestOK, Honest, T!Whole, T!Idle, T!NoAnswers
<1> QED BY <1>2, <1>3

LEMMA RestartStep ==
    ASSUME Inv, T!BoundsAssumption, T!Restart
    PROVE  Inv' /\ AbstractStep
<1>1. CacheInv /\ MaxMemory \in Nat \ {0} /\ th' = [t \in A |-> T!Idle]
  BY DEF Inv, T!Restart, T!BoundsAssumption
<1>2. CacheInv' /\ Loses
  BY <1>1, RestartKeeps
<1>3. RequestsInv' /\ \A t \in A : Seen'[t] = {}
  BY <1>1, AllIdle
<1>4. \A j \in Texts : Kept'[j] \subseteq Kept[j]
  BY <1>2, LosesShrinks
<1>5. T!Store2!Next
  BY <1>3, <1>4, IsLose
<1> QED BY <1>2, <1>3, <1>5 DEF Inv, AbstractStep

LEMMA NextStep ==
    ASSUME T!BoundsAssumption, T!NoneAssumption, Inv, [T!Next]_(T!vars)
    PROVE  Inv' /\ AbstractStep
<1>1. CASE \E t \in A : T!Serve(t)
  BY <1>1, ServeStep
<1>2. CASE \E t \in A, op \in {"one", "batch"}, todo \in SUBSET Texts : T!Ask(t, op, todo)
  BY <1>2, AskStep
<1>3. CASE T!Tick
  BY <1>3, TickStep
<1>4. CASE \E k \in Texts : T!Damage(k)
  BY <1>4, DamageStep
<1>5. CASE T!Restart
  BY <1>5, RestartStep
<1>6. CASE UNCHANGED T!vars
  <2>1. th' = th /\ UNCHANGED <<memory, disk, unsaved>>
    BY <1>6 DEF T!vars
  <2>2. RequestsInv' /\ Seen' = Seen
    BY <2>1 DEF Inv, RequestsInv, RequestOK, Honest, Seen, T!Whole, T!Idle, T!NoAnswers
  <2> QED BY <2>1, <2>2, SameCache DEF Inv, AbstractStep
<1> QED BY <1>1, <1>2, <1>3, <1>4, <1>5, <1>6 DEF T!Next

LEMMA InitFacts ==
    ASSUME T!BoundsAssumption, T!Init
    PROVE  Inv /\ T!Store2!Init
<1>1. memory = <<>> /\ disk = [k \in Texts |-> None] /\ unsaved = {} /\ th = [t \in A |-> T!Idle]
  BY DEF T!Init
<1>2. memory \in Seq(T!Entry) /\ Len(memory) = 0 /\ DOMAIN memory = {}
  BY <1>1, EmptySeq, LenProperties
<1>3. \A k \in Texts : ~OnFile(k)
  BY <1>1 DEF OnFile
<1>4. WellFormed(memory)
  BY <1>2 DEF WellFormed, T!BoundsAssumption
<1>5. CacheInv
  BY <1>1, <1>2, <1>3, <1>4 DEF CacheInv, T!CacheIsWhole, T!MemoryIsOnDisk, OnFile
<1>6. RequestsInv /\ \A t \in A : Seen[t] = {}
  BY <1>1, AllIdle
<1>7. \A k \in Texts : Kept[k] = {}
  <2> SUFFICES ASSUME NEW k \in Texts, NEW v \in Kept[k] PROVE FALSE
    OBVIOUS
  <2> QED BY <1>2, <1>3, KeptMember
<1>8. Kept = [k \in Texts |-> {}] /\ Seen = [t \in A |-> {}]
  <2>1. Kept = [k \in Texts |-> Kept[k]]
    BY DEF Kept
  <2>2. Seen = [t \in A |-> Seen[t]]
    BY DEF Seen
  <2> QED BY <1>6, <1>7, <2>1, <2>2
<1> QED BY <1>5, <1>6, <1>8 DEF Inv, T!Store2!Init, Kept, Seen

-----------------------------------------------------------------------------
LEMMA InvCorrect ==
    ASSUME T!BoundsAssumption, T!NoneAssumption
    PROVE  T!Spec => []Inv
<1>1. T!Init => Inv
  BY InitFacts
<1>2. Inv /\ [T!Next]_(T!vars) => Inv'
  BY NextStep
<1> QED BY <1>1, <1>2, PTL DEF T!Spec

(* The types, and of the memory that it holds each text once and no more     *)
(* than its limit (cache.py _store_in_memory).                               *)
THEOREM TypeCorrect ==
    ASSUME T!BoundsAssumption, T!NoneAssumption
    PROVE  T!Spec => []T!TypeOK
<1>1. Inv => T!TypeOK
  BY DEF Inv, CacheInv, WellFormed, RequestsInv, Request, T!TypeOK
<1> QED BY <1>1, InvCorrect, PTL

(* Only whole translations are ever cached, in memory or on disk, whichever  *)
(* chunk or write fails and whatever the threads do meanwhile (gateway.py).  *)
THEOREM CacheCorrect ==
    ASSUME T!BoundsAssumption, T!NoneAssumption
    PROVE  T!Spec => []T!CacheIsWhole
<1>1. Inv => T!CacheIsWhole
  BY DEF Inv, CacheInv
<1> QED BY <1>1, InvCorrect, PTL

(* Each text of an answer is wholly translated and said to be, or as it was  *)
(* and said not to be (gateway.py to_user_language, localize_many).          *)
THEOREM AnswersCorrect ==
    ASSUME T!BoundsAssumption, T!NoneAssumption
    PROVE  T!Spec => []T!AnswersAreHonest
<1>1. Inv => T!AnswersAreHonest
  BY DEF Inv, RequestsInv, Honest, T!AnswersAreHonest
<1> QED BY <1>1, InvCorrect, PTL

(* An eviction or a restart loses nothing that reached its file (cache.py    *)
(* set, get).                                                                *)
THEOREM MemoryCorrect ==
    ASSUME T!BoundsAssumption, T!NoneAssumption
    PROVE  T!Spec => []T!MemoryIsOnDisk
<1>1. Inv => T!MemoryIsOnDisk
  BY DEF Inv, CacheInv
<1> QED BY <1>1, InvCorrect, PTL

(* The two levels implement one expiring store: every answer from the cache  *)
(* was put under its key no longer ago than the lifetime, through eviction,  *)
(* expiry, damage, a full disk and a restart (cache.py get, set).            *)
THEOREM StoreImplemented ==
    ASSUME T!BoundsAssumption, T!NoneAssumption
    PROVE  T!Spec => T!ImplementsExpiringStore
<1>1. T!Init => T!Store2!Init
  BY InitFacts
<1>2. Inv /\ [T!Next]_(T!vars) => [T!Store2!Next]_(T!Store2!svars)
  <2>1. AbstractStep => [T!Store2!Next]_(T!Store2!svars)
    BY DEF AbstractStep, T!Store2!svars, Kept, Seen
  <2> QED BY <2>1, NextStep
<1> QED BY <1>1, <1>2, InvCorrect, PTL DEF T!Spec, T!ImplementsExpiringStore, T!Store2!Spec

(* Nothing but whole translations is kept, answers are honest about what     *)
(* they are, and the two levels of the cache are one store                   *)
(* (language/cache.py, gateway.py), with a full or damaged disk and restarts. *)
THEOREM TranslationsCorrect == Spec => TranslationsAreWhole
<1>1. T!BoundsAssumption /\ T!NoneAssumption
  BY PartsAssumption DEF PartsAssumption
<1>2. T!Spec => /\ []T!TypeOK /\ []T!CacheIsWhole /\ []T!AnswersAreHonest /\ []T!MemoryIsOnDisk
                /\ T!ImplementsExpiringStore
  BY <1>1, TypeCorrect, CacheCorrect, AnswersCorrect, MemoryCorrect, StoreImplemented
<1>3. T!TypeOK /\ T!CacheIsWhole /\ T!AnswersAreHonest /\ T!MemoryIsOnDisk =>
        (part \in {"translations", "faults"} =>
            T!TypeOK /\ T!CacheIsWhole /\ T!AnswersAreHonest /\ T!MemoryIsOnDisk)
  OBVIOUS
<1> QED BY <1>2, <1>3, TranslationsOfSpec, PTL DEF TranslationsAreWhole
================================================================================
