------------------------------- MODULE EventChain -------------------------------
(***************************************************************************)
(* The hash chain of each case's event log (db.py: append_event,           *)
(* verify_case_events).  Threads append under one lock; a row's hash       *)
(* covers its event and the hash of the case's row before it.  Rows from   *)
(* before the chain have none.  Outside the program a column of a row may  *)
(* be changed and a row removed, given to another case or exchanged with   *)
(* one, which verify_case_events is there to find.                         *)
(***************************************************************************)
EXTENDS Naturals, FiniteSets, SequencesExt

CONSTANTS
    Cases,
    Events,     \* contents of a row, type to ts
    Threads,
    None,       \* no hash; no break; nobody
    MaxRows,    \* bound on the rows ever inserted
    MaxLegacy,  \* bound on the rows without a hash
    MaxEdits    \* bound on the changes outside the program

BoundsAssumption == {MaxRows, MaxLegacy, MaxEdits} \subseteq Nat

VARIABLES
    rows,     \* each case's rows of the table, in the order of seq
    seq,      \* the last seq given
    lock,     \* the thread that holds _event_lock
    append,   \* what each thread is appending
    legacy, edits,
    touched   \* history: cases whose rows were edited outside

vars == <<rows, seq, lock, append, legacy, edits, touched>>

(* Hashes are equal only if they cover the same, so a hash is what it       *)
(* covers, the rows of the chain up to its own; the first follows Genesis.  *)
Hashes == Seq([case : Cases, event : Events])
Genesis == <<>>
Hash(c, event, prev) == Append(prev, [case |-> c, event |-> event])
Hashed(row) == row.hash # None

NoneAssumption == None \notin Hashes /\ None \notin Nat /\ None \notin Threads

Init ==
    /\ rows = [c \in Cases |-> <<>>] /\ seq = 0 /\ lock = None
    /\ append = [t \in Threads |-> None]
    /\ legacy = 0 /\ edits = 0 /\ touched = {}

-----------------------------------------------------------------------------
(* Mutant of Lock: nobody waits. *)
LockNot(t) == lock' = lock

Lock(t) == lock = None /\ lock' = t

(* The hash that row i of a log follows: none is followed after a row       *)
(* without one.                                                             *)
Before(log, i) == IF i > 1 /\ Hashed(log[i - 1]) THEN log[i - 1].hash ELSE Genesis

(* The thread reads the last hash under the lock ... *)
ReadLast(t, c, event) ==
    /\ append[t] = None /\ seq < MaxRows
    /\ Lock(t)
    /\ append' = [append EXCEPT ![t] = [case |-> c, event |-> event,
                                       prev |-> Before(rows[c], Len(rows[c]) + 1)]]
    /\ UNCHANGED <<rows, seq, legacy, edits, touched>>

(* ... and inserts the row that follows it. *)
Insert(t) ==
    LET a == append[t] IN
    /\ a # None
    /\ seq' = seq + 1
    /\ rows' = [rows EXCEPT ![a.case] =
                   Append(@, [seq |-> seq + 1, event |-> a.event, created |-> seq + 1,
                              prev |-> a.prev, hash |-> Hash(a.case, a.event, a.prev)])]
    /\ append' = [append EXCEPT ![t] = None]
    /\ lock' = None
    /\ UNCHANGED <<legacy, edits, touched>>

(* The server stops between the two; the transaction is rolled back. *)
Restart ==
    /\ lock # None
    /\ append' = [t \in Threads |-> None]
    /\ lock' = None
    /\ UNCHANGED <<rows, seq, legacy, edits, touched>>

(* A row from a version of the server that kept no chain. *)
InsertLegacy(c, event) ==
    /\ lock = None /\ seq < MaxRows /\ legacy < MaxLegacy
    /\ seq' = seq + 1
    /\ rows' = [rows EXCEPT ![c] =
                   Append(@, [seq |-> seq + 1, event |-> event, created |-> seq + 1,
                              prev |-> None, hash |-> None])]
    /\ legacy' = legacy + 1
    /\ UNCHANGED <<lock, append, edits, touched>>

(* Outside the program: one column of a row is changed, a hash to another   *)
(* stored one or to none ...                                                *)
Stored(log) == {Genesis, None} \cup {log[j].hash : j \in DOMAIN log}

Altered(log, i) ==
    {[log EXCEPT ![i].event = event] : event \in Events}
    \cup {[log EXCEPT ![i].created = time] : time \in 1 .. seq}
    \cup {[log EXCEPT ![i].prev = hash] : hash \in Stored(log)}
    \cup {[log EXCEPT ![i].hash = hash] : hash \in Stored(log)}

(* ... two rows of a case exchange their seq ...                            *)
Exchanged(log, i, j) ==
    [log EXCEPT ![i] = [log[j] EXCEPT !.seq = log[i].seq],
                ![j] = [log[i] EXCEPT !.seq = log[j].seq]]

(* ... a row is removed, or becomes, by its case_id, the one at k of        *)
(* another case.                                                            *)
Given(log, k, row) ==
    /\ \A j \in DOMAIN log : IF j < k THEN log[j].seq < row.seq ELSE row.seq < log[j].seq
    /\ k <= Len(log) + 1

Edit(c, i) ==
    /\ edits < MaxEdits
    /\ \/ /\ \E log \in Altered(rows[c], i) : rows' = [rows EXCEPT ![c] = log]
          /\ touched' = touched \cup {c}
       \/ /\ \E j \in DOMAIN rows[c] : i < j /\ rows' = [rows EXCEPT ![c] = Exchanged(@, i, j)]
          /\ touched' = touched \cup {c}
       \/ /\ rows' = [rows EXCEPT ![c] = RemoveAt(@, i)]
          /\ touched' = touched \cup {c}
       \/ \E d \in Cases \ {c}, k \in 1 .. seq :
             /\ Given(rows[d], k, rows[c][i])
             /\ rows' = [rows EXCEPT ![c] = RemoveAt(@, i), ![d] = InsertAt(@, k, rows[c][i])]
             /\ touched' = touched \cup {c, d}
    /\ rows' # rows
    /\ edits' = edits + 1
    /\ UNCHANGED <<seq, lock, append, legacy>>

-----------------------------------------------------------------------------
(* One row of verify_case_events ... *)
Check(c, sofar, row) ==
    LET broken == Hashed(row) /\ (\/ row.prev # sofar.expected
                                  \/ row.hash # Hash(c, row.event, sofar.expected))
        first == IF broken /\ sofar.first = None THEN row.seq ELSE sofar.first IN
    [expected |-> IF Hashed(row) THEN row.hash ELSE Genesis,
     first |-> first,
     verified |-> sofar.verified + IF Hashed(row) /\ first = None THEN 1 ELSE 0,
     unverifiable |-> sofar.unverifiable + IF Hashed(row) THEN 0 ELSE 1]

(* ... and what it knows after each number of a log's rows. *)
Start == [expected |-> Genesis, first |-> None, verified |-> 0, unverifiable |-> 0]

Walk(c, log) ==
    LET sofar[n \in 0 .. Len(log)] ==
            IF n = 0 THEN Start ELSE Check(c, sofar[n - 1], log[n])
    IN sofar

VerifyCaseEvents(c) == Walk(c, rows[c])[Len(rows[c])]

Next ==
    \/ \E t \in Threads, c \in Cases, event \in Events : ReadLast(t, c, event)
    \/ \E t \in Threads : Insert(t)
    \/ Restart
    \/ \E c \in Cases, event \in Events : InsertLegacy(c, event)
    \/ \E c \in Cases : \E i \in DOMAIN rows[c] : Edit(c, i)

Spec == Init /\ [][Next]_vars

-----------------------------------------------------------------------------
Row == [seq : 1 .. seq, event : Events, created : 1 .. seq,
        prev : Hashes \cup {None}, hash : Hashes \cup {None}]
Appending == [case : Cases, event : Events, prev : Hashes]

(* The type invariant; seq orders the rows. *)
TypeOK ==
    /\ seq \in Nat
    /\ rows \in [Cases -> Seq(Row)]
    /\ \A c \in Cases : \A i, j \in DOMAIN rows[c] : i < j => rows[c][i].seq < rows[c][j].seq
    /\ lock \in Threads \cup {None}
    /\ append \in [Threads -> Appending \cup {None}]
    /\ legacy \in 0 .. MaxLegacy /\ edits \in 0 .. MaxEdits
    /\ touched \subseteq Cases

(* A case nobody has touched verifies, however threads interleaved, servers *)
(* stopped and rows without a hash came in between, and every row counts.   *)
UntouchedVerifies ==
    \A c \in Cases \ touched :
        LET log == rows[c] result == VerifyCaseEvents(c) IN
        /\ result.first = None
        /\ result.verified = Cardinality({i \in DOMAIN log : Hashed(log[i])})
        /\ result.verified + result.unverifiable = Len(log)

(* What is true of a row by itself: its hash is that of its event, and it   *)
(* follows the row before it.                                               *)
Sound(c, log, i) ==
    Hashed(log[i]) =>
        log[i].prev = Before(log, i) /\ log[i].hash = Hash(c, log[i].event, Before(log, i))

(* The break reported is the first row that is not sound, and only the rows *)
(* before it count as verified.                                             *)
BreakIsLocated ==
    \A c \in Cases :
        LET log == rows[c]
            result == VerifyCaseEvents(c)
            broken == {i \in DOMAIN log : ~Sound(c, log, i)} IN
        /\ result.first = None <=> broken = {}
        /\ \A i \in broken :
               (\A j \in broken : i <= j) =>
                   /\ result.first = log[i].seq
                   /\ result.verified = Cardinality({j \in 1 .. i - 1 : Hashed(log[j])})

(* What the edit of a log nobody had touched shows, of a row with a hash: a *)
(* change of its event or its hashes, where the row is; that it is gone, or *)
(* its hash is, where the next row has one; that it and a later row with    *)
(* another hash are exchanged, there or at the next row if that has one;    *)
(* and a row that was another case's, where it came to be.                  *)
EditShows ==
    edits' = edits + 1 =>
       \A c \in Cases \ touched :
           LET log == rows[c]
               now == rows'[c]
               first == VerifyCaseEvents(c)'.first IN
           /\ \A i \in DOMAIN log : Hashed(log[i]) =>
                 /\ \/ \E event \in Events \ {log[i].event} : now = [log EXCEPT ![i].event = event]
                    \/ \E hash \in Stored(log) \ {log[i].prev} : now = [log EXCEPT ![i].prev = hash]
                    \/ \E hash \in Stored(log) \ {log[i].hash, None} : now = [log EXCEPT ![i].hash = hash]
                    => first = log[i].seq
                 /\ i < Len(log) /\ Hashed(log[i + 1]) =>
                       /\ now \in {RemoveAt(log, i), [log EXCEPT ![i].hash = None]}
                          => first = log[i + 1].seq
                       /\ (\E j \in i + 1 .. Len(log) :
                              now = Exchanged(log, i, j) /\ log[j].hash # log[i].hash)
                          => first \in {log[i].seq, log[i + 1].seq}
           /\ \A k \in DOMAIN now : now = InsertAt(log, k, now[k]) /\ Hashed(now[k])
                 => first = now[k].seq

EditIsFound == [][EditShows]_vars

(* "changing any stored field of ANY past event": so it would be if a       *)
(* changed row of a log of hashed rows did not verify.                      *)
AnyFieldIsCovered ==
    [][edits' = edits + 1 =>
       \A c \in Cases \ touched : \A i \in DOMAIN rows[c] :
           /\ \A j \in DOMAIN rows[c] : Hashed(rows[c][j])
           /\ rows'[c] \in Altered(rows[c], i) \ {rows[c]}
           => VerifyCaseEvents(c)'.first # None]_vars
=============================================================================
