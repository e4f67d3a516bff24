------------------------------- MODULE Evidence -------------------------------
(***************************************************************************)
(* The documents of one case: uploads (app/routers/documents.py), the      *)
(* extraction jobs and the discrepancy check (app/jobs.py,                 *)
(* app/agents/discrepancy.py).                                             *)
(*                                                                         *)
(* upload_documents is a coroutine: it gives up the event loop only where  *)
(* it awaits the content of a file (one above a megabyte is read from disk *)
(* by a thread), so an upload is cut into steps there and nowhere else.    *)
(* Extractions and checks run in the executor's bounded pool of threads,   *)
(* each of them claimed before it is queued.                               *)
(***************************************************************************)
EXTENDS Naturals, Sequences, FiniteSets, Functions

CONSTANTS
    Docs,        \* documents that can ever be stored for the case
    Uploads,     \* the upload requests clients make, each made once
    Workers,     \* the threads of the job executor
    None,        \* Python's None
    Cap,         \* _MAX_EVIDENCE_PER_CASE
    MaxFiles,    \* bound on the files of an upload
    Overlapping, \* whether clients upload before an upload was answered
    Manual,      \* whether clients ask for a discrepancy check
    Faults,      \* the failures that occur: "exception", "outage"
    MaxCrashes   \* bound on the number of process restarts

VARIABLES
    doc,       \* the documents table: each document's extraction_status
    evidence,  \* the documents the case record lists
    upload,    \* the progress of each upload request
    claimed,   \* jobs._running_docs, with "check" for _running_discrepancy
    queue,     \* the work queue of jobs._executor
    worker,    \* what each executor thread is running, or None
    checked,   \* the documents the last finished check read
    crashes    \* restarts so far

vars == <<doc, evidence, upload, claimed, queue, worker, checked, crashes>>

-----------------------------------------------------------------------------
Jobs == Docs \cup {"check"}

Stored == {d \in Docs : doc[d] # "absent"}

Complete == {d \in Docs : doc[d] = "complete"}

Finished(d) == doc[d] \in {"complete", "failed"}

(* An upload request: once open, the evidence list it read, the documents it
   has stored in order, and the files still to come.                        *)
Upload == [state : {"new", "open", "done"}, base : SUBSET Docs,
           created : Seq(Docs), left : 0 .. MaxFiles]

(* A job on a worker: a document's extraction, or the check and the documents
   it has read.                                                             *)
Running ==
    [job : Docs, pc : {"begin", "extract", "complete", "failed", "count",
                       "trigger", "fail", "release"}, read : {{}}] \cup
    [job : {"check"}, pc : {"read", "report", "release"}, read : SUBSET Docs]

ASSUME NoneAssumption == None \notin Running

ASSUME CheckAssumption == "check" \notin Docs

ASSUME BoundAssumption ==
    /\ Cap \in Nat
    /\ MaxFiles \in Nat
    /\ MaxCrashes \in Nat
    /\ IsFiniteSet(Docs)

TypeOK ==
    /\ doc \in [Docs -> {"absent", "pending", "processing", "complete", "failed"}]
    /\ evidence \in SUBSET Docs
    /\ upload \in [Uploads -> Upload]
    /\ claimed \in SUBSET Jobs
    /\ queue \in Seq(Jobs)
    /\ worker \in [Workers -> Running \cup {None}]
    /\ checked \in SUBSET Docs
    /\ crashes \in 0 .. MaxCrashes

Init ==
    /\ doc = [d \in Docs |-> "absent"]
    /\ evidence = {}
    /\ upload = [u \in Uploads |-> [state |-> "new", base |-> {},
                                    created |-> <<>>, left |-> 0]]
    /\ claimed = {}
    /\ queue = <<>>
    /\ worker = [w \in Workers |-> None]
    /\ checked = {}
    /\ crashes = 0

-----------------------------------------------------------------------------
(* Uploads. *)

Open(u) == upload[u].state = "open"

Close(u) == upload' = [upload EXCEPT ![u].state = "done"]

(* The cap is checked against the table, before any file is awaited. *)
Admitted(n) == Cardinality(Stored) + n <= Cap

(* The record and the count are read once, at the beginning. *)
BeginUpload(u, n) ==
    /\ upload[u].state = "new"
    /\ Overlapping \/ \A v \in Uploads : ~Open(v)
    /\ Admitted(n)
    /\ upload' = [upload EXCEPT
           ![u] = [state |-> "open", base |-> evidence, created |-> <<>>,
                   left |-> n]]
    /\ UNCHANGED <<doc, evidence, claimed, queue, worker, checked, crashes>>

(* Mutant of ListEvidence: the list is replaced by this batch. *)
ListEvidenceAfresh(u, created) == evidence' = Range(created)

ListEvidence(u, created) == evidence' = upload[u].base \cup Range(created)

(* A file arrives and is valid; d is its row.  More files are to come. *)
StoreFile(u, d) ==
    /\ Open(u)
    /\ upload[u].left > 1
    /\ doc[d] = "absent"
    /\ doc' = [doc EXCEPT ![d] = "pending"]
    /\ upload' = [upload EXCEPT ![u].created = Append(@, d), ![u].left = @ - 1]
    /\ UNCHANGED <<evidence, claimed, queue, worker, checked, crashes>>

(* Mutant of StartExtractions: the jobs are queued without a claim. *)
StartExtractionsUnclaimed(created) ==
    /\ queue' = queue \o created
    /\ UNCHANGED claimed

(* start_extraction for each document of the batch: their ids are new, so no
   claim is refused.                                                        *)
StartExtractions(created) ==
    /\ claimed' = claimed \cup Range(created)
    /\ queue' = queue \o created

(* The last file: without another await the record is written and the jobs
   are started.                                                             *)
StoreLast(u, d) ==
    /\ Open(u)
    /\ upload[u].left = 1
    /\ doc[d] = "absent"
    /\ doc' = [doc EXCEPT ![d] = "pending"]
    /\ LET created == Append(upload[u].created, d)
       IN ListEvidence(u, created) /\ StartExtractions(created)
    /\ Close(u)
    /\ UNCHANGED <<worker, checked, crashes>>

(* A file is invalid or cannot be stored: the request fails where it is. *)
RejectFile(u) ==
    /\ Open(u)
    /\ Close(u)
    /\ UNCHANGED <<doc, evidence, claimed, queue, worker, checked, crashes>>

-----------------------------------------------------------------------------
(* The discrepancy check is claimed and queued, or refused. *)
StartCheck ==
    IF "check" \in claimed
    THEN UNCHANGED <<claimed, queue>>
    ELSE /\ claimed' = claimed \cup {"check"}
         /\ queue' = Append(queue, "check")

TriggerCheck ==
    /\ Manual
    /\ Stored # {}
    /\ "check" \notin claimed
    /\ StartCheck
    /\ UNCHANGED <<doc, evidence, upload, worker, checked, crashes>>

-----------------------------------------------------------------------------
(* Jobs. *)

At(w, pc) == worker[w] # None /\ worker[w].pc = pc

Go(w, pc) == worker' = [worker EXCEPT ![w].pc = pc]

SetStatus(w, status) == doc' = [doc EXCEPT ![worker[w].job] = status]

Dequeue(w) ==
    /\ worker[w] = None
    /\ queue # <<>>
    /\ worker' = [worker EXCEPT ![w] =
           [job |-> Head(queue), read |-> {},
            pc |-> IF Head(queue) = "check" THEN "read" ELSE "begin"]]
    /\ queue' = Tail(queue)
    /\ UNCHANGED <<doc, evidence, upload, claimed, checked, crashes>>

ExtractionBegin(w) ==
    /\ At(w, "begin")
    /\ SetStatus(w, "processing")
    /\ Go(w, "extract")
    /\ UNCHANGED <<evidence, upload, claimed, queue, checked, crashes>>

(* The file is read and its text extracted, or it is not: an event says so. *)
Extract(w) ==
    /\ At(w, "extract")
    /\ \E outcome \in {"complete", "failed"} : Go(w, outcome)
    /\ UNCHANGED <<doc, evidence, upload, claimed, queue, checked, crashes>>

(* The on_event callback of _run_extraction. *)
Record(w) ==
    /\ worker[w] # None
    /\ worker[w].pc \in {"complete", "failed"}
    /\ SetStatus(w, worker[w].pc)
    /\ Go(w, "count")
    /\ UNCHANGED <<evidence, upload, claimed, queue, checked, crashes>>

(* Every document has finished, one succeeded, and there is another. *)
CheckDue ==
    /\ \A d \in Stored : Finished(d)
    /\ Complete # {}
    /\ Cardinality(Stored) > 1

Count(w) ==
    /\ At(w, "count")
    /\ Go(w, IF CheckDue THEN "trigger" ELSE "release")
    /\ UNCHANGED <<doc, evidence, upload, claimed, queue, checked, crashes>>

AutoTrigger(w) ==
    /\ At(w, "trigger")
    /\ StartCheck
    /\ Go(w, "release")
    /\ UNCHANGED <<doc, evidence, upload, checked, crashes>>

CheckRead(w) ==
    /\ At(w, "read")
    /\ worker' = [worker EXCEPT ![w].pc = "report", ![w].read = Complete]
    /\ UNCHANGED <<doc, evidence, upload, claimed, queue, checked, crashes>>

(* The discrepancies found are inserted and the check reports its end. *)
CheckReport(w) ==
    /\ At(w, "report")
    /\ checked' = worker[w].read
    /\ Go(w, "release")
    /\ UNCHANGED <<doc, evidence, upload, claimed, queue, crashes>>

(* A step of a job raises.  A check then only reports an error. *)
Raise(w) ==
    /\ "exception" \in Faults
    /\ worker[w] # None
    /\ worker[w].pc \notin {"fail", "release"}
    /\ Go(w, IF worker[w].job = "check" THEN "release" ELSE "fail")
    /\ UNCHANGED <<doc, evidence, upload, claimed, queue, checked, crashes>>

(* Mutant of RecordFailure: the error event, and nothing else. *)
RecordFailureSilently(w) ==
    /\ At(w, "fail")
    /\ Go(w, "release")
    /\ UNCHANGED <<doc, evidence, upload, claimed, queue, checked, crashes>>

(* Mutant of RecordFailure: the status of a failed case. *)
RecordFailureAsError(w) ==
    /\ At(w, "fail")
    /\ SetStatus(w, "error")
    /\ Go(w, "release")
    /\ UNCHANGED <<evidence, upload, claimed, queue, checked, crashes>>

RecordFailure(w) ==
    /\ At(w, "fail")
    /\ SetStatus(w, "failed")
    /\ Go(w, "release")
    /\ UNCHANGED <<evidence, upload, claimed, queue, checked, crashes>>

(* Mutant of HandlerRaises: no finally clause. *)
HandlerRaisesUnreleased(w) ==
    /\ "outage" \in Faults
    /\ At(w, "fail")
    /\ worker' = [worker EXCEPT ![w] = None]
    /\ UNCHANGED <<doc, evidence, upload, claimed, queue, checked, crashes>>

(* The exception handler's own database access raises. *)
HandlerRaises(w) ==
    /\ "outage" \in Faults
    /\ At(w, "fail")
    /\ Go(w, "release")
    /\ UNCHANGED <<doc, evidence, upload, claimed, queue, checked, crashes>>

(* The finally clause. *)
Release(w) ==
    /\ At(w, "release")
    /\ claimed' = claimed \ {worker[w].job}
    /\ worker' = [worker EXCEPT ![w] = None]
    /\ UNCHANGED <<doc, evidence, upload, queue, checked, crashes>>

(* The process restarts: the database survives, nothing is started again. *)
Crash ==
    /\ crashes < MaxCrashes
    /\ upload' = [u \in Uploads |->
           [upload[u] EXCEPT !.state = IF Open(u) THEN "done" ELSE @]]
    /\ claimed' = {}
    /\ queue' = <<>>
    /\ worker' = [w \in Workers |-> None]
    /\ crashes' = crashes + 1
    /\ UNCHANGED <<doc, evidence, checked>>
-----------------------------------------------------------------------------
Serve(u) ==
    \/ \E n \in 1 .. MaxFiles : BeginUpload(u, n)
    \/ \E d \in Docs : StoreFile(u, d) \/ StoreLast(u, d)
    \/ RejectFile(u)

Work(w) ==
    \/ Dequeue(w)
    \/ ExtractionBegin(w)
    \/ Extract(w)
    \/ Record(w)
    \/ Count(w)
    \/ AutoTrigger(w)
    \/ CheckRead(w)
    \/ CheckReport(w)
    \/ RecordFailure(w)
    \/ Release(w)

Fault(w) == Raise(w) \/ HandlerRaises(w)

Next ==
    \/ \E u \in Uploads : Serve(u)
    \/ TriggerCheck
    \/ \E w \in Workers : Work(w) \/ Fault(w)
    \/ Crash

Spec == Init /\ [][Next]_vars

(* The executor's threads go on; clients and faults owe nothing. *)
Fairness == \A w \in Workers : WF_vars(Work(w))
-----------------------------------------------------------------------------
(* Properties. *)

(* A document or the check is claimed exactly while one job for it is queued
   or running: nothing is extracted or checked twice at a time, and no claim
   outlives its job (jobs._claim_doc, _claim_discrepancy and their releases). *)
ClaimsAreExact ==
    /\ \A i, j \in DOMAIN queue : queue[i] = queue[j] => i = j
    /\ \A v, w \in Workers : worker[v] # None /\ worker[w] # None
                               /\ worker[v].job = worker[w].job => v = w
    /\ \A i \in DOMAIN queue, w \in Workers :
           worker[w] # None => worker[w].job # queue[i]
    /\ claimed = {queue[i] : i \in DOMAIN queue} \cup
                 {worker[w].job : w \in {v \in Workers : worker[v] # None}}

(* "each document_id is only ever updated by the one job thread processing
   it" (db.update_document): a stored document changes only while it is
   claimed, and it never goes back to pending, to processing only from there. *)
DocumentsUnderClaim ==
    [][\A d \in Docs :
          doc[d] # "absent" /\ doc'[d] # doc[d] =>
              /\ d \in claimed
              /\ doc'[d] # "pending"
              /\ doc'[d] = "processing" => doc[d] = "pending"]_vars

(* With clients that wait for the answer to an upload, the table holds no more
   documents than "the maximum is {_MAX_EVIDENCE_PER_CASE} per case", and the
   case record lists every document a job was started for ("Evidence is
   appended once per upload batch"), whatever batches were rejected half-way
   and wherever the server restarted (upload_documents).                    *)
UploadsAreKept ==
    /\ Cardinality(Stored) <= Cap
    /\ \A d \in Docs : d \in claimed \/ doc[d] \notin {"absent", "pending"}
          => d \in evidence

(* Whatever jobs meet, short of a database outage while one is being recorded
   as failed, a started extraction ends with a verdict, and every claim is
   given back (_run_extraction, _run_discrepancy_check).                    *)
WorkEnds(d) ==
    /\ d \in claimed ~> d \notin claimed /\ Finished(d)
    /\ "check" \in claimed ~> "check" \notin claimed

(* "Auto-trigger discrepancy-check once every document in the case has
   finished (successfully or not) and at least one succeeded" (_run_extraction):
   when a case with several documents is at rest, a check has read all that
   was extracted.                                                           *)
LastBatchIsChecked ==
    (/\ claimed = {}
     /\ \A u \in Uploads : ~Open(u)
     /\ \A d \in Stored : Finished(d)
     /\ Cardinality(Stored) > 1)
        => Complete \subseteq checked
=============================================================================
