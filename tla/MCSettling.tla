------------------------------ MODULE MCSettling ------------------------------
(***************************************************************************)
(* What must happen in the end: in the jobs of a case, in its live stream  *)
(* and in the jobs of its documents.  The three are checked side by side:  *)
(* `part` says which one a behaviour is about, and the others stay as they *)
(* begin.                                                                  *)
(***************************************************************************)
EXTENDS Integers, Sequences, FiniteSets, TLC

CONSTANTS c1, c2, r1, w1, a, o1, p1, d1, d2, u1, u2, w2, None

VARIABLES
    part,
    cases, filings, claim, queue, worker, request, crashes,  \* jobs
    log, running, thread, subs, inbox, stream, wire, page,   \* stream
    doc, evidence, upload, claimed, waiting, thread2, checked, restarts  \* documents

jVars == <<cases, filings, claim, queue, worker, request, crashes>>
eVars == <<log, running, thread, subs, inbox, stream, wire, page>>
dVars == <<doc, evidence, upload, claimed, waiting, thread2, checked, restarts>>

(* Two cases that are only started, with one worker for their jobs, so that *)
(* one waits for the other.                                                 *)
J == INSTANCE CaseLifecycle WITH
    Cases <- {c1, c2}, Requests <- {r1}, Workers <- {w1}, Submissions <- {},
    Reviewers <- {}, Ops <- {"skip", "run"}, Faults <- {"exception"}, MaxCrashes <- 0

(* A case whose job and whose other thread write at once. *)
E == INSTANCE EventStream WITH
    Agents <- {a}, Others <- {o1}, Quiet <- {}, Pages <- {p1},
    MaxSteps <- 1, MaxTokens <- 1, MaxWire <- 1

(* Overlapping uploads, whose extractions and checks share two workers. *)
D == INSTANCE Evidence WITH
    queue <- waiting, worker <- thread2, crashes <- restarts,
    Docs <- {d1, d2}, Uploads <- {u1, u2}, Workers <- {w1, w2}, Cap <- 3, MaxFiles <- 1,
    Overlapping <- TRUE, Manual <- TRUE, Faults <- {"exception"}, MaxCrashes <- 0

-----------------------------------------------------------------------------
Init ==
    /\ part \in {"jobs", "stream", "documents"}
    /\ J!Init /\ E!Init /\ D!Init

Next ==
    /\ UNCHANGED part
    /\ \/ part = "jobs" /\ J!Next /\ UNCHANGED <<eVars, dVars>>
       \/ part = "stream" /\ E!Next /\ UNCHANGED <<jVars, dVars>>
       \/ part = "documents" /\ D!Next /\ UNCHANGED <<jVars, eVars>>

vars == <<part, jVars, eVars, dVars>>

(* Nothing that is owed is enabled in the parts that stay as they begin. *)
FairSpec == Init /\ [][Next]_vars /\ J!Fairness /\ E!Fairness /\ D!Fairness

-----------------------------------------------------------------------------
(* What runs on a case ends with its claim given back and not in            *)
(* "processing", whatever the agents raise and however jobs queue           *)
(* (jobs.py:106-206); the two cases are alike, so one is watched.           *)
JobsSettle == J!Settles(c1)

(* A stream never hangs: it ends, runs idle or is cut (main.py:800-850).    *)
StreamEnds == E!StreamEnds

(* Whatever the jobs of the documents meet, a started extraction ends with  *)
(* a verdict and every claim is given back (jobs.py:265-345); the documents *)
(* are alike, so one is watched.                                            *)
WorkEnds == D!WorkEnds(d1)
=============================================================================
