---------------------------- MODULE CaseLifecycle ----------------------------
(***************************************************************************)
(* The case record, the HTTP handlers that change it and the background    *)
(* jobs that run the agents on it (app/main.py, app/routers/reviews.py,    *)
(* app/jobs.py, app/db.py).                                                *)
(*                                                                         *)
(* Handlers run concurrently in a thread pool.  Each loads the record,     *)
(* checks it, and writes or starts a job afterwards: one action for the    *)
(* check, one for each later write, so that anything may happen between.   *)
(* A handler whose check fails answers with an error and changes nothing:  *)
(* it takes no step here.                                                  *)
(*                                                                         *)
(* A job is claimed in `_running`, waits in the executor's FIFO queue, and *)
(* is run by one of a bounded pool of workers, step by step.               *)
(***************************************************************************)
EXTENDS Naturals, Sequences

CONSTANTS
    Cases,        \* identifiers of the cases
    Requests,     \* the request threads that can be in a handler at once
    Workers,      \* the threads of the job executor
    Submissions,  \* distinct respondent submissions
    Reviewers,    \* the users with the reviewer role
    None,         \* Python's None
    Ops,          \* the operations clients call
    Faults,       \* the failures that occur: "exception", "outage"
    MaxCrashes    \* bound on the number of process restarts

VARIABLES
    cases,    \* the cases table: one JSON record per case
    filings,  \* how many filing_confirmed events the audit log has per case
    claim,    \* jobs._running: the phase a case is claimed for, or None
    queue,    \* the work queue of jobs._executor
    worker,   \* what each executor thread is running, or None
    request,  \* what each request thread has checked and not yet done
    crashes   \* restarts so far

vars == <<cases, filings, claim, queue, worker, request, crashes>>

-----------------------------------------------------------------------------
(* The data. *)

Status == {"absent", "draft", "awaiting_response", "ready", "processing",
           "mediation_proposed", "mediation_accepted", "resolved",
           "escalated", "error"}

Phase == {"pipeline", "resolution"}

(* What the agents read from the other party: a submission, or None when the
   case is uncontested.                                                     *)
Input == Submissions \cup {None}

(* The CaseContext blackboard: the input it was built from, whether Agents
   1-4 filled it in, and whether the route demands a human signature.       *)
Context == [basis : Input, full : BOOLEAN, signoff : BOOLEAN]

Proposal == [basis : Input]

Order == [basis : Input, via : BOOLEAN, signoff : BOOLEAN]

Checkpoint == {"pre_filter", "post_check"}

CaseRecord ==
    [status : Status,
     confirmed : BOOLEAN,                       \* filing_confirmation
     submission : Input,                        \* respondent_submission
     ctx : Context \cup {None},                 \* _ctx
     mediation : Proposal \cup {None},
     resolution : Order \cup {None},
     escalation : Checkpoint \cup {None},
     accepted : BOOLEAN \cup {None},            \* mediation_accepted
     reviewRequested : BOOLEAN,                 \* human_review_requested
     decision : Reviewers \cup {None}]          \* reviewer_decision

Job == [case : Cases, phase : Phase, via : BOOLEAN]

Terminal == {"awaiting_decision", "resolved", "escalated_terminal"}

(* A job on a worker.  From "mark" to "persist" it holds its blackboard. *)
Running ==
    [job : Job, pc : {"load", "fail", "release"}, ctx : Context \cup {None},
     event : Terminal \cup {None}] \cup
    [job : Job, pc : {"mark", "agents", "persist"}, ctx : Context,
     event : Terminal \cup {None}]

(* A request that has passed its handler's checks; `arg` is the party's
   answer to the mediation proposal, or the reviewer.                       *)
Pending ==
    [op : {"submit", "audit", "review", "run"}, case : Cases, arg : {None}] \cup
    [op : {"mediate", "start"}, case : Cases, arg : BOOLEAN] \cup
    [op : {"decide"}, case : Cases, arg : Reviewers]

(* Python's None is none of the values above. *)
ASSUME NoneAssumption ==
    /\ None \notin Submissions \cup Reviewers
    /\ None \notin BOOLEAN
    /\ None \notin Status \cup Phase \cup Checkpoint \cup Terminal
    /\ None \notin Context \cup Running
    /\ None \notin Proposal \cup Order
    /\ None \notin Pending

ASSUME BoundAssumption == MaxCrashes \in Nat

NoCase == [status |-> "absent", confirmed |-> FALSE, submission |-> None,
           ctx |-> None, mediation |-> None, resolution |-> None,
           escalation |-> None, accepted |-> None, reviewRequested |-> FALSE,
           decision |-> None]

TypeOK ==
    /\ cases \in [Cases -> CaseRecord]
    /\ filings \in [Cases -> Nat]
    /\ claim \in [Cases -> Phase \cup {None}]
    /\ queue \in Seq(Job)
    /\ worker \in [Workers -> Running \cup {None}]
    /\ request \in [Requests -> Pending \cup {None}]
    /\ crashes \in 0 .. MaxCrashes

Exists(c) == cases[c].status # "absent"

Init ==
    /\ cases = [c \in Cases |-> NoCase]
    /\ filings = [c \in Cases |-> 0]
    /\ claim = [c \in Cases |-> None]
    /\ queue = <<>>
    /\ worker = [w \in Workers |-> None]
    /\ request = [r \in Requests |-> None]
    /\ crashes = 0

-----------------------------------------------------------------------------
(* Handlers. *)

(* A free request thread passes the checks of a handler of case c. *)
Check(r, c, op, arg) ==
    /\ request[r] = None
    /\ Exists(c)
    /\ request' = [request EXCEPT ![r] = [op |-> op, case |-> c, arg |-> arg]]
    /\ UNCHANGED <<cases, filings, claim, queue, worker, crashes>>

(* Request r is about to do the write of op. *)
At(r, op) == request[r] # None /\ request[r].op = op

(* db.update_case: one atomic read-modify-write of the record. *)
UpdateCase(c, new) == cases' = [cases EXCEPT ![c] = new]

Done(r) == request' = [request EXCEPT ![r] = None]

(* Mutant of StartJob: the job is handed over without claiming the case. *)
StartJobUnchecked(c, phase, via) ==
    /\ claim' = [claim EXCEPT ![c] = phase]
    /\ queue' = Append(queue, [case |-> c, phase |-> phase, via |-> via])

(* jobs.start_pipeline, jobs.start_resolution: claim the case or refuse, and
   hand the job to the executor.                                            *)
StartJob(c, phase, via) ==
    IF claim[c] = None
    THEN /\ claim' = [claim EXCEPT ![c] = phase]
         /\ queue' = Append(queue, [case |-> c, phase |-> phase, via |-> via])
    ELSE UNCHANGED <<claim, queue>>

CreateCase(c) ==
    /\ ~Exists(c)
    /\ UpdateCase(c, [NoCase EXCEPT !.status = "draft"])
    /\ UNCHANGED <<filings, claim, queue, worker, request, crashes>>

SubmitCheck(r, c) ==
    /\ "submit" \in Ops
    /\ cases[c].status = "draft"
    /\ Check(r, c, "submit", None)

SubmitWrite(r) ==
    /\ At(r, "submit")
    /\ LET c == request[r].case
       IN UpdateCase(c, [cases[c] EXCEPT !.status = "awaiting_response",
                                         !.confirmed = TRUE])
    /\ request' = [request EXCEPT ![r].op = "audit"]
    /\ UNCHANGED <<filings, claim, queue, worker, crashes>>

(* Then the filing is appended to the audit log. *)
SubmitAudit(r) ==
    /\ At(r, "audit")
    /\ filings' = [filings EXCEPT ![request[r].case] = @ + 1]
    /\ Done(r)
    /\ UNCHANGED <<cases, claim, queue, worker, crashes>>

(* Mutant of Respond: a new response withdraws the proposal made so far. *)
RespondWithdrawing(c, s) ==
    /\ "respond" \in Ops
    /\ Exists(c)
    /\ UpdateCase(c, [cases[c] EXCEPT !.status = "ready", !.submission = s,
                                      !.mediation = None])
    /\ UNCHANGED <<filings, claim, queue, worker, request, crashes>>

(* Neither handler looks at the status: one write from any state. *)
Respond(c, s) ==
    /\ "respond" \in Ops
    /\ Exists(c)
    /\ UpdateCase(c, [cases[c] EXCEPT !.status = "ready", !.submission = s])
    /\ UNCHANGED <<filings, claim, queue, worker, request, crashes>>

SkipResponse(c) ==
    /\ "skip" \in Ops
    /\ Exists(c)
    /\ UpdateCase(c, [cases[c] EXCEPT !.status = "ready", !.submission = None])
    /\ UNCHANGED <<filings, claim, queue, worker, request, crashes>>

RequestReviewCheck(r, c) ==
    /\ "review" \in Ops
    /\ cases[c].status # "draft"
    /\ ~cases[c].reviewRequested
    /\ Check(r, c, "review", None)

RequestReviewWrite(r) ==
    /\ At(r, "review")
    /\ LET c == request[r].case
       IN UpdateCase(c, [cases[c] EXCEPT !.reviewRequested = TRUE])
    /\ Done(r)
    /\ UNCHANGED <<filings, claim, queue, worker, crashes>>

Runnable == {"awaiting_response", "ready", "error"}

RunCheck(r, c) ==
    /\ "run" \in Ops
    /\ cases[c].status \in Runnable
    /\ Check(r, c, "run", None)

RunStart(r) ==
    /\ At(r, "run")
    /\ StartJob(request[r].case, "pipeline", TRUE)
    /\ Done(r)
    /\ UNCHANGED <<cases, filings, worker, crashes>>

MediationCheck(r, c, accept) ==
    /\ "mediate" \in Ops
    /\ cases[c].ctx # None
    /\ cases[c].status \notin {"resolved", "escalated"}
    /\ Check(r, c, "mediate", accept)

(* The status is written first, whether or not the job then starts. *)
MediationWrite(r) ==
    /\ At(r, "mediate")
    /\ LET c == request[r].case
       IN UpdateCase(c, [cases[c] EXCEPT !.status =
              IF request[r].arg THEN "mediation_accepted" ELSE "processing"])
    /\ request' = [request EXCEPT ![r].op = "start"]
    /\ UNCHANGED <<filings, claim, queue, worker, crashes>>

MediationStart(r) ==
    /\ At(r, "start")
    /\ StartJob(request[r].case, "resolution", request[r].arg)
    /\ Done(r)
    /\ UNCHANGED <<cases, filings, worker, crashes>>

(* reviews._reasons and reviews._needs_review. *)
HasReviewReason(case) ==
    \/ case.status = "escalated"
    \/ case.reviewRequested
    \/ case.status = "resolved" /\ case.resolution # None /\ case.resolution.signoff

NeedsReview(case) == HasReviewReason(case) /\ case.decision = None

DecideCheck(r, c, reviewer) ==
    /\ "decide" \in Ops
    /\ NeedsReview(cases[c])
    /\ Check(r, c, "decide", reviewer)

DecideWrite(r) ==
    /\ At(r, "decide")
    /\ LET c == request[r].case
       IN UpdateCase(c, [cases[c] EXCEPT !.status = "resolved",
                                         !.decision = request[r].arg])
    /\ Done(r)
    /\ UNCHANGED <<filings, claim, queue, worker, crashes>>

-----------------------------------------------------------------------------
(* Jobs. *)

(* Worker w runs a job of this phase and is at step pc of it. *)
On(w, phase, pc) ==
    worker[w] # None /\ worker[w].job.phase = phase /\ worker[w].pc = pc

CaseOf(w) == worker[w].job.case

(* An idle worker takes the oldest queued job. *)
Dequeue(w) ==
    /\ worker[w] = None
    /\ queue # <<>>
    /\ worker' = [worker EXCEPT ![w] =
           [job |-> Head(queue), pc |-> "load", ctx |-> None, event |-> None]]
    /\ queue' = Tail(queue)
    /\ UNCHANGED <<cases, filings, claim, request, crashes>>

PipelineLoad(w) ==
    /\ On(w, "pipeline", "load")
    /\ worker' = [worker EXCEPT ![w].pc = "mark",
           ![w].ctx = [basis |-> cases[CaseOf(w)].submission,
                       full |-> FALSE, signoff |-> FALSE]]
    /\ UNCHANGED <<cases, filings, claim, queue, request, crashes>>

PipelineMark(w) ==
    /\ On(w, "pipeline", "mark")
    /\ UpdateCase(CaseOf(w), [cases[CaseOf(w)] EXCEPT !.status = "processing"])
    /\ worker' = [worker EXCEPT ![w].pc = "agents"]
    /\ UNCHANGED <<filings, claim, queue, request, crashes>>

(* Worker w has appended and published this terminal event of the graph. *)
Emit(w, ctx, event) ==
    /\ worker' = [worker EXCEPT ![w].pc = "persist", ![w].ctx = ctx,
                                ![w].event = event]
    /\ UNCHANGED <<cases, filings, claim, queue, request, crashes>>

(* Checkpoint A stops the case, or Agents 1-4 fill in the blackboard. *)
PipelineAgents(w) ==
    /\ On(w, "pipeline", "agents")
    /\ \/ Emit(w, worker[w].ctx, "escalated_terminal")
       \/ \E tier2 \in BOOLEAN :
             Emit(w, [worker[w].ctx EXCEPT !.full = TRUE, !.signoff = tier2],
                  "awaiting_decision")

(* Mutant of PipelinePersist: an escalation does not store the blackboard. *)
PipelinePersistPartly(w) ==
    /\ On(w, "pipeline", "persist")
    /\ LET c == CaseOf(w)
           ctx == worker[w].ctx
       IN IF worker[w].event = "awaiting_decision"
          THEN UpdateCase(c, [cases[c] EXCEPT
                  !.status = "mediation_proposed", !.ctx = ctx,
                  !.mediation = [basis |-> ctx.basis]])
          ELSE UpdateCase(c, [cases[c] EXCEPT
                  !.status = "escalated", !.escalation = "pre_filter"])
    /\ worker' = [worker EXCEPT ![w].pc = "release"]
    /\ UNCHANGED <<filings, claim, queue, request, crashes>>

(* The on_event callback of _run_pipeline: the record, after the event. *)
PipelinePersist(w) ==
    /\ On(w, "pipeline", "persist")
    /\ LET c == CaseOf(w)
           ctx == worker[w].ctx
       IN IF worker[w].event = "awaiting_decision"
          THEN UpdateCase(c, [cases[c] EXCEPT
                  !.status = "mediation_proposed", !.ctx = ctx,
                  !.mediation = [basis |-> ctx.basis]])
          ELSE UpdateCase(c, [cases[c] EXCEPT
                  !.status = "escalated", !.ctx = ctx,
                  !.escalation = "pre_filter"])
    /\ worker' = [worker EXCEPT ![w].pc = "release"]
    /\ UNCHANGED <<filings, claim, queue, request, crashes>>

(* Mutant of ResolutionLoad: the blackboard takes the current submission. *)
ResolutionLoadFresh(w) ==
    /\ On(w, "resolution", "load")
    /\ LET case == cases[CaseOf(w)]
       IN IF case.ctx = None
          THEN worker' = [worker EXCEPT ![w].pc = "release"]
          ELSE worker' = [worker EXCEPT ![w].pc = "agents",
                  ![w].ctx = [case.ctx EXCEPT !.basis = case.submission]]
    /\ UNCHANGED <<cases, filings, claim, queue, request, crashes>>

(* Without a blackboard the job reports an error and leaves the status. *)
ResolutionLoad(w) ==
    /\ On(w, "resolution", "load")
    /\ LET ctx == cases[CaseOf(w)].ctx
       IN worker' = [worker EXCEPT
              ![w].pc = IF ctx = None THEN "release" ELSE "agents", ![w].ctx = ctx]
    /\ UNCHANGED <<cases, filings, claim, queue, request, crashes>>

(* Mutant of ResolutionAgents: checkpoint B does not ask for precedents. *)
ResolutionAgentsUngated(w) ==
    /\ On(w, "resolution", "agents")
    /\ \/ Emit(w, worker[w].ctx, "escalated_terminal")
       \/ Emit(w, worker[w].ctx, "resolved")

(* Checkpoint B stops the case, always so when no precedent was retrieved
   because Agents 1-4 never ran; otherwise the order is drafted.            *)
ResolutionAgents(w) ==
    /\ On(w, "resolution", "agents")
    /\ \/ Emit(w, worker[w].ctx, "escalated_terminal")
       \/ worker[w].ctx.full /\ Emit(w, worker[w].ctx, "resolved")

(* The on_event callback of _run_resolution. *)
ResolutionPersist(w) ==
    /\ On(w, "resolution", "persist")
    /\ LET c == CaseOf(w)
           ctx == worker[w].ctx
           via == worker[w].job.via
       IN IF worker[w].event = "resolved"
          THEN UpdateCase(c, [cases[c] EXCEPT
                  !.status = "resolved", !.ctx = ctx, !.accepted = via,
                  !.resolution = [basis |-> ctx.basis, via |-> via,
                                  signoff |-> ctx.signoff]])
          ELSE UpdateCase(c, [cases[c] EXCEPT
                  !.status = "escalated", !.ctx = ctx, !.accepted = via,
                  !.escalation = "post_check"])
    /\ worker' = [worker EXCEPT ![w].pc = "release"]
    /\ UNCHANGED <<filings, claim, queue, request, crashes>>

(* An agent or the database raises: the error event is appended first. *)
Raise(w) ==
    /\ "exception" \in Faults
    /\ worker[w] # None
    /\ worker[w].pc \in {"load", "mark", "agents", "persist"}
    /\ worker' = [worker EXCEPT ![w].pc = "fail"]
    /\ UNCHANGED <<cases, filings, claim, queue, request, crashes>>

(* Mutant of RecordError: a status no other code knows. *)
RecordErrorOddly(w) ==
    /\ worker[w] # None
    /\ worker[w].pc = "fail"
    /\ UpdateCase(CaseOf(w), [cases[CaseOf(w)] EXCEPT !.status = "failed"])
    /\ worker' = [worker EXCEPT ![w].pc = "release"]
    /\ UNCHANGED <<filings, claim, queue, request, crashes>>

(* Mutant of RecordError: the handler ends the thread itself. *)
RecordErrorUnreleased(w) ==
    /\ worker[w] # None
    /\ worker[w].pc = "fail"
    /\ UpdateCase(CaseOf(w), [cases[CaseOf(w)] EXCEPT !.status = "error"])
    /\ worker' = [worker EXCEPT ![w] = None]
    /\ UNCHANGED <<filings, claim, queue, request, crashes>>

RecordError(w) ==
    /\ worker[w] # None
    /\ worker[w].pc = "fail"
    /\ UpdateCase(CaseOf(w), [cases[CaseOf(w)] EXCEPT !.status = "error"])
    /\ worker' = [worker EXCEPT ![w].pc = "release"]
    /\ UNCHANGED <<filings, claim, queue, request, crashes>>

(* The exception handler itself raises: its database is out as well. *)
HandlerRaises(w) ==
    /\ "outage" \in Faults
    /\ worker[w] # None
    /\ worker[w].pc = "fail"
    /\ worker' = [worker EXCEPT ![w].pc = "release"]
    /\ UNCHANGED <<cases, filings, claim, queue, request, crashes>>

(* The finally clause, whatever happened. *)
Release(w) ==
    /\ worker[w] # None
    /\ worker[w].pc = "release"
    /\ claim' = [claim EXCEPT ![CaseOf(w)] = None]
    /\ worker' = [worker EXCEPT ![w] = None]
    /\ UNCHANGED <<cases, filings, queue, request, crashes>>

-----------------------------------------------------------------------------
(* The process restarts: only the database survives. *)
Crash ==
    /\ crashes < MaxCrashes
    /\ claim' = [c \in Cases |-> None]
    /\ queue' = <<>>
    /\ worker' = [w \in Workers |-> None]
    /\ request' = [r \in Requests |-> None]
    /\ crashes' = crashes + 1
    /\ UNCHANGED <<cases, filings>>

(* scripts/reset_stuck_cases.py, used as its docstring says: on a case the
   server is not working on.                                                *)
ResetStuck(c) ==
    /\ "reset" \in Ops
    /\ claim[c] = None
    /\ cases[c].status = "processing"
    /\ UpdateCase(c, [cases[c] EXCEPT !.status = "ready"])
    /\ UNCHANGED <<filings, claim, queue, worker, request, crashes>>

-----------------------------------------------------------------------------
Begin(r, c) ==
    \/ SubmitCheck(r, c)
    \/ RequestReviewCheck(r, c)
    \/ RunCheck(r, c)
    \/ \E accept \in BOOLEAN : MediationCheck(r, c, accept)
    \/ \E reviewer \in Reviewers : DecideCheck(r, c, reviewer)

Complete(r) ==
    \/ SubmitWrite(r)
    \/ SubmitAudit(r)
    \/ RequestReviewWrite(r)
    \/ RunStart(r)
    \/ MediationWrite(r)
    \/ MediationStart(r)
    \/ DecideWrite(r)

Party(c) ==
    \/ CreateCase(c)
    \/ \E s \in Submissions : Respond(c, s)
    \/ SkipResponse(c)
    \/ ResetStuck(c)

Work(w) ==
    \/ Dequeue(w)
    \/ PipelineLoad(w)
    \/ PipelineMark(w)
    \/ PipelineAgents(w)
    \/ PipelinePersist(w)
    \/ ResolutionLoad(w)
    \/ ResolutionAgents(w)
    \/ ResolutionPersist(w)
    \/ RecordError(w)
    \/ Release(w)

Fault(w) == Raise(w) \/ HandlerRaises(w)

Next ==
    \/ \E r \in Requests, c \in Cases : Begin(r, c)
    \/ \E r \in Requests : Complete(r)
    \/ \E c \in Cases : Party(c)
    \/ \E w \in Workers : Work(w) \/ Fault(w)
    \/ Crash

Spec == Init /\ [][Next]_vars

(* Threads the operating system schedules: a handler past its checks and a
   worker with something to do go on.  Clients and faults owe nothing.      *)
Fairness ==
    /\ \A r \in Requests : WF_vars(Complete(r))
    /\ \A w \in Workers : WF_vars(Work(w))
-----------------------------------------------------------------------------
(* Properties. *)

(* The jobs alive for case c: queued, or on a worker. *)
JobsOf(c) ==
    {queue[i] : i \in {j \in DOMAIN queue : queue[j].case = c}} \cup
    {worker[w].job : w \in {v \in Workers : worker[v] # None /\ CaseOf(v) = c}}

(* The claim registry is exact.  A claimed case has a live job of the claimed
   phase, a live job has its case claimed, and no case has two: never two in
   the queue, two on workers, or one in each (jobs._claim, jobs._release).  *)
ClaimIsExact ==
    /\ \A c \in Cases : claim[c] = None <=> JobsOf(c) = {}
    /\ \A c \in Cases : \A j \in JobsOf(c) : j.phase = claim[c]
    /\ \A i, j \in DOMAIN queue : queue[i].case = queue[j].case => i = j
    /\ \A v, w \in Workers : worker[v] # None /\ worker[w] # None
                               /\ CaseOf(v) = CaseOf(w) => v = w
    /\ \A i \in DOMAIN queue, w \in Workers :
           worker[w] # None => CaseOf(w) # queue[i].case

(* An order the agents issued rests on the very input of the proposal the
   parties decided on, and records their decision.  Only the jobs write the
   blackboard, the proposal and the order, each over many steps from a copy
   they loaded first, while handlers keep rewriting the same record.        *)
OrderRestsOnProposal ==
    \A c \in Cases :
        LET case == cases[c]
        IN case.status = "resolved" /\ case.decision = None =>
               /\ case.resolution # None
               /\ case.mediation # None
               /\ case.ctx # None
               /\ case.resolution.basis = case.mediation.basis
               /\ case.resolution.basis = case.ctx.basis
               /\ case.resolution.signoff = case.ctx.signoff
               /\ case.resolution.via = case.accepted

(* An escalated case names the checkpoint that stopped it, and the pre-filter
   is named only on a blackboard no agent has filled in (graph.run_pipeline,
   graph.resolve_node).                                                     *)
EscalationIsExplained ==
    \A c \in Cases :
        cases[c].status = "escalated" =>
            /\ cases[c].escalation # None
            /\ cases[c].ctx # None
            /\ cases[c].escalation = "pre_filter" => ~cases[c].ctx.full

(* What the agents produced changes only while a job holds the case, and an
   order only ever changes while a resolution does.                         *)
AgentsWriteUnderClaim ==
    [][\A c \in Cases :
          /\ cases'[c].ctx # cases[c].ctx \/ cases'[c].mediation # cases[c].mediation
             => claim[c] # None
          /\ cases'[c].resolution # cases[c].resolution => claim[c] = "resolution"
      ]_vars

(* What runs on a case ends, in a server that stays up: whatever the job
   meets, its claim is given back, and the case is not left in "processing",
   a status nothing leads out of, but with an outcome or an error on record. *)
Settles(c) ==
    claim[c] # None ~> claim[c] = None /\ cases[c].status # "processing"

(* The abstract promise of the agents' side of a case.  A case's activity is
   read off the queue and the workers, not off the claim registry.          *)
Activity(c) ==
    IF JobsOf(c) = {} THEN None ELSE (CHOOSE j \in JobsOf(c) : TRUE).phase

Outcome(c) ==
    [ctx |-> cases[c].ctx, mediation |-> cases[c].mediation,
     resolution |-> cases[c].resolution, escalation |-> cases[c].escalation]

Runs == INSTANCE AgentRuns WITH
            active <- [c \in Cases |-> Activity(c)],
            outcome <- [c \in Cases |-> Outcome(c)]

(* Jobs and handlers together implement AgentRuns. *)
ImplementsAgentRuns == Runs!Spec

-----------------------------------------------------------------------------
(* What the repository says of the case lifecycle. *)

(* reviews.py: "Three distinct paths land a case in the review queue: 1.
   app.core.safety_gate auto-escalated it (status == "escalated")".         *)
EscalatedIsQueued ==
    \A c \in Cases : cases[c].status = "escalated" => NeedsReview(cases[c])
=============================================================================
