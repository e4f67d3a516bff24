------------------------ MODULE CaseLifecycle_proofs ------------------------
(* Theorems about CaseLifecycle, for every value of its constants. *)
EXTENDS CaseLifecycle, SequenceTheorems, TLAPS

-----------------------------------------------------------------------------
(* Type correctness. *)

(* db.update_case leaves a table of records, whatever the record written. *)
LEMMA UpdateCaseType ==
    ASSUME TypeOK, NEW c \in Cases, NEW new \in CaseRecord, UpdateCase(c, new)
    PROVE  cases' \in [Cases -> CaseRecord]
BY DEF TypeOK, UpdateCase

(* jobs.start_*: whether it claims or refuses. *)
LEMMA StartJobType ==
    ASSUME TypeOK, NEW c \in Cases, NEW phase \in Phase, NEW via \in BOOLEAN,
           StartJob(c, phase, via)
    PROVE  claim' \in [Cases -> Phase \cup {None}] /\ queue' \in Seq(Job)
<1>1. [case |-> c, phase |-> phase, via |-> via] \in Job
  BY DEF Job
<1>2. CASE claim[c] = None
  <2>1. claim' = [claim EXCEPT ![c] = phase]
    BY <1>2 DEF StartJob
  <2>2. queue' = Append(queue, [case |-> c, phase |-> phase, via |-> via])
    BY <1>2 DEF StartJob
  <2>3. queue' \in Seq(Job)
    BY <1>1, <2>2, AppendProperties DEF TypeOK
  <2> QED BY <2>1, <2>3 DEF TypeOK
<1>3. CASE claim[c] # None
  BY <1>3 DEF StartJob, TypeOK
<1> QED BY <1>2, <1>3

(* Handlers, whatever they check or write, keep the types. *)
LEMMA BeginType ==
    ASSUME TypeOK, NEW r \in Requests, NEW c \in Cases, Begin(r, c)
    PROVE  TypeOK'
<1>1. ASSUME NEW op, NEW arg, [op |-> op, case |-> c, arg |-> arg] \in Pending,
             Check(r, c, op, arg)
      PROVE  TypeOK'
  BY <1>1 DEF TypeOK, Check
<1>2. CASE SubmitCheck(r, c)
  BY <1>1, <1>2 DEF SubmitCheck, Pending
<1>3. CASE RequestReviewCheck(r, c)
  BY <1>1, <1>3 DEF RequestReviewCheck, Pending
<1>4. CASE RunCheck(r, c)
  BY <1>1, <1>4 DEF RunCheck, Pending
<1>5. ASSUME NEW accept \in BOOLEAN, MediationCheck(r, c, accept)
      PROVE  TypeOK'
  BY <1>1, <1>5 DEF MediationCheck, Pending
<1>6. ASSUME NEW reviewer \in Reviewers, DecideCheck(r, c, reviewer)
      PROVE  TypeOK'
  BY <1>1, <1>6 DEF DecideCheck, Pending
<1> QED BY <1>2, <1>3, <1>4, <1>5, <1>6 DEF Begin

LEMMA CompleteType ==
    ASSUME TypeOK, NEW r \in Requests, Complete(r)
    PROVE  TypeOK'
<1> USE NoneAssumption
<1> DEFINE c == request[r].case
<1>1. request[r] \in Pending /\ c \in Cases
  BY DEF TypeOK, Complete, SubmitWrite, SubmitAudit, RequestReviewWrite, RunStart,
         MediationWrite, MediationStart, DecideWrite, At, Pending
<1>2. cases[c] \in CaseRecord
  BY <1>1 DEF TypeOK
<1>3. CASE SubmitWrite(r)
  <2>1. [cases[c] EXCEPT !.status = "awaiting_response", !.confirmed = TRUE]
           \in CaseRecord
    BY <1>2 DEF CaseRecord, Status
  <2> QED BY <1>1, <1>3, <2>1, UpdateCaseType DEF SubmitWrite, At, TypeOK, Pending
<1>4. CASE SubmitAudit(r)
  BY <1>1, <1>4 DEF SubmitAudit, At, Done, TypeOK
<1>5. CASE RequestReviewWrite(r)
  <2>1. [cases[c] EXCEPT !.reviewRequested = TRUE] \in CaseRecord
    BY <1>2 DEF CaseRecord
  <2> QED BY <1>1, <1>5, <2>1, UpdateCaseType
          DEF RequestReviewWrite, At, Done, TypeOK
<1>6. CASE RunStart(r)
  <2>1. claim' \in [Cases -> Phase \cup {None}] /\ queue' \in Seq(Job)
    BY <1>1, <1>6, StartJobType DEF RunStart, Phase
  <2> QED BY <1>6, <2>1 DEF RunStart, Done, TypeOK
<1>7. CASE MediationWrite(r)
  <2>1. [cases[c] EXCEPT !.status =
            IF request[r].arg THEN "mediation_accepted" ELSE "processing"]
           \in CaseRecord
    BY <1>2 DEF CaseRecord, Status
  <2> QED BY <1>1, <1>7, <2>1, UpdateCaseType DEF MediationWrite, At, TypeOK, Pending
<1>8. CASE MediationStart(r)
  <2>1. request[r].arg \in BOOLEAN
    BY <1>1, <1>8 DEF MediationStart, At, Pending
  <2>2. claim' \in [Cases -> Phase \cup {None}] /\ queue' \in Seq(Job)
    BY <1>1, <1>8, <2>1, StartJobType DEF MediationStart, Phase
  <2> QED BY <1>8, <2>2 DEF MediationStart, Done, TypeOK
<1>9. CASE DecideWrite(r)
  <2>1. request[r].arg \in Reviewers
    BY <1>1, <1>9 DEF DecideWrite, At, Pending
  <2>2. [cases[c] EXCEPT !.status = "resolved", !.decision = request[r].arg]
           \in CaseRecord
    BY <1>2, <2>1 DEF CaseRecord, Status
  <2> QED BY <1>1, <1>9, <2>2, UpdateCaseType DEF DecideWrite, At, Done, TypeOK
<1> QED BY <1>3, <1>4, <1>5, <1>6, <1>7, <1>8, <1>9 DEF Complete

(* What a party or an operator writes keeps the types. *)
LEMMA PartyType ==
    ASSUME TypeOK, NEW c \in Cases, Party(c)
    PROVE  TypeOK'
<1>1. cases[c] \in CaseRecord
  BY DEF TypeOK
<1>2. ASSUME NEW new \in CaseRecord, UpdateCase(c, new),
             UNCHANGED <<filings, claim, queue, worker, request, crashes>>
      PROVE  TypeOK'
  BY <1>2, UpdateCaseType DEF TypeOK
<1>3. CASE CreateCase(c)
  <2>1. [NoCase EXCEPT !.status = "draft"] \in CaseRecord
    BY DEF NoCase, CaseRecord, Status, Input
  <2> QED BY <1>2, <1>3, <2>1 DEF CreateCase
<1>4. ASSUME NEW s \in Submissions, Respond(c, s)
      PROVE  TypeOK'
  <2>1. [cases[c] EXCEPT !.status = "ready", !.submission = s] \in CaseRecord
    BY <1>1 DEF CaseRecord, Status, Input
  <2> QED BY <1>2, <1>4, <2>1 DEF Respond
<1>5. CASE SkipResponse(c)
  <2>1. [cases[c] EXCEPT !.status = "ready", !.submission = None] \in CaseRecord
    BY <1>1 DEF CaseRecord, Status, Input
  <2> QED BY <1>2, <1>5, <2>1 DEF SkipResponse
<1>6. CASE ResetStuck(c)
  <2>1. [cases[c] EXCEPT !.status = "ready"] \in CaseRecord
    BY <1>1 DEF CaseRecord, Status
  <2> QED BY <1>2, <1>6, <2>1 DEF ResetStuck
<1> QED BY <1>3, <1>4, <1>5, <1>6 DEF Party

(* A job's step keeps the types: the record it writes, and its own state. *)
LEMMA WorkType ==
    ASSUME TypeOK, NEW w \in Workers, Work(w)
    PROVE  TypeOK' /\ (worker'[w] \in Running \/ Release(w))
<1> USE NoneAssumption
<1> DEFINE c == CaseOf(w)
<1>1. ASSUME NEW new \in Running \cup {None},
             worker' = [worker EXCEPT ![w] = new]
      PROVE  worker' \in [Workers -> Running \cup {None}]
  BY <1>1 DEF TypeOK
<1>2. ASSUME worker[w] # None
      PROVE  /\ worker[w] \in Running
             /\ worker[w].job \in Job
             /\ c \in Cases
             /\ cases[c] \in CaseRecord
  BY <1>2 DEF TypeOK, Running, Job, CaseOf
<1>3. CASE Dequeue(w)
  <2>1. Head(queue) \in Job /\ Tail(queue) \in Seq(Job)
    BY <1>3, HeadTailProperties DEF Dequeue, TypeOK
  <2>2. [job |-> Head(queue), pc |-> "load", ctx |-> None, event |-> None] \in Running
    BY <2>1 DEF Running
  <2>3. worker'[w] \in Running
    BY <1>3, <2>2 DEF Dequeue, TypeOK
  <2> QED BY <1>1, <1>3, <2>1, <2>2, <2>3 DEF Dequeue, TypeOK
<1>4. CASE PipelineLoad(w)
  <2>1. [basis |-> cases[c].submission, full |-> FALSE, signoff |-> FALSE] \in Context
    BY <1>2, <1>4 DEF PipelineLoad, On, CaseRecord, Context
  <2>2. worker'[w] \in Running
    BY <1>2, <1>4, <2>1 DEF PipelineLoad, On, Running, TypeOK
  <2> QED BY <1>4, <2>2 DEF PipelineLoad, TypeOK
<1>5. CASE PipelineMark(w)
  <2>1. [cases[c] EXCEPT !.status = "processing"] \in CaseRecord
    BY <1>2, <1>5 DEF PipelineMark, On, CaseRecord, Status
  <2>2. cases' \in [Cases -> CaseRecord]
    BY <1>2, <1>5, <2>1, UpdateCaseType DEF PipelineMark, On
  <2>3. worker'[w] \in Running
    BY <1>2, <1>5 DEF PipelineMark, On, Running, TypeOK
  <2> QED BY <1>5, <2>2, <2>3 DEF PipelineMark, TypeOK
<1>6. ASSUME NEW ctx \in Context, NEW event \in Terminal, Emit(w, ctx, event),
             worker[w] # None
      PROVE  TypeOK' /\ worker'[w] \in Running
  <2>1. worker'[w] \in Running
    BY <1>2, <1>6 DEF Emit, Running, TypeOK
  <2> QED BY <1>6, <2>1 DEF Emit, TypeOK
<1>7. CASE PipelineAgents(w)
  <2>1. worker[w] # None /\ worker[w].ctx \in Context
    BY <1>2, <1>7 DEF PipelineAgents, On, Running
  <2>2. ASSUME NEW tier2 \in BOOLEAN
        PROVE  [worker[w].ctx EXCEPT !.full = TRUE, !.signoff = tier2] \in Context
    BY <2>1 DEF Context
  <2> QED BY <1>6, <1>7, <2>1, <2>2 DEF PipelineAgents, Terminal
<1>8. CASE PipelinePersist(w)
  <2>1. worker[w] # None /\ worker[w].ctx \in Context
    BY <1>2, <1>8 DEF PipelinePersist, On, Running
  <2> DEFINE ctx == worker[w].ctx
  <2>2. [cases[c] EXCEPT !.status = "mediation_proposed", !.ctx = ctx,
                         !.mediation = [basis |-> ctx.basis]] \in CaseRecord
    BY <1>2, <2>1, ZenonT(60) DEF CaseRecord, Status, Context, Proposal
  <2>3. [cases[c] EXCEPT !.status = "escalated", !.ctx = ctx,
                         !.escalation = "pre_filter"] \in CaseRecord
    BY <1>2, <2>1 DEF CaseRecord, Status, Checkpoint
  <2>4. cases' \in [Cases -> CaseRecord]
    BY <1>2, <1>8, <2>1, <2>2, <2>3, UpdateCaseType DEF PipelinePersist
  <2>5. worker'[w] \in Running
    BY <1>2, <1>8, <2>1 DEF PipelinePersist, On, Running, TypeOK
  <2> QED BY <1>8, <2>4, <2>5 DEF PipelinePersist, TypeOK
<1>9. CASE ResolutionLoad(w)
  <2>1. worker'[w] \in Running
    BY <1>2, <1>9, ZenonT(60) DEF ResolutionLoad, On, Running, TypeOK, CaseRecord
  <2> QED BY <1>9, <2>1 DEF ResolutionLoad, TypeOK
<1>10. CASE ResolutionAgents(w)
  <2>1. worker[w] # None /\ worker[w].ctx \in Context
    BY <1>2, <1>10 DEF ResolutionAgents, On, Running
  <2> QED BY <1>6, <1>10, <2>1 DEF ResolutionAgents, Terminal
<1>11. CASE ResolutionPersist(w)
  <2>1. worker[w] # None /\ worker[w].ctx \in Context
    BY <1>2, <1>11 DEF ResolutionPersist, On, Running
  <2> DEFINE ctx == worker[w].ctx
             via == worker[w].job.via
  <2>2. via \in BOOLEAN
    BY <1>2, <2>1 DEF Job
  <2>3. [basis |-> ctx.basis, via |-> via, signoff |-> ctx.signoff] \in Order
    BY <2>1, <2>2 DEF Context, Order
  <2>4. [cases[c] EXCEPT !.status = "resolved", !.ctx = ctx, !.accepted = via,
            !.resolution = [basis |-> ctx.basis, via |-> via,
                            signoff |-> ctx.signoff]] \in CaseRecord
    BY <1>2, <2>1, <2>2, <2>3 DEF CaseRecord, Status
  <2>5. [cases[c] EXCEPT !.status = "escalated", !.ctx = ctx, !.accepted = via,
            !.escalation = "post_check"] \in CaseRecord
    BY <1>2, <2>1, <2>2 DEF CaseRecord, Status, Checkpoint
  <2>6. cases' \in [Cases -> CaseRecord]
    BY <1>2, <1>11, <2>1, <2>4, <2>5, UpdateCaseType DEF ResolutionPersist
  <2>7. worker'[w] \in Running
    BY <1>2, <1>11, <2>1 DEF ResolutionPersist, On, Running, TypeOK
  <2> QED BY <1>11, <2>6, <2>7 DEF ResolutionPersist, TypeOK
<1>12. CASE RecordError(w)
  <2>1. [cases[c] EXCEPT !.status = "error"] \in CaseRecord
    BY <1>2, <1>12 DEF RecordError, CaseRecord, Status
  <2>2. cases' \in [Cases -> CaseRecord]
    BY <1>2, <1>12, <2>1, UpdateCaseType DEF RecordError
  <2>3. worker'[w] \in Running
    BY <1>2, <1>12 DEF RecordError, Running, TypeOK
  <2> QED BY <1>12, <2>2, <2>3 DEF RecordError, TypeOK
<1>13. CASE Release(w)
  BY <1>2, <1>13 DEF Release, TypeOK
<1> QED BY <1>3, <1>4, <1>5, <1>7, <1>8, <1>9, <1>10, <1>11, <1>12, <1>13 DEF Work

(* A failing job, and a restart, keep the types. *)
LEMMA FaultType ==
    ASSUME TypeOK, NEW w \in Workers, Fault(w)
    PROVE  TypeOK' /\ worker'[w] \in Running
<1> USE NoneAssumption
<1>1. worker[w] \in Running
  BY DEF TypeOK, Fault, Raise, HandlerRaises
<1>2. CASE Raise(w)
  <2>1. worker'[w] = [worker[w] EXCEPT !.pc = "fail"]
    BY <1>2 DEF TypeOK, Raise
  <2>2. worker'[w] \in Running
    BY <1>1, <2>1 DEF Running
  <2> QED BY <1>2, <2>2 DEF TypeOK, Raise
<1>3. CASE HandlerRaises(w)
  <2>1. worker'[w] = [worker[w] EXCEPT !.pc = "release"]
    BY <1>3 DEF TypeOK, HandlerRaises
  <2>2. worker'[w] \in Running
    BY <1>1, <2>1 DEF Running
  <2> QED BY <1>3, <2>2 DEF TypeOK, HandlerRaises
<1> QED BY <1>2, <1>3 DEF Fault

LEMMA CrashType == TypeOK /\ Crash => TypeOK'
BY BoundAssumption DEF TypeOK, Crash

(* Every variable of CaseLifecycle keeps its type: in particular a job that
   is about to use its blackboard has one, whatever failed before.          *)
THEOREM TypeCorrect == Spec => []TypeOK
<1>1. Init => TypeOK
  BY BoundAssumption DEF Init, TypeOK, NoCase, CaseRecord, Status, Input
<1>2. TypeOK /\ [Next]_vars => TypeOK'
  <2>1. TypeOK /\ UNCHANGED vars => TypeOK'
    BY DEF TypeOK, vars
  <2> QED BY <2>1, BeginType, CompleteType, PartyType, WorkType, FaultType,
             CrashType DEF Next
<1> QED BY <1>1, <1>2, PTL DEF Spec

-----------------------------------------------------------------------------
(* The claim registry is exact.  ClaimIsExact speaks of sets of jobs; the
   parts of ClaimInv say the same of queue positions and workers, so that an
   action disturbs few of them.                                             *)

QueuedIsClaimed ==
    \A i \in DOMAIN queue : claim[queue[i].case] = queue[i].phase

RunningIsClaimed ==
    \A w \in Workers :
        worker[w] # None => claim[CaseOf(w)] = worker[w].job.phase

QueuedOnce ==
    \A i, j \in DOMAIN queue : queue[i].case = queue[j].case => i = j

RunningOnce ==
    \A v, w \in Workers :
        worker[v] # None /\ worker[w] # None /\ CaseOf(v) = CaseOf(w) => v = w

NotQueuedAndRunning ==
    \A i \in DOMAIN queue, w \in Workers :
        worker[w] # None => CaseOf(w) # queue[i].case

ClaimIsHeld ==
    \A c \in Cases :
        claim[c] # None =>
            \/ \E i \in DOMAIN queue : queue[i].case = c
            \/ \E w \in Workers : worker[w] # None /\ CaseOf(w) = c

ClaimInv ==
    /\ QueuedIsClaimed
    /\ RunningIsClaimed
    /\ QueuedOnce
    /\ RunningOnce
    /\ NotQueuedAndRunning
    /\ ClaimIsHeld

(* No job is queued, taken or dropped in this step. *)
SameJobs ==
    /\ UNCHANGED <<claim, queue>>
    /\ \A w \in Workers :
           /\ worker'[w] # None <=> worker[w] # None
           /\ worker[w] # None => worker'[w].job = worker[w].job

LEMMA SameJobsClaims ==
    ASSUME ClaimInv, SameJobs
    PROVE  ClaimInv'
BY DEF ClaimInv, SameJobs, QueuedIsClaimed, RunningIsClaimed, QueuedOnce,
       RunningOnce, NotQueuedAndRunning, ClaimIsHeld, CaseOf

LEMMA QueuedJob ==
    ASSUME TypeOK, NEW i \in DOMAIN queue
    PROVE  queue[i] \in Job /\ queue[i].case \in Cases /\ queue[i].phase \in Phase
<1>1. queue[i] \in Job
  BY LenProperties, ElementOfSeq DEF TypeOK
<1> QED BY <1>1 DEF Job

LEMMA RunningJob ==
    ASSUME TypeOK, NEW w \in Workers, worker[w] # None
    PROVE  /\ worker[w] \in Running /\ worker[w].job \in Job
           /\ CaseOf(w) \in Cases /\ worker[w].job.phase \in Phase
<1>1. worker[w] \in Running
  BY DEF TypeOK
<1>2. worker[w].job \in Job
  BY <1>1 DEF Running
<1> QED BY <1>1, <1>2 DEF CaseOf, Job

LEMMA StartJobClaims ==
    ASSUME TypeOK, ClaimInv, NEW c \in Cases, NEW phase \in Phase,
           NEW via \in BOOLEAN, StartJob(c, phase, via), UNCHANGED worker
    PROVE  ClaimInv'
<1>1. CASE claim[c] # None
  BY <1>1, SameJobsClaims DEF StartJob, SameJobs
<1>2. CASE claim[c] = None
  <2> DEFINE job == [case |-> c, phase |-> phase, via |-> via]
             n == Len(queue)
  <2>1. claim' = [claim EXCEPT ![c] = phase] /\ queue' = Append(queue, job)
    BY <1>2 DEF StartJob
  <2>2. job \in Job /\ job.case = c /\ job.phase = phase /\ phase # None
    BY NoneAssumption DEF Job, Phase
  <2>3. /\ n \in Nat
        /\ DOMAIN queue = 1 .. n
        /\ DOMAIN queue' = 1 .. n + 1
        /\ \A i \in 1 .. n : queue'[i] = queue[i]
        /\ queue'[n + 1] = job
    BY <2>1, <2>2, AppendProperties DEF TypeOK
  <2>4. \A i \in 1 .. n : queue[i].case \in Cases /\ queue[i].case # c
    BY <1>2, <2>3, QueuedJob, NoneAssumption DEF ClaimInv, QueuedIsClaimed
  <2>5. \A w \in Workers :
            worker[w] # None => CaseOf(w) \in Cases /\ CaseOf(w) # c
    BY <1>2, RunningJob, NoneAssumption DEF ClaimInv, RunningIsClaimed
  <2>6. /\ claim'[c] = phase
        /\ \A d \in Cases : d # c => claim'[d] = claim[d]
    BY <2>1 DEF TypeOK
  <2> HIDE DEF job, n
  <2>7. QueuedIsClaimed'
    BY <2>2, <2>3, <2>4, <2>6 DEF ClaimInv, QueuedIsClaimed
  <2>8. RunningIsClaimed'
    BY <2>5, <2>6 DEF ClaimInv, RunningIsClaimed, CaseOf
  <2>9. QueuedOnce'
    BY <2>2, <2>3, <2>4 DEF ClaimInv, QueuedOnce
  <2>10. RunningOnce'
    BY DEF ClaimInv, RunningOnce, CaseOf
  <2>11. NotQueuedAndRunning'
    BY <2>2, <2>3, <2>5 DEF ClaimInv, NotQueuedAndRunning, CaseOf
  <2>12. ClaimIsHeld'
    <3> SUFFICES ASSUME NEW d \in Cases, claim'[d] # None
                 PROVE  \/ \E i \in DOMAIN queue' : queue'[i].case = d
                        \/ \E w \in Workers : worker'[w] # None /\ CaseOf(w)' = d
      BY DEF ClaimIsHeld
    <3>1. CASE d = c
      BY <2>2, <2>3, <3>1
    <3>2. CASE d # c
      BY <2>3, <2>6, <3>2 DEF ClaimInv, ClaimIsHeld, CaseOf
    <3> QED BY <3>1, <3>2
  <2> QED BY <2>7, <2>8, <2>9, <2>10, <2>11, <2>12 DEF ClaimInv
<1> QED BY <1>1, <1>2

LEMMA DequeueClaims ==
    ASSUME TypeOK, ClaimInv, NEW w \in Workers, Dequeue(w)
    PROVE  ClaimInv'
<1> DEFINE n == Len(queue)
           job == Head(queue)
<1>1. /\ n \in Nat /\ n > 0
      /\ DOMAIN queue = 1 .. n
      /\ job = queue[1]
      /\ DOMAIN queue' = 1 .. n - 1
      /\ \A i \in 1 .. n - 1 : queue'[i] = queue[i + 1]
  BY HeadTailProperties DEF TypeOK, Dequeue
<1>2. /\ worker[w] = None
      /\ worker'[w] # None
      /\ worker'[w].job = queue[1]
      /\ \A v \in Workers : v # w => worker'[v] = worker[v]
      /\ claim' = claim
  <2>1. [job |-> job, pc |-> "load", ctx |-> None, event |-> None] \in Running
    BY <1>1, QueuedJob DEF Running
  <2>2. [job |-> job, pc |-> "load", ctx |-> None, event |-> None] # None
    BY <2>1, NoneAssumption
  <2> QED BY <1>1, <2>2 DEF TypeOK, Dequeue
<1> HIDE DEF n, job
<1>3. QueuedIsClaimed'
  BY <1>1, <1>2 DEF ClaimInv, QueuedIsClaimed
<1>4. RunningIsClaimed'
  BY <1>1, <1>2 DEF ClaimInv, QueuedIsClaimed, RunningIsClaimed, CaseOf
<1>5. QueuedOnce'
  <2> SUFFICES ASSUME NEW i \in 1 .. n - 1, NEW j \in 1 .. n - 1,
                      queue[i + 1].case = queue[j + 1].case
               PROVE  i = j
    BY <1>1 DEF QueuedOnce
  <2>1. i + 1 \in DOMAIN queue /\ j + 1 \in DOMAIN queue
    BY <1>1
  <2>2. i + 1 = j + 1
    BY <2>1 DEF ClaimInv, QueuedOnce
  <2> QED BY <2>2
<1>6. RunningOnce'
  BY <1>1, <1>2 DEF ClaimInv, RunningOnce, NotQueuedAndRunning, CaseOf
<1>7. NotQueuedAndRunning'
  <2> SUFFICES ASSUME NEW i \in 1 .. n - 1, NEW v \in Workers,
                      worker'[v] # None
               PROVE  worker'[v].job.case # queue[i + 1].case
    BY <1>1 DEF NotQueuedAndRunning, CaseOf
  <2>1. i + 1 \in DOMAIN queue /\ 1 \in DOMAIN queue /\ i + 1 # 1
    BY <1>1
  <2>2. CASE v = w
    BY <1>2, <2>1, <2>2 DEF ClaimInv, QueuedOnce
  <2>3. CASE v # w
    BY <1>2, <2>1, <2>3 DEF ClaimInv, NotQueuedAndRunning, CaseOf
  <2> QED BY <2>2, <2>3
<1>8. ClaimIsHeld'
  <2> SUFFICES ASSUME NEW d \in Cases, claim[d] # None
               PROVE  \/ \E i \in DOMAIN queue' : queue'[i].case = d
                      \/ \E v \in Workers : worker'[v] # None
                                               /\ worker'[v].job.case = d
    BY <1>2 DEF ClaimIsHeld, CaseOf
  <2>1. CASE \E i \in DOMAIN queue : queue[i].case = d
    <3>1. PICK i \in 1 .. n : queue[i].case = d
      BY <1>1, <2>1
    <3>2. CASE i = 1
      BY <1>2, <3>1, <3>2
    <3>3. CASE i # 1
      <4>1. i - 1 \in 1 .. n - 1 /\ (i - 1) + 1 = i
        BY <1>1, <3>1, <3>3
      <4>2. i - 1 \in DOMAIN queue' /\ queue'[i - 1].case = d
        BY <1>1, <3>1, <4>1
      <4> QED BY <4>2
    <3> QED BY <3>2, <3>3
  <2>2. CASE \E v \in Workers : worker[v] # None /\ CaseOf(v) = d
    BY <1>2, <2>2 DEF CaseOf
  <2> QED BY <2>1, <2>2 DEF ClaimInv, ClaimIsHeld
<1> QED BY <1>3, <1>4, <1>5, <1>6, <1>7, <1>8 DEF ClaimInv

LEMMA ReleaseClaims ==
    ASSUME TypeOK, ClaimInv, NEW w \in Workers, Release(w)
    PROVE  ClaimInv'
<1>1. /\ worker[w] # None /\ CaseOf(w) \in Cases
      /\ worker'[w] = None
      /\ \A v \in Workers : v # w => worker'[v] = worker[v]
      /\ queue' = queue
      /\ claim'[CaseOf(w)] = None
      /\ \A d \in Cases : d # CaseOf(w) => claim'[d] = claim[d]
  BY RunningJob DEF Release, TypeOK
<1>2. \A i \in DOMAIN queue :
          queue[i].case \in Cases /\ queue[i].case # CaseOf(w)
  BY <1>1, QueuedJob DEF ClaimInv, NotQueuedAndRunning
<1>3. \A v \in Workers :
          v # w /\ worker[v] # None => CaseOf(v) \in Cases /\ CaseOf(v) # CaseOf(w)
  BY <1>1, RunningJob DEF ClaimInv, RunningOnce
<1>4. QueuedIsClaimed'
  BY <1>1, <1>2 DEF ClaimInv, QueuedIsClaimed
<1>5. RunningIsClaimed'
  BY <1>1, <1>3 DEF ClaimInv, RunningIsClaimed, CaseOf
<1>6. QueuedOnce' /\ RunningOnce' /\ NotQueuedAndRunning'
  BY <1>1 DEF ClaimInv, QueuedOnce, RunningOnce, NotQueuedAndRunning, CaseOf
<1>7. ClaimIsHeld'
  BY <1>1 DEF ClaimInv, ClaimIsHeld, CaseOf
<1> QED BY <1>4, <1>5, <1>6, <1>7 DEF ClaimInv

(* Setting the fields of a running job, but for the job itself. *)
LEMMA RunningExcept ==
    ASSUME TypeOK, NEW w \in Workers, worker[w] # None, NEW pc, NEW ctx, NEW event,
           \/ worker' = [worker EXCEPT ![w].pc = pc]
           \/ worker' = [worker EXCEPT ![w].pc = pc, ![w].ctx = ctx]
           \/ worker' = [worker EXCEPT ![w].pc = pc, ![w].ctx = ctx,
                                       ![w].event = event]
    PROVE  /\ worker'[w].job = worker[w].job
           /\ \A v \in Workers : v # w => worker'[v] = worker[v]
<1>1. worker \in [Workers -> Running \cup {None}]
  BY DEF TypeOK
<1>2. /\ worker[w] = [job |-> worker[w].job, pc |-> worker[w].pc,
                      ctx |-> worker[w].ctx, event |-> worker[w].event]
  BY RunningJob DEF Running
<1> QED BY <1>1, <1>2

(* Every other step of a job leaves it the job it is. *)
LEMMA WorkStep ==
    ASSUME TypeOK, NEW w \in Workers, Work(w)
    PROVE  Dequeue(w) \/ Release(w) \/ SameJobs
<1> SUFFICES ASSUME ~Dequeue(w), ~Release(w)
             PROVE  SameJobs
  BY SMTT(60)
<1>1. worker'[w] # None /\ worker[w] # None
  BY WorkType, NoneAssumption, ZenonT(60)
     DEF Work, PipelineLoad, PipelineMark, PipelineAgents, PipelinePersist,
         ResolutionLoad, ResolutionAgents, ResolutionPersist, RecordError, On
<1>2. /\ UNCHANGED <<claim, queue>>
      /\ \A v \in Workers : v # w => worker'[v] = worker[v]
      /\ worker'[w].job = worker[w].job
  <2>1. CASE PipelineLoad(w)
    BY <1>1, <2>1, RunningExcept, ZenonT(60) DEF PipelineLoad
  <2>2. CASE PipelineMark(w) \/ PipelinePersist(w) \/ ResolutionPersist(w)
               \/ RecordError(w)
    BY <1>1, <2>2, RunningExcept
       DEF PipelineMark, PipelinePersist, ResolutionPersist, RecordError
  <2>3. CASE ResolutionLoad(w)
    BY <1>1, <2>3, RunningExcept DEF ResolutionLoad
  <2>4. ASSUME NEW ctx, NEW event, Emit(w, ctx, event)
        PROVE  /\ UNCHANGED <<claim, queue>>
               /\ \A v \in Workers : v # w => worker'[v] = worker[v]
               /\ worker'[w].job = worker[w].job
    BY <1>1, <2>4, RunningExcept DEF Emit
  <2>5. CASE PipelineAgents(w) \/ ResolutionAgents(w)
    BY <2>4, <2>5 DEF PipelineAgents, ResolutionAgents
  <2> QED BY <2>1, <2>2, <2>3, <2>5 DEF Work
<1> QED BY <1>1, <1>2 DEF SameJobs

LEMMA FaultStep ==
    ASSUME TypeOK, NEW w \in Workers, Fault(w)
    PROVE  SameJobs
<1>1. worker'[w] # None /\ worker[w] # None
  BY FaultType, NoneAssumption, SMTT(60) DEF Fault, Raise, HandlerRaises
<1>2. /\ UNCHANGED <<claim, queue>>
      /\ \A v \in Workers : v # w => worker'[v] = worker[v]
      /\ worker'[w].job = worker[w].job
  BY <1>1, RunningExcept DEF Fault, Raise, HandlerRaises
<1> QED BY <1>1, <1>2 DEF SameJobs

LEMMA CrashClaims == Crash => ClaimInv'
BY DEF Crash, ClaimInv, QueuedIsClaimed, RunningIsClaimed, QueuedOnce,
       RunningOnce, NotQueuedAndRunning, ClaimIsHeld

LEMMA NextClaims == TypeOK /\ ClaimInv /\ [Next]_vars => ClaimInv'
<1> SUFFICES ASSUME TypeOK, ClaimInv, [Next]_vars
             PROVE  ClaimInv'
  OBVIOUS
<1>1. CASE UNCHANGED <<claim, queue, worker>>
  BY <1>1, SameJobsClaims DEF SameJobs
<1>2. CASE UNCHANGED vars
  BY <1>1, <1>2 DEF vars
<1>3. ASSUME NEW r \in Requests, NEW c \in Cases, Begin(r, c)
      PROVE  ClaimInv'
  BY <1>1, <1>3 DEF Begin, Check, SubmitCheck, RequestReviewCheck, RunCheck,
                    MediationCheck, DecideCheck
<1>4. ASSUME NEW c \in Cases, Party(c)
      PROVE  ClaimInv'
  BY <1>1, <1>4 DEF Party, CreateCase, Respond, SkipResponse, ResetStuck
<1>5. ASSUME NEW r \in Requests, Complete(r)
      PROVE  ClaimInv'
  <2>1. CASE SubmitWrite(r) \/ SubmitAudit(r) \/ RequestReviewWrite(r)
               \/ MediationWrite(r) \/ DecideWrite(r)
    BY <1>1, <2>1 DEF SubmitWrite, SubmitAudit, RequestReviewWrite,
                      MediationWrite, DecideWrite
  <2>2. CASE RunStart(r)
    <3>1. request[r].case \in Cases
      BY <2>2 DEF RunStart, At, TypeOK, Pending
    <3> QED BY <2>2, <3>1, StartJobClaims DEF RunStart, Phase
  <2>3. CASE MediationStart(r)
    <3>1. request[r] \in Pending /\ request[r].op = "start"
      BY <2>3 DEF MediationStart, At, TypeOK
    <3>2. request[r].case \in Cases /\ request[r].arg \in BOOLEAN
      BY <3>1 DEF Pending
    <3> QED BY <2>3, <3>2, StartJobClaims DEF MediationStart, Phase
  <2> QED BY <1>5, <2>1, <2>2, <2>3 DEF Complete
<1>6. ASSUME NEW w \in Workers, Work(w) \/ Fault(w)
      PROVE  ClaimInv'
  BY <1>6, WorkStep, FaultStep, DequeueClaims, ReleaseClaims, SameJobsClaims
<1> QED BY <1>2, <1>3, <1>4, <1>5, <1>6, CrashClaims DEF Next

(* What positions say, sets of jobs say. *)
LEMMA ClaimInvExact ==
    ASSUME TypeOK, ClaimInv
    PROVE  ClaimIsExact
<1>1. ASSUME NEW c \in Cases, NEW j \in JobsOf(c)
      PROVE  j.phase = claim[c] /\ claim[c] # None
  <2>1. CASE \E i \in DOMAIN queue : j = queue[i] /\ queue[i].case = c
    BY <2>1, QueuedJob, NoneAssumption DEF ClaimInv, QueuedIsClaimed
  <2>2. CASE \E w \in Workers : worker[w] # None /\ CaseOf(w) = c
                                 /\ j = worker[w].job
    BY <2>2, RunningJob, NoneAssumption DEF ClaimInv, RunningIsClaimed
  <2> QED BY <1>1, <2>1, <2>2 DEF JobsOf
<1>2. ASSUME NEW c \in Cases, claim[c] # None
      PROVE  JobsOf(c) # {}
  BY <1>2 DEF ClaimInv, ClaimIsHeld, JobsOf
<1> QED BY <1>1, <1>2 DEF ClaimInv, ClaimIsExact, QueuedOnce, RunningOnce,
                          NotQueuedAndRunning

(* jobs._claim and jobs._release are exact, for any number of cases, request
   threads and workers, in any interleaving and across failures and restarts:
   the registry holds exactly the cases that have a job, one job each.      *)
THEOREM ClaimCorrect == Spec => []ClaimIsExact
<1>1. Init => ClaimInv
  BY DEF Init, ClaimInv, QueuedIsClaimed, RunningIsClaimed, QueuedOnce,
         RunningOnce, NotQueuedAndRunning, ClaimIsHeld
<1>2. TypeOK /\ ClaimInv => ClaimIsExact
  BY ClaimInvExact
<1> QED BY <1>1, <1>2, TypeCorrect, NextClaims, PTL DEF Spec

-----------------------------------------------------------------------------
(* What the agents put on a case's record: orders rest on proposals,         *)
(* escalations are explained, all of it is written under the case's claim,   *)
(* and CaseLifecycle implements AgentRuns.  The argument: while a case is    *)
(* claimed nobody but its one job writes the agents' fields, so the copy a   *)
(* resolution works on is still what is on record when it writes its order.  *)

(* The inductive invariant: a part about each worker's job, against the
   blackboard on record, and a part about each record.                      *)

Blank(rec) ==
    rec.status = "absent" =>
        /\ rec.ctx = None
        /\ rec.mediation = None
        /\ rec.resolution = None
        /\ rec.escalation = None

(* A blackboard the agents filled in belongs to the proposal on record. *)
ProposalMatches(rec) ==
    rec.ctx # None /\ rec.ctx.full =>
        rec.mediation # None /\ rec.mediation.basis = rec.ctx.basis

OrderMatches(rec) ==
    rec.status = "resolved" /\ rec.decision = None =>
        /\ rec.resolution # None
        /\ rec.mediation # None
        /\ rec.ctx # None
        /\ rec.resolution.basis = rec.mediation.basis
        /\ rec.resolution.basis = rec.ctx.basis
        /\ rec.resolution.signoff = rec.ctx.signoff
        /\ rec.resolution.via = rec.accepted

EscalationMatches(rec) ==
    rec.status = "escalated" =>
        /\ rec.escalation # None
        /\ rec.ctx # None
        /\ rec.escalation = "pre_filter" => ~rec.ctx.full

RecordOK(rec) ==
    /\ Blank(rec)
    /\ ProposalMatches(rec)
    /\ OrderMatches(rec)
    /\ EscalationMatches(rec)

(* A resolution's copy is the blackboard on record, and it issues an order
   from a filled one only.                                                  *)
ResolutionOK(run, ctx) ==
    run.job.phase = "resolution" =>
        /\ run.pc \in {"agents", "persist"} => run.ctx = ctx
        /\ run.pc = "persist" /\ run.event = "resolved" => run.ctx.full

(* A pipeline's blackboard is empty unless it is about to propose. *)
PipelineOK(run) ==
    run.job.phase = "pipeline" =>
        /\ run.pc \in {"mark", "agents"} => ~run.ctx.full /\ ~run.ctx.signoff
        /\ run.pc = "persist" =>
               IF run.event = "awaiting_decision" THEN run.ctx.full
               ELSE ~run.ctx.full /\ ~run.ctx.signoff

AgentInv ==
    /\ \A w \in Workers : worker[w] # None =>
           ResolutionOK(worker[w], cases[CaseOf(w)].ctx) /\ PipelineOK(worker[w])
    /\ \A c \in Cases : RecordOK(cases[c])

Inv == TypeOK /\ ClaimInv /\ AgentInv

(* The agents' fields of every record, and what an order is judged by, are
   as before; no record becomes resolved or escalated.                      *)
SameOutcomes ==
    \A c \in Cases :
        /\ cases'[c].ctx = cases[c].ctx
        /\ cases'[c].mediation = cases[c].mediation
        /\ cases'[c].resolution = cases[c].resolution
        /\ cases'[c].escalation = cases[c].escalation
        /\ cases'[c].status = "absent" => cases[c].status = "absent"
        /\ cases'[c].status = "escalated" => cases[c].status = "escalated"
        /\ cases'[c].status = "resolved" /\ cases'[c].decision = None =>
               /\ cases[c].status = "resolved" /\ cases[c].decision = None
               /\ cases'[c].accepted = cases[c].accepted

-----------------------------------------------------------------------------
(* Handlers. *)

LEMMA SameOutcomesInv ==
    ASSUME Inv, SameOutcomes, UNCHANGED worker
    PROVE  AgentInv'
<1>1. ASSUME NEW w \in Workers, worker'[w] # None
      PROVE  (ResolutionOK(worker[w], cases[CaseOf(w)].ctx) /\ PipelineOK(worker[w]))'
  <2>1. CaseOf(w) \in Cases /\ CaseOf(w)' = CaseOf(w)
    BY <1>1, RunningJob DEF Inv, CaseOf
  <2>2. cases'[CaseOf(w)].ctx = cases[CaseOf(w)].ctx
    BY <2>1 DEF SameOutcomes
  <2> QED BY <1>1, <2>1, <2>2 DEF Inv, AgentInv, ResolutionOK, PipelineOK
<1>2. ASSUME NEW c \in Cases
      PROVE  RecordOK(cases[c])'
  BY DEF Inv, AgentInv, SameOutcomes, RecordOK, Blank, ProposalMatches,
         OrderMatches, EscalationMatches
<1> QED BY <1>1, <1>2 DEF AgentInv

LEMMA UpdateOne ==
    ASSUME Inv, NEW c \in Cases, NEW new, UpdateCase(c, new)
    PROVE  cases'[c] = new /\ \A d \in Cases : d # c => cases'[d] = cases[d]
BY DEF Inv, TypeOK, UpdateCase

(* The agents' fields of two records are the same. *)
SameAgents(new, old) ==
    /\ new.ctx = old.ctx
    /\ new.mediation = old.mediation
    /\ new.resolution = old.resolution
    /\ new.escalation = old.escalation

LEMMA HandlerUpdate ==
    ASSUME Inv, NEW c \in Cases, NEW new, UpdateCase(c, new),
           SameAgents(new, cases[c]),
           new.status = "absent" => cases[c].status = "absent",
           new.status = "escalated" => cases[c].status = "escalated",
           new.status = "resolved" /\ new.decision = None =>
               /\ cases[c].status = "resolved" /\ cases[c].decision = None
               /\ new.accepted = cases[c].accepted
    PROVE  SameOutcomes
<1>1. cases'[c] = new /\ \A d \in Cases : d # c => cases'[d] = cases[d]
  BY UpdateOne
<1> QED BY <1>1 DEF SameOutcomes, SameAgents

(* No handler touches what the agents wrote: the reviewer's decision is a
   field of its own.                                                        *)
LEMMA HandlerOutcomes ==
    ASSUME Inv, NEW r \in Requests, Complete(r)
    PROVE  SameOutcomes /\ UNCHANGED worker
<1> DEFINE c == request[r].case
           rec == cases[c]
<1>1. request[r] \in Pending /\ c \in Cases /\ rec \in CaseRecord
  BY DEF Inv, TypeOK, Complete, SubmitWrite, SubmitAudit, RequestReviewWrite, RunStart,
         MediationWrite, MediationStart, DecideWrite, At, Pending
<1>2. CASE UNCHANGED cases /\ UNCHANGED worker
  BY <1>2 DEF SameOutcomes
<1>3. CASE SubmitWrite(r)
  <2> DEFINE new == [rec EXCEPT !.status = "awaiting_response", !.confirmed = TRUE]
  <2>1. UpdateCase(c, new) /\ UNCHANGED worker
    BY <1>3 DEF SubmitWrite
  <2>2. SameAgents(new, rec) /\ new.status = "awaiting_response"
    BY <1>1 DEF CaseRecord, SameAgents
  <2> QED BY <1>1, <2>1, <2>2, HandlerUpdate
<1>4. CASE RequestReviewWrite(r)
  <2> DEFINE new == [rec EXCEPT !.reviewRequested = TRUE]
  <2>1. UpdateCase(c, new) /\ UNCHANGED worker
    BY <1>4 DEF RequestReviewWrite
  <2>2. /\ SameAgents(new, rec) /\ new.status = rec.status
        /\ new.decision = rec.decision /\ new.accepted = rec.accepted
    BY <1>1 DEF CaseRecord, SameAgents
  <2> QED BY <1>1, <2>1, <2>2, HandlerUpdate
<1>5. CASE MediationWrite(r)
  <2> DEFINE status == IF request[r].arg THEN "mediation_accepted" ELSE "processing"
             new == [rec EXCEPT !.status = status]
  <2>1. UpdateCase(c, new) /\ UNCHANGED worker
    BY <1>5 DEF MediationWrite
  <2>2. SameAgents(new, rec) /\ new.status = status
    BY <1>1 DEF CaseRecord, SameAgents
  <2>3. status \notin {"absent", "escalated", "resolved"}
    OBVIOUS
  <2> HIDE DEF status, new
  <2> QED BY <1>1, <2>1, <2>2, <2>3, HandlerUpdate
<1>6. CASE DecideWrite(r)
  <2> DEFINE new == [rec EXCEPT !.status = "resolved", !.decision = request[r].arg]
  <2>1. UpdateCase(c, new) /\ UNCHANGED worker
    BY <1>6 DEF DecideWrite
  <2>2. request[r].arg # None
    BY <1>1, <1>6, NoneAssumption DEF DecideWrite, At, Pending
  <2>3. SameAgents(new, rec) /\ new.status = "resolved" /\ new.decision # None
    BY <1>1, <2>2 DEF CaseRecord, SameAgents
  <2> QED BY <1>1, <2>1, <2>3, HandlerUpdate
<1>7. CASE SubmitAudit(r) \/ RunStart(r) \/ MediationStart(r)
  BY <1>2, <1>7 DEF SubmitAudit, RunStart, MediationStart
<1> QED BY <1>3, <1>4, <1>5, <1>6, <1>7 DEF Complete

LEMMA PartyOutcomes ==
    ASSUME Inv, NEW c \in Cases, Party(c)
    PROVE  SameOutcomes /\ UNCHANGED <<worker, queue, claim>>
<1> DEFINE rec == cases[c]
<1>1. rec \in CaseRecord
  BY DEF Inv, TypeOK
<1>2. CASE CreateCase(c)
  <2> DEFINE new == [NoCase EXCEPT !.status = "draft"]
  <2>1. UpdateCase(c, new) /\ UNCHANGED <<worker, queue, claim>>
    BY <1>2 DEF CreateCase
  <2>2. SameAgents(new, rec) /\ new.status = "draft"
    BY <1>2 DEF CreateCase, Exists, Inv, AgentInv, RecordOK, Blank, NoCase, SameAgents
  <2> QED BY <2>1, <2>2, HandlerUpdate
<1>3. ASSUME NEW s \in Input,
             UpdateCase(c, [rec EXCEPT !.status = "ready", !.submission = s])
      PROVE  SameOutcomes
  <2> DEFINE new == [rec EXCEPT !.status = "ready", !.submission = s]
  <2>1. SameAgents(new, rec) /\ new.status = "ready"
    BY <1>1 DEF CaseRecord, SameAgents
  <2> QED BY <1>3, <2>1, HandlerUpdate
<1>4. ASSUME NEW s \in Submissions, Respond(c, s)
      PROVE  SameOutcomes /\ UNCHANGED <<worker, queue, claim>>
  BY <1>3, <1>4 DEF Respond, Input
<1>5. CASE SkipResponse(c)
  BY <1>3, <1>5 DEF SkipResponse, Input
<1>6. CASE ResetStuck(c)
  <2> DEFINE new == [rec EXCEPT !.status = "ready"]
  <2>1. SameAgents(new, rec) /\ new.status = "ready"
    BY <1>1 DEF CaseRecord, SameAgents
  <2> QED BY <1>6, <2>1, HandlerUpdate DEF ResetStuck
<1> QED BY <1>2, <1>4, <1>5, <1>6 DEF Party

-----------------------------------------------------------------------------
(* Jobs. *)

(* A job's step concerns its own worker and its own case: no other worker
   has a job of the case, and the rest of the invariant is about others.    *)
LEMMA JobStepInv ==
    ASSUME Inv, NEW w \in Workers, worker[w] # None,
           \A v \in Workers : v # w => worker'[v] = worker[v],
           \A d \in Cases : d # CaseOf(w) => cases'[d] = cases[d],
           RecordOK(cases'[CaseOf(w)]),
           worker'[w] # None =>
               /\ worker'[w].job = worker[w].job
               /\ ResolutionOK(worker'[w], cases'[CaseOf(w)].ctx)
               /\ PipelineOK(worker'[w])
    PROVE  AgentInv'
<1>1. ASSUME NEW v \in Workers, worker'[v] # None
      PROVE  (ResolutionOK(worker[v], cases[CaseOf(v)].ctx) /\ PipelineOK(worker[v]))'
  <2>1. CASE v = w
    BY <1>1, <2>1 DEF CaseOf, ResolutionOK, PipelineOK
  <2>2. CASE v # w
    <3>1. worker'[v] = worker[v] /\ worker[v] # None
      BY <1>1, <2>2
    <3>2. CaseOf(v) \in Cases /\ CaseOf(v) # CaseOf(w) /\ CaseOf(v)' = CaseOf(v)
      BY <2>2, <3>1, RunningJob DEF Inv, ClaimInv, RunningOnce, CaseOf
    <3>3. cases'[CaseOf(v)] = cases[CaseOf(v)]
      BY <3>2
    <3> QED BY <3>1, <3>2, <3>3 DEF Inv, AgentInv, ResolutionOK, PipelineOK
  <2> QED BY <2>1, <2>2
<1>2. ASSUME NEW c \in Cases
      PROVE  RecordOK(cases[c])'
  <2>1. RecordOK(cases'[c])
    BY DEF Inv, AgentInv
  <2> QED BY <2>1 DEF RecordOK, Blank, ProposalMatches, OrderMatches, EscalationMatches
<1> QED BY <1>1, <1>2 DEF AgentInv

(* A record with the agents' fields as they were is as good as it was, in a
   status that says nothing about them.                                     *)
LEMMA SameAgentsOK ==
    ASSUME NEW rec, RecordOK(rec), NEW new, SameAgents(new, rec),
           new.status \in {"processing", "error"}
    PROVE  RecordOK(new)
BY DEF SameAgents, RecordOK, Blank, ProposalMatches, OrderMatches, EscalationMatches

(* What the invariant says of the job on worker w, its record, and the
   fields a running job has.                                                *)
LEMMA AtJob ==
    ASSUME Inv, NEW w \in Workers, worker[w] # None
    PROVE  /\ ResolutionOK(worker[w], cases[CaseOf(w)].ctx) /\ PipelineOK(worker[w])
           /\ CaseOf(w) \in Cases /\ cases[CaseOf(w)] \in CaseRecord
           /\ RecordOK(cases[CaseOf(w)])
           /\ worker[w] = [job |-> worker[w].job, pc |-> worker[w].pc,
                           ctx |-> worker[w].ctx, event |-> worker[w].event]
           /\ worker[w].pc \in {"mark", "agents", "persist"} =>
                  worker[w].ctx \in Context /\ worker[w].ctx # None
<1>1. worker[w] \in Running /\ CaseOf(w) \in Cases
  BY RunningJob DEF Inv
<1>2. worker[w].pc \in {"mark", "agents", "persist"} =>
          worker[w].ctx \in Context /\ worker[w].ctx # None
  BY <1>1, NoneAssumption DEF Running
<1>3. worker[w] = [job |-> worker[w].job, pc |-> worker[w].pc,
                   ctx |-> worker[w].ctx, event |-> worker[w].event]
  BY <1>1 DEF Running
<1> QED BY <1>1, <1>2, <1>3 DEF Inv, AgentInv, TypeOK

LEMMA PipelineInv ==
    ASSUME Inv, NEW w \in Workers,
           PipelineLoad(w) \/ PipelineMark(w) \/ PipelineAgents(w) \/ PipelinePersist(w)
    PROVE  AgentInv'
<1> DEFINE run == worker[w]
           c == CaseOf(w)
           rec == cases[c]
<1>1. run # None /\ run.job.phase = "pipeline"
  BY DEF PipelineLoad, PipelineMark, PipelineAgents, PipelinePersist, On
<1>2. \A v \in Workers : v # w => worker'[v] = worker[v]
  BY DEF PipelineLoad, PipelineMark, PipelineAgents, PipelinePersist, Emit, Inv, TypeOK
<1>3. CASE PipelineLoad(w)
  <2> DEFINE ctx == [basis |-> rec.submission, full |-> FALSE, signoff |-> FALSE]
  <2>1. worker'[w] = [run EXCEPT !.pc = "mark", !.ctx = ctx] /\ cases' = cases
    <3>1. worker' = [worker EXCEPT ![w].pc = "mark", ![w].ctx = ctx] /\ cases' = cases
      BY <1>3 DEF PipelineLoad
    <3> HIDE DEF ctx
    <3> QED BY <1>1, <3>1 DEF Inv, TypeOK
  <2>2. ResolutionOK(worker'[w], rec.ctx) /\ PipelineOK(worker'[w])
           /\ worker'[w].job = run.job
    BY <1>1, <2>1, AtJob DEF ResolutionOK, PipelineOK
  <2> QED BY <1>1, <1>2, <2>1, <2>2, AtJob, JobStepInv
<1>4. CASE PipelineMark(w)
  <2> DEFINE new == [rec EXCEPT !.status = "processing"]
  <2>1. worker'[w] = [run EXCEPT !.pc = "agents"] /\ UpdateCase(c, new)
    BY <1>1, <1>4 DEF PipelineMark, Inv, TypeOK
  <2>2. cases'[c] = new /\ \A d \in Cases : d # c => cases'[d] = cases[d]
    BY <1>1, <2>1, AtJob, UpdateOne
  <2>3. RecordOK(new)
    <3>1. rec \in CaseRecord /\ RecordOK(rec)
      BY <1>1, AtJob
    <3>2. SameAgents(new, rec) /\ new.status = "processing"
      BY <3>1 DEF CaseRecord, SameAgents
    <3> HIDE DEF new
    <3> QED BY <3>1, <3>2, SameAgentsOK
  <2>4. ResolutionOK(worker'[w], new.ctx) /\ PipelineOK(worker'[w])
           /\ worker'[w].job = run.job
    <3>1. ~run.ctx.full /\ ~run.ctx.signoff
      BY <1>1, <1>4, AtJob DEF PipelineMark, On, PipelineOK
    <3> QED BY <1>1, <2>1, <3>1, AtJob DEF ResolutionOK, PipelineOK
  <2> QED BY <1>1, <1>2, <2>2, <2>3, <2>4, JobStepInv
<1>5. CASE PipelineAgents(w)
  <2>1. run.pc = "agents" /\ run.ctx \in Context /\ cases' = cases
    BY <1>1, <1>5, AtJob DEF PipelineAgents, On, Emit
  <2>2. ASSUME NEW ctx \in Context, NEW event, Emit(w, ctx, event),
               IF event = "awaiting_decision" THEN ctx.full
               ELSE ~ctx.full /\ ~ctx.signoff
        PROVE  AgentInv'
    <3>1. worker'[w] = [run EXCEPT !.pc = "persist", !.ctx = ctx, !.event = event]
      BY <1>1, <2>2 DEF Emit, Inv, TypeOK
    <3>2. ResolutionOK(worker'[w], rec.ctx) /\ PipelineOK(worker'[w])
             /\ worker'[w].job = run.job
      BY <1>1, <2>2, <3>1, AtJob DEF ResolutionOK, PipelineOK
    <3> QED BY <1>1, <1>2, <2>1, <3>2, AtJob, JobStepInv
  <2>3. CASE Emit(w, run.ctx, "escalated_terminal")
    BY <1>1, <2>1, <2>2, <2>3, AtJob DEF PipelineOK
  <2>4. ASSUME NEW tier2 \in BOOLEAN,
               Emit(w, [run.ctx EXCEPT !.full = TRUE, !.signoff = tier2],
                    "awaiting_decision")
        PROVE  AgentInv'
    <3> DEFINE ctx == [run.ctx EXCEPT !.full = TRUE, !.signoff = tier2]
    <3>1. ctx \in Context /\ ctx.full
      BY <2>1 DEF Context
    <3> QED BY <2>2, <2>4, <3>1
  <2> QED BY <1>5, <2>3, <2>4, ZenonT(60) DEF PipelineAgents
<1>6. CASE PipelinePersist(w)
  <2> DEFINE ctx == run.ctx
             proposed == [rec EXCEPT !.status = "mediation_proposed", !.ctx = ctx,
                                     !.mediation = [basis |-> ctx.basis]]
             refused == [rec EXCEPT !.status = "escalated", !.ctx = ctx,
                                    !.escalation = "pre_filter"]
             new == IF run.event = "awaiting_decision" THEN proposed ELSE refused
  <2>1. run.pc = "persist" /\ ctx \in Context /\ ctx # None
    BY <1>1, <1>6, AtJob DEF PipelinePersist, On
  <2>2. worker'[w] = [run EXCEPT !.pc = "release"] /\ UpdateCase(c, new)
    BY <1>1, <1>6 DEF PipelinePersist, Inv, TypeOK
  <2>3. cases'[c] = new /\ \A d \in Cases : d # c => cases'[d] = cases[d]
    <3> HIDE DEF new
    <3> QED BY <1>1, <2>2, AtJob, UpdateOne
  <2>4. RecordOK(new)
    <3>1. CASE run.event = "awaiting_decision"
      <4>1. [basis |-> ctx.basis] # None
        BY <2>1, NoneAssumption DEF Context, Proposal
      <4> QED BY <1>1, <3>1, <4>1, AtJob
              DEF CaseRecord, RecordOK, Blank, ProposalMatches, OrderMatches,
                  EscalationMatches
    <3>2. CASE run.event # "awaiting_decision"
      <4>1. ~ctx.full
        BY <1>1, <2>1, <3>2, AtJob DEF PipelineOK
      <4>2. "pre_filter" # None
        BY NoneAssumption DEF Checkpoint
      <4> QED BY <1>1, <2>1, <3>2, <4>1, <4>2, AtJob
              DEF CaseRecord, RecordOK, Blank, ProposalMatches, OrderMatches,
                  EscalationMatches
    <3> QED BY <3>1, <3>2
  <2>5. ResolutionOK(worker'[w], new.ctx) /\ PipelineOK(worker'[w])
           /\ worker'[w].job = run.job
    BY <1>1, <2>2, AtJob DEF ResolutionOK, PipelineOK
  <2> HIDE DEF new
  <2> QED BY <1>1, <1>2, <2>3, <2>4, <2>5, JobStepInv
<1> QED BY <1>3, <1>4, <1>5, <1>6

LEMMA ResolutionInv ==
    ASSUME Inv, NEW w \in Workers,
           ResolutionLoad(w) \/ ResolutionAgents(w) \/ ResolutionPersist(w)
    PROVE  AgentInv'
<1> DEFINE run == worker[w]
           c == CaseOf(w)
           rec == cases[c]
<1>1. run # None /\ run.job.phase = "resolution"
  BY DEF ResolutionLoad, ResolutionAgents, ResolutionPersist, On
<1>2. \A v \in Workers : v # w => worker'[v] = worker[v]
  BY DEF ResolutionLoad, ResolutionAgents, ResolutionPersist, Emit, Inv, TypeOK
<1>3. CASE ResolutionLoad(w)
  <2> DEFINE pc == IF rec.ctx = None THEN "release" ELSE "agents"
  <2>1. worker'[w] = [run EXCEPT !.pc = pc, !.ctx = rec.ctx] /\ cases' = cases
    BY <1>1, <1>3 DEF ResolutionLoad, Inv, TypeOK
  <2>2. pc # "persist"
    OBVIOUS
  <2> HIDE DEF pc
  <2>3. ResolutionOK(worker'[w], rec.ctx) /\ PipelineOK(worker'[w])
           /\ worker'[w].job = run.job
    BY <1>1, <2>1, <2>2, AtJob DEF ResolutionOK, PipelineOK
  <2> QED BY <1>1, <1>2, <2>1, <2>3, AtJob, JobStepInv
<1>4. CASE ResolutionAgents(w)
  <2>1. run.pc = "agents" /\ run.ctx = rec.ctx /\ cases' = cases
    BY <1>1, <1>4, AtJob DEF ResolutionAgents, On, Emit, ResolutionOK
  <2>2. ASSUME NEW event, Emit(w, run.ctx, event),
               event = "resolved" => run.ctx.full
        PROVE  AgentInv'
    <3>1. worker'[w] = [run EXCEPT !.pc = "persist", !.ctx = run.ctx, !.event = event]
      BY <1>1, <2>2 DEF Emit, Inv, TypeOK
    <3>2. ResolutionOK(worker'[w], rec.ctx) /\ PipelineOK(worker'[w])
             /\ worker'[w].job = run.job
      BY <1>1, <2>1, <2>2, <3>1, AtJob DEF ResolutionOK, PipelineOK
    <3> QED BY <1>1, <1>2, <2>1, <3>2, AtJob, JobStepInv
  <2> QED BY <1>4, <2>2, SMTT(60) DEF ResolutionAgents
<1>5. CASE ResolutionPersist(w)
  <2> DEFINE ctx == run.ctx
             via == run.job.via
             order == [basis |-> ctx.basis, via |-> via, signoff |-> ctx.signoff]
             resolved == [rec EXCEPT !.status = "resolved", !.ctx = ctx,
                                     !.accepted = via, !.resolution = order]
             stopped == [rec EXCEPT !.status = "escalated", !.ctx = ctx,
                                    !.accepted = via, !.escalation = "post_check"]
             new == IF run.event = "resolved" THEN resolved ELSE stopped
  <2>1. run.pc = "persist" /\ ctx \in Context /\ ctx # None /\ ctx = rec.ctx
    BY <1>1, <1>5, AtJob DEF ResolutionPersist, On, ResolutionOK
  <2>2. worker'[w] = [run EXCEPT !.pc = "release"] /\ UpdateCase(c, new)
    BY <1>1, <1>5 DEF ResolutionPersist, Inv, TypeOK
  <2>3. cases'[c] = new /\ \A d \in Cases : d # c => cases'[d] = cases[d]
    <3> HIDE DEF new
    <3> QED BY <1>1, <2>2, AtJob, UpdateOne
  <2>4. RecordOK(new)
    <3>1. CASE run.event = "resolved"
      <4>1. ctx.full
        BY <1>1, <2>1, <3>1, AtJob DEF ResolutionOK
      <4>2. rec.mediation # None /\ rec.mediation.basis = ctx.basis
        BY <1>1, <2>1, <4>1, AtJob DEF RecordOK, ProposalMatches
      <4>3. via \in BOOLEAN
        BY <1>1, RunningJob DEF Inv, Job
      <4>4. order \in Order /\ order # None
        BY <2>1, <4>3, NoneAssumption DEF Context, Order
      <4>5. /\ resolved.status = "resolved" /\ resolved.ctx = ctx
            /\ resolved.mediation = rec.mediation /\ resolved.accepted = via
            /\ resolved.resolution = order
        BY <1>1, AtJob DEF CaseRecord
      <4> HIDE DEF resolved
      <4> QED BY <2>1, <3>1, <4>2, <4>4, <4>5
              DEF RecordOK, Blank, ProposalMatches, OrderMatches, EscalationMatches
    <3>2. CASE run.event # "resolved"
      <4>1. "post_check" # None
        BY NoneAssumption DEF Checkpoint
      <4>2. /\ stopped.status = "escalated" /\ stopped.ctx = ctx
            /\ stopped.mediation = rec.mediation /\ stopped.escalation = "post_check"
        BY <1>1, AtJob DEF CaseRecord
      <4>3. ctx.full => rec.mediation # None /\ rec.mediation.basis = ctx.basis
        BY <1>1, <2>1, AtJob DEF RecordOK, ProposalMatches
      <4> HIDE DEF stopped
      <4> QED BY <2>1, <3>2, <4>1, <4>2, <4>3
              DEF RecordOK, Blank, ProposalMatches, OrderMatches, EscalationMatches
    <3> QED BY <3>1, <3>2
  <2>5. ResolutionOK(worker'[w], new.ctx) /\ PipelineOK(worker'[w])
           /\ worker'[w].job = run.job
    BY <1>1, <2>2, AtJob DEF ResolutionOK, PipelineOK
  <2> HIDE DEF new
  <2> QED BY <1>1, <1>2, <2>3, <2>4, <2>5, JobStepInv
<1> QED BY <1>3, <1>4, <1>5

(* Taking a job, failing, reporting the failure and giving the claim back. *)
LEMMA OtherJobInv ==
    ASSUME Inv, NEW w \in Workers,
           Dequeue(w) \/ RecordError(w) \/ Release(w) \/ Fault(w)
    PROVE  AgentInv'
<1> DEFINE run == worker[w]
           c == CaseOf(w)
           rec == cases[c]
<1>1. \A v \in Workers : v # w => worker'[v] = worker[v]
  BY DEF Dequeue, RecordError, Release, Fault, Raise, HandlerRaises, Inv, TypeOK
<1>2. CASE Dequeue(w)
  <2> DEFINE new == [job |-> Head(queue), pc |-> "load", ctx |-> None, event |-> None]
  <2>1. worker'[w] = new /\ cases' = cases
    BY <1>2 DEF Dequeue, Inv, TypeOK
  <2>2. ResolutionOK(new, rec.ctx) /\ PipelineOK(new)
    BY DEF ResolutionOK, PipelineOK
  <2>3. ASSUME NEW v \in Workers, worker'[v] # None
        PROVE  (ResolutionOK(worker[v], cases[CaseOf(v)].ctx) /\ PipelineOK(worker[v]))'
    <3>1. CASE v = w
      BY <2>1, <3>1 DEF ResolutionOK, PipelineOK
    <3>2. CASE v # w
      BY <1>1, <2>1, <2>3, <3>2
         DEF Inv, AgentInv, ResolutionOK, PipelineOK, CaseOf
    <3> QED BY <3>1, <3>2
  <2>4. ASSUME NEW d \in Cases
        PROVE  RecordOK(cases[d])'
    BY <2>1 DEF Inv, AgentInv, RecordOK, Blank, ProposalMatches, OrderMatches,
                EscalationMatches
  <2> QED BY <2>3, <2>4 DEF AgentInv
<1>3. CASE RecordError(w)
  <2> DEFINE new == [rec EXCEPT !.status = "error"]
  <2>1. run # None /\ worker'[w] = [run EXCEPT !.pc = "release"] /\ UpdateCase(c, new)
    BY <1>3 DEF RecordError, Inv, TypeOK
  <2>2. cases'[c] = new /\ \A d \in Cases : d # c => cases'[d] = cases[d]
    BY <2>1, AtJob, UpdateOne
  <2>3. RecordOK(new)
    <3>1. rec \in CaseRecord /\ RecordOK(rec)
      BY <2>1, AtJob
    <3>2. SameAgents(new, rec) /\ new.status = "error"
      BY <3>1 DEF CaseRecord, SameAgents
    <3> HIDE DEF new
    <3> QED BY <3>1, <3>2, SameAgentsOK
  <2>4. ResolutionOK(worker'[w], new.ctx) /\ PipelineOK(worker'[w])
           /\ worker'[w].job = run.job
    BY <2>1, AtJob DEF ResolutionOK, PipelineOK
  <2> QED BY <1>1, <2>1, <2>2, <2>3, <2>4, JobStepInv, ZenonT(60)
<1>4. CASE Release(w)
  <2>1. run # None /\ worker'[w] = None /\ cases' = cases
    BY <1>4 DEF Release, Inv, TypeOK
  <2> QED BY <1>1, <2>1, AtJob, JobStepInv
<1>5. CASE Fault(w)
  <2> DEFINE pc == worker'[w].pc
  <2>1. run # None /\ cases' = cases
    BY <1>5 DEF Fault, Raise, HandlerRaises
  <2>2. /\ worker'[w].job = run.job
        /\ worker'[w].pc \in {"fail", "release"}
    BY <1>5, <2>1, AtJob DEF Fault, Raise, HandlerRaises, Inv, TypeOK
  <2>3. ResolutionOK(worker'[w], rec.ctx) /\ PipelineOK(worker'[w])
    BY <2>2 DEF ResolutionOK, PipelineOK
  <2> QED BY <1>1, <2>1, <2>2, <2>3, AtJob, JobStepInv
<1> QED BY <1>2, <1>3, <1>4, <1>5

LEMMA NextInv == Inv /\ [Next]_vars => Inv'
<1> SUFFICES ASSUME Inv, [Next]_vars
             PROVE  Inv'
  OBVIOUS
<1>1. TypeOK'
  BY BeginType, CompleteType, PartyType, WorkType, FaultType, CrashType
     DEF Inv, Next, TypeOK, vars
<1>2. ClaimInv'
  BY NextClaims DEF Inv
<1>3. ASSUME UNCHANGED <<cases, worker>>
      PROVE  AgentInv'
  <2>1. SameOutcomes
    BY <1>3 DEF SameOutcomes
  <2> QED BY <1>3, <2>1, SameOutcomesInv
<1>4. ASSUME UNCHANGED vars
      PROVE  AgentInv'
  BY <1>3, <1>4 DEF vars
<1>5. ASSUME NEW r \in Requests, NEW c \in Cases, Begin(r, c)
      PROVE  AgentInv'
  BY <1>3, <1>5 DEF Begin, Check, SubmitCheck, RequestReviewCheck, RunCheck,
                    MediationCheck, DecideCheck
<1>6. ASSUME NEW r \in Requests, Complete(r)
      PROVE  AgentInv'
  BY <1>6, HandlerOutcomes, SameOutcomesInv
<1>7. ASSUME NEW c \in Cases, Party(c)
      PROVE  AgentInv'
  BY <1>7, PartyOutcomes, SameOutcomesInv
<1>8. ASSUME NEW w \in Workers, Work(w) \/ Fault(w)
      PROVE  AgentInv'
  BY <1>8, PipelineInv, ResolutionInv, OtherJobInv DEF Work
<1>9. ASSUME Crash
      PROVE  AgentInv'
  BY <1>9 DEF Crash, Inv, AgentInv, RecordOK, Blank, ProposalMatches, OrderMatches,
              EscalationMatches
<1> QED BY <1>1, <1>2, <1>4, <1>5, <1>6, <1>7, <1>8, <1>9 DEF Inv, Next

LEMMA InvCorrect == Spec => []Inv
<1>1. Init => TypeOK
  BY BoundAssumption DEF Init, TypeOK, NoCase, CaseRecord, Status, Input
<1>2. Init => ClaimInv /\ AgentInv
  BY DEF Init, ClaimInv, QueuedIsClaimed, RunningIsClaimed, QueuedOnce, RunningOnce,
         NotQueuedAndRunning, ClaimIsHeld, AgentInv, NoCase, RecordOK, Blank,
         ProposalMatches, OrderMatches, EscalationMatches
<1>3. Init => Inv
  BY <1>1, <1>2 DEF Inv
<1> QED BY <1>3, NextInv, PTL DEF Spec

-----------------------------------------------------------------------------
(* Theorems. *)

(* The order on record rests on the input of the proposal the parties decided
   on (jobs._run_resolution), for any number of cases, parties that answer
   again meanwhile, triggers, failures and restarts.                        *)
THEOREM OrderCorrect == Spec => []OrderRestsOnProposal
<1>1. Inv => OrderRestsOnProposal
  BY DEF Inv, AgentInv, RecordOK, OrderMatches, OrderRestsOnProposal
<1> QED BY <1>1, InvCorrect, PTL

(* An escalated case names the checkpoint that stopped it, and the pre-filter
   only over a blackboard no agent filled in (jobs._run_pipeline).          *)
THEOREM EscalationCorrect == Spec => []EscalationIsExplained
<1>1. Inv => EscalationIsExplained
  BY DEF Inv, AgentInv, RecordOK, EscalationMatches, EscalationIsExplained
<1> QED BY <1>1, InvCorrect, PTL

-----------------------------------------------------------------------------
(* Who writes what the agents produce. *)

SameResults(c) ==
    /\ cases'[c].ctx = cases[c].ctx
    /\ cases'[c].mediation = cases[c].mediation
    /\ cases'[c].resolution = cases[c].resolution
    /\ cases'[c].escalation = cases[c].escalation

(* A job's step that is not a persist leaves every case's results alone. *)
LEMMA JobResults ==
    ASSUME Inv, NEW w \in Workers, Work(w) \/ Fault(w)
    PROVE  \/ PipelinePersist(w)
           \/ ResolutionPersist(w)
           \/ \A c \in Cases : SameResults(c)
<1> SUFFICES ASSUME ~PipelinePersist(w), ~ResolutionPersist(w)
             PROVE  \A c \in Cases : SameResults(c)
  OBVIOUS
<1>1. CASE UNCHANGED cases
  BY <1>1, SMTT(60) DEF SameResults
<1>2. CASE Fault(w) \/ Dequeue(w) \/ PipelineLoad(w) \/ PipelineAgents(w)
             \/ ResolutionLoad(w) \/ ResolutionAgents(w) \/ Release(w)
  BY <1>1, <1>2 DEF Fault, Raise, HandlerRaises, Dequeue, PipelineLoad,
                    PipelineAgents, Emit, ResolutionLoad, ResolutionAgents, Release
<1>3. ASSUME NEW status, worker[w] # None,
             UpdateCase(CaseOf(w), [cases[CaseOf(w)] EXCEPT !.status = status])
      PROVE  \A c \in Cases : SameResults(c)
  <2> DEFINE new == [cases[CaseOf(w)] EXCEPT !.status = status]
  <2>1. cases'[CaseOf(w)] = new /\ \A d \in Cases : d # CaseOf(w) => cases'[d] = cases[d]
    BY <1>3, AtJob, UpdateOne
  <2>2. SameAgents(new, cases[CaseOf(w)])
    BY <1>3, AtJob DEF CaseRecord, SameAgents
  <2> QED BY <2>1, <2>2 DEF SameAgents, SameResults
<1>4. CASE PipelineMark(w)
  BY <1>3, <1>4 DEF PipelineMark, On
<1>5. CASE RecordError(w)
  BY <1>3, <1>5 DEF RecordError
<1> QED BY <1>2, <1>4, <1>5 DEF Work

(* The two callbacks that write results, each for its own case. *)
LEMMA PersistResults ==
    ASSUME Inv, NEW w \in Workers, PipelinePersist(w) \/ ResolutionPersist(w)
    PROVE  /\ worker[w] # None /\ CaseOf(w) \in Cases
           /\ claim[CaseOf(w)] = worker[w].job.phase
           /\ \A d \in Cases : d # CaseOf(w) => cases'[d] = cases[d]
           /\ PipelinePersist(w) =>
                  cases'[CaseOf(w)].resolution = cases[CaseOf(w)].resolution
<1> DEFINE c == CaseOf(w)
           rec == cases[c]
<1>1. worker[w] # None
  BY DEF PipelinePersist, ResolutionPersist, On
<1>2. c \in Cases /\ rec \in CaseRecord /\ claim[c] = worker[w].job.phase
  BY <1>1, AtJob DEF Inv, ClaimInv, RunningIsClaimed
<1>3. \A d \in Cases : d # c => cases'[d] = cases[d]
  BY <1>2 DEF PipelinePersist, ResolutionPersist, UpdateCase, Inv, TypeOK
<1>4. ASSUME PipelinePersist(w)
      PROVE  cases'[c].resolution = rec.resolution
  <2> DEFINE ctx == worker[w].ctx
             proposed == [rec EXCEPT !.status = "mediation_proposed", !.ctx = ctx,
                                     !.mediation = [basis |-> ctx.basis]]
             refused == [rec EXCEPT !.status = "escalated", !.ctx = ctx,
                                    !.escalation = "pre_filter"]
  <2>1. UpdateCase(c, proposed) \/ UpdateCase(c, refused)
    BY <1>4 DEF PipelinePersist
  <2>2. cases'[c] = proposed \/ cases'[c] = refused
    BY <1>2, <2>1, UpdateOne
  <2>3. proposed.resolution = rec.resolution /\ refused.resolution = rec.resolution
    BY <1>2 DEF CaseRecord
  <2> QED BY <2>2, <2>3
<1> QED BY <1>1, <1>2, <1>3, <1>4

(* Steps of anyone but a job. *)
LEMMA OtherResults ==
    ASSUME Inv, [Next]_vars, \A w \in Workers : ~Work(w) /\ ~Fault(w)
    PROVE  \A c \in Cases : SameResults(c)
<1>1. CASE UNCHANGED cases
  BY <1>1 DEF SameResults
<1>2. CASE SameOutcomes
  BY <1>2 DEF SameOutcomes, SameResults
<1>3. ASSUME NEW r \in Requests, NEW c \in Cases, Begin(r, c)
      PROVE  UNCHANGED cases
  BY <1>3 DEF Begin, Check, SubmitCheck, RequestReviewCheck, RunCheck,
              MediationCheck, DecideCheck
<1>4. CASE Crash \/ UNCHANGED vars
  BY <1>1, <1>4 DEF Crash, vars
<1> QED BY <1>1, <1>2, <1>3, <1>4, HandlerOutcomes, PartyOutcomes DEF Next

(* Blackboard, proposal and order change under the case's claim only, an
   order only under a resolution's (jobs._claim holds from the trigger to the
   finally clause).                                                         *)
THEOREM WritesAreClaimed == Spec => AgentsWriteUnderClaim
<1>1. ASSUME Inv, [Next]_vars, NEW c \in Cases
      PROVE  /\ cases'[c].ctx # cases[c].ctx \/ cases'[c].mediation # cases[c].mediation
                 => claim[c] # None
             /\ cases'[c].resolution # cases[c].resolution => claim[c] = "resolution"
  <2>1. CASE SameResults(c)
    BY <2>1 DEF SameResults
  <2>2. ASSUME NEW w \in Workers, PipelinePersist(w) \/ ResolutionPersist(w),
               ~SameResults(c)
        PROVE  /\ claim[c] # None
               /\ cases'[c].resolution # cases[c].resolution => claim[c] = "resolution"
    <3>1. c = CaseOf(w)
      BY <1>1, <2>2, PersistResults DEF SameResults
    <3>2. claim[c] = worker[w].job.phase /\ claim[c] \in Phase /\ claim[c] # None
      BY <1>1, <2>2, <3>1, PersistResults, RunningJob, NoneAssumption DEF Inv
    <3>3. ResolutionPersist(w) => claim[c] = "resolution"
      BY <3>2 DEF ResolutionPersist, On
    <3> QED BY <1>1, <2>2, <3>1, <3>2, <3>3, PersistResults
  <2> QED BY <1>1, <2>1, <2>2, JobResults, OtherResults
<1>2. Inv /\ [Next]_vars =>
        [\A c \in Cases :
          /\ cases'[c].ctx # cases[c].ctx \/ cases'[c].mediation # cases[c].mediation
             => claim[c] # None
          /\ cases'[c].resolution # cases[c].resolution => claim[c] = "resolution"
        ]_vars
  BY <1>1
<1> QED BY <1>2, InvCorrect, PTL DEF Spec, AgentsWriteUnderClaim

-----------------------------------------------------------------------------
(* The jobs implement AgentRuns.  Activities are read off the queue and the
   workers; because claims are exact they are what the registry holds.      *)

Active == [c \in Cases |-> Activity(c)]
Outcomes == [c \in Cases |-> Outcome(c)]

LEMMA ActiveIsClaim == Inv => Active = claim
<1> SUFFICES ASSUME Inv, NEW c \in Cases
             PROVE  Activity(c) = claim[c]
  BY DEF Active, Inv, TypeOK
<1>1. ClaimIsExact
  BY ClaimInvExact DEF Inv
<1>2. CASE JobsOf(c) = {}
  BY <1>1, <1>2 DEF ClaimIsExact, Activity
<1>3. CASE JobsOf(c) # {}
  <2>1. (CHOOSE j \in JobsOf(c) : TRUE) \in JobsOf(c)
    BY <1>3
  <2> QED BY <1>1, <1>3, <2>1 DEF ClaimIsExact, Activity
<1> QED BY <1>2, <1>3

LEMMA SameOutcome ==
    ASSUME \A c \in Cases : SameResults(c)
    PROVE  Outcomes' = Outcomes
BY DEF SameResults, Outcomes, Outcome

(* Claiming a case starts a phase of it. *)
LEMMA StartJobRuns ==
    ASSUME NEW c \in Cases, NEW phase \in Phase, NEW via, StartJob(c, phase, via),
           Active = claim, Active' = claim', Outcomes' = Outcomes
    PROVE  Runs!Start(c, phase) \/ UNCHANGED <<Active, Outcomes>>
BY SMTT(60) DEF StartJob, Runs!Start, Active, Outcomes

(* Writing a proposal, an order or an escalation is a step of the phase. *)
LEMMA PersistRuns ==
    ASSUME Inv, NEW w \in Workers, PipelinePersist(w) \/ ResolutionPersist(w),
           Active = claim, Active' = claim'
    PROVE  Runs!Next
<1> DEFINE run == worker[w]
           c == CaseOf(w)
           rec == cases[c]
           ctx == run.ctx
<1>1. /\ c \in Cases /\ rec \in CaseRecord /\ ctx \in Context /\ ctx # None
      /\ run.pc = "persist" /\ run # None
  BY PersistResults, AtJob, ZenonT(60) DEF PipelinePersist, ResolutionPersist, On
<1>2. Active[c] = run.job.phase /\ Active' = Active
  BY PersistResults DEF PipelinePersist, ResolutionPersist
<1>3. \A d \in Cases : d # c => cases'[d] = cases[d]
  BY PersistResults
<1>4. ctx.basis \in Input /\ ctx.full \in BOOLEAN /\ ctx.signoff \in BOOLEAN
         /\ ctx = [basis |-> ctx.basis, full |-> ctx.full, signoff |-> ctx.signoff]
  BY <1>1 DEF Context
<1>5. CASE PipelinePersist(w) /\ run.event = "awaiting_decision"
  <2>1. Active[c] = "pipeline" /\ ctx.full
    BY <1>1, <1>2, <1>5, AtJob DEF PipelinePersist, On, PipelineOK
  <2>2. /\ cases'[c].ctx = ctx
        /\ cases'[c].mediation = [basis |-> ctx.basis]
        /\ cases'[c].resolution = rec.resolution
        /\ cases'[c].escalation = rec.escalation
    <3> DEFINE new == [rec EXCEPT !.status = "mediation_proposed", !.ctx = ctx,
                                  !.mediation = [basis |-> ctx.basis]]
    <3>1. UpdateCase(c, new)
      BY <1>5 DEF PipelinePersist
    <3>2. cases'[c] = new
      BY <1>1, <3>1, UpdateOne
    <3> QED BY <1>1, <3>2 DEF CaseRecord
  <2>3. Outcomes' = [Outcomes EXCEPT
            ![c].ctx = [basis |-> ctx.basis, full |-> TRUE, signoff |-> ctx.signoff],
            ![c].mediation = [basis |-> ctx.basis]]
    BY <1>1, <1>3, <1>4, <2>1, <2>2, ZenonT(60) DEF Outcomes, Outcome
  <2>4. Runs!Propose(c, ctx.basis, ctx.signoff)
    BY <1>2, <2>1, <2>3 DEF Runs!Propose, Active, Outcomes
  <2> QED BY <1>1, <1>4, <2>4 DEF Runs!Next, Runs!Basis, Input
<1>6. CASE PipelinePersist(w) /\ run.event # "awaiting_decision"
  <2>1. Active[c] = "pipeline" /\ ~ctx.full /\ ~ctx.signoff
    BY <1>1, <1>2, <1>6, AtJob DEF PipelinePersist, On, PipelineOK
  <2>2. /\ cases'[c].ctx = ctx
        /\ cases'[c].mediation = rec.mediation
        /\ cases'[c].resolution = rec.resolution
        /\ cases'[c].escalation = "pre_filter"
    <3> DEFINE new == [rec EXCEPT !.status = "escalated", !.ctx = ctx,
                                  !.escalation = "pre_filter"]
    <3>1. UpdateCase(c, new)
      BY <1>6 DEF PipelinePersist
    <3>2. cases'[c] = new
      BY <1>1, <3>1, UpdateOne
    <3> QED BY <1>1, <3>2 DEF CaseRecord
  <2>3. Outcomes' = [Outcomes EXCEPT
            ![c].ctx = [basis |-> ctx.basis, full |-> FALSE, signoff |-> FALSE],
            ![c].escalation = "pre_filter"]
    BY <1>1, <1>3, <1>4, <2>1, <2>2, ZenonT(60) DEF Outcomes, Outcome
  <2>4. Runs!Refuse(c, ctx.basis)
    BY <1>2, <2>1, <2>3 DEF Runs!Refuse, Active, Outcomes
  <2> QED BY <1>1, <1>4, <2>4 DEF Runs!Next, Runs!Basis, Input
<1>7. CASE ResolutionPersist(w)
  <2> DEFINE via == run.job.via
             order == [basis |-> ctx.basis, via |-> via, signoff |-> ctx.signoff]
  <2>1. /\ Active[c] = "resolution" /\ ctx = rec.ctx /\ via \in BOOLEAN
        /\ run.event = "resolved" => ctx.full
    BY <1>1, <1>2, <1>7, AtJob, RunningJob
       DEF ResolutionPersist, On, ResolutionOK, Inv, Job
  <2>2. Outcomes[c].ctx = ctx
    BY <1>1, <2>1 DEF Outcomes, Outcome
  <2>3. CASE run.event = "resolved"
    <3>1. /\ cases'[c].ctx = ctx
          /\ cases'[c].mediation = rec.mediation
          /\ cases'[c].resolution = order
          /\ cases'[c].escalation = rec.escalation
      <4> DEFINE new == [rec EXCEPT !.status = "resolved", !.ctx = ctx,
                                      !.accepted = via, !.resolution = order]
      <4>1. UpdateCase(c, new)
        BY <1>7, <2>3 DEF ResolutionPersist
      <4>2. cases'[c] = new
        BY <1>1, <4>1, UpdateOne
      <4> QED BY <1>1, <4>2 DEF CaseRecord
    <3>2. Outcomes' = [Outcomes EXCEPT ![c].resolution = order]
      BY <1>1, <1>3, <2>1, <3>1, ZenonT(60) DEF Outcomes, Outcome
    <3>3. Runs!Resolve(c, via)
      BY <1>1, <1>2, <2>1, <2>2, <2>3, <3>2 DEF Runs!Resolve, Active, Outcomes
    <3> QED BY <1>1, <2>1, <3>3 DEF Runs!Next
  <2>4. CASE run.event # "resolved"
    <3>1. /\ cases'[c].ctx = ctx
          /\ cases'[c].mediation = rec.mediation
          /\ cases'[c].resolution = rec.resolution
          /\ cases'[c].escalation = "post_check"
      <4> DEFINE new == [rec EXCEPT !.status = "escalated", !.ctx = ctx,
                                      !.accepted = via, !.escalation = "post_check"]
      <4>1. UpdateCase(c, new)
        BY <1>7, <2>4 DEF ResolutionPersist
      <4>2. cases'[c] = new
        BY <1>1, <4>1, UpdateOne
      <4> QED BY <1>1, <4>2 DEF CaseRecord
    <3>2. Outcomes' = [Outcomes EXCEPT ![c].escalation = "post_check"]
      BY <1>1, <1>3, <2>1, <3>1, ZenonT(60) DEF Outcomes, Outcome
    <3>3. Runs!Escalate(c)
      BY <1>1, <1>2, <2>1, <2>2, <3>2 DEF Runs!Escalate, Active, Outcomes
    <3> QED BY <1>1, <3>3 DEF Runs!Next
  <2> QED BY <2>3, <2>4
<1> QED BY <1>5, <1>6, <1>7

LEMMA StepRuns ==
    ASSUME Inv, Active = claim, Active' = claim', [Next]_vars
    PROVE  Runs!Next \/ UNCHANGED <<Active, Outcomes>>
<1>1. CASE UNCHANGED claim /\ \A c \in Cases : SameResults(c)
  BY <1>1, SameOutcome
<1>2. ASSUME NEW r \in Requests, NEW c \in Cases, Begin(r, c)
      PROVE  UNCHANGED <<claim, cases>>
  BY <1>2 DEF Begin, Check, SubmitCheck, RequestReviewCheck, RunCheck,
              MediationCheck, DecideCheck
<1>3. ASSUME NEW r \in Requests, Complete(r)
      PROVE  Runs!Next \/ UNCHANGED <<Active, Outcomes>>
  <2>1. \A c \in Cases : SameResults(c)
    BY <1>3, HandlerOutcomes DEF SameOutcomes, SameResults
  <2>2. ASSUME NEW c \in Cases, NEW phase \in Phase, NEW via, StartJob(c, phase, via)
        PROVE  Runs!Next \/ UNCHANGED <<Active, Outcomes>>
    BY <2>1, <2>2, SameOutcome, StartJobRuns DEF Runs!Next, Phase
  <2>3. request[r] # None => request[r].case \in Cases
    BY DEF Inv, TypeOK, Pending
  <2>4. CASE RunStart(r) \/ MediationStart(r)
    BY <2>2, <2>3, <2>4 DEF RunStart, MediationStart, At, Phase
  <2>5. CASE SubmitWrite(r) \/ SubmitAudit(r) \/ RequestReviewWrite(r)
               \/ MediationWrite(r) \/ DecideWrite(r)
    BY <1>1, <2>1, <2>5 DEF SubmitWrite, SubmitAudit, RequestReviewWrite,
                            MediationWrite, DecideWrite
  <2> QED BY <1>3, <2>4, <2>5 DEF Complete
<1>4. ASSUME NEW c \in Cases, Party(c)
      PROVE  UNCHANGED claim /\ \A d \in Cases : SameResults(d)
  BY <1>4, PartyOutcomes DEF SameOutcomes, SameResults
<1>5. ASSUME NEW w \in Workers, Work(w) \/ Fault(w)
      PROVE  Runs!Next \/ UNCHANGED <<Active, Outcomes>>
  <2>1. CASE PipelinePersist(w) \/ ResolutionPersist(w)
    BY <2>1, PersistRuns
  <2>2. CASE ~PipelinePersist(w) /\ ~ResolutionPersist(w)
    <3>1. Outcomes' = Outcomes
      BY <1>5, <2>2, JobResults, SameOutcome
    <3>2. CASE Release(w)
      <4>1. CaseOf(w) \in Cases /\ claim[CaseOf(w)] # None
        BY <3>2, RunningJob, NoneAssumption DEF Release, Inv, ClaimInv, RunningIsClaimed
      <4>2. Runs!Stop(CaseOf(w))
        BY <3>1, <3>2, <4>1 DEF Release, Runs!Stop, Active, Outcomes
      <4> QED BY <4>1, <4>2 DEF Runs!Next
    <3>3. CASE ~Release(w)
      <4>1. UNCHANGED claim
        BY <1>5, <3>3, WorkStep, FaultStep DEF Inv, Dequeue, SameJobs
      <4> QED BY <3>1, <4>1
    <3> QED BY <3>2, <3>3
  <2> QED BY <2>1, <2>2
<1>6. CASE Crash
  <2>1. \A c \in Cases : SameResults(c)
    BY <1>6 DEF Crash, SameResults
  <2>2. Runs!Restart
    BY <1>6, <2>1, SameOutcome DEF Crash, Runs!Restart, Active, Outcomes
  <2> QED BY <2>2 DEF Runs!Next
<1>7. CASE UNCHANGED vars
  BY <1>1, <1>7 DEF vars, SameResults
<1>8. CASE UNCHANGED <<claim, cases>>
  BY <1>1, <1>8 DEF SameResults
<1> QED BY <1>1, <1>2, <1>3, <1>4, <1>5, <1>6, <1>7, <1>8 DEF Next

(* Handlers and jobs together implement AgentRuns: whatever races, fails or
   restarts, one phase at a time works on a case and an order repeats the
   blackboard that was on record when it was written.                       *)
THEOREM AgentRunsImplemented == Spec => ImplementsAgentRuns
<1>1. Init => Runs!Init
  BY DEF Init, Runs!Init, Runs!Nothing, Activity, JobsOf, Outcome, NoCase
<1>2. Inv /\ Inv' /\ [Next]_vars => [Runs!Next]_(Runs!runs)
  <2>1. (Inv => Active = claim)'
    BY ActiveIsClaim, PTL
  <2> QED BY <2>1, ActiveIsClaim, StepRuns DEF Runs!runs, Active, Outcomes
<1> QED BY <1>1, <1>2, InvCorrect, PTL DEF Spec, ImplementsAgentRuns, Runs!Spec
=============================================================================
