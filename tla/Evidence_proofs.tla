--------------------------- MODULE Evidence_proofs ---------------------------
(* Theorems about Evidence, for every value of its constants. *)
EXTENDS Evidence, SequenceTheorems, FiniteSetTheorems, TLAPS

DocPc == {"begin", "extract", "complete", "failed", "count", "trigger", "fail", "release"}

CheckPc == {"read", "report", "release"}

-----------------------------------------------------------------------------
(* What a step of a worker, of an upload and of the queue does. *)

LEMMA RunningJob ==
    ASSUME TypeOK, NEW w \in Workers, worker[w] # None
    PROVE  /\ worker[w] \in Running
           /\ worker[w].job \in Jobs
           /\ \/ worker[w].job \in Docs /\ worker[w].pc \in DocPc /\ worker[w].read = {}
              \/ worker[w].job = "check" /\ worker[w].pc \in CheckPc /\ worker[w].read \in SUBSET Docs
           /\ worker[w] = [job |-> worker[w].job, pc |-> worker[w].pc, read |-> worker[w].read]
<1>1. worker[w] \in Running
  BY DEF TypeOK
<1> QED BY <1>1 DEF Running, Jobs, DocPc, CheckPc

LEMMA QueuedJob ==
    ASSUME TypeOK, NEW i \in DOMAIN queue
    PROVE  queue[i] \in Jobs
BY LenProperties, ElementOfSeq DEF TypeOK

LEMMA NextPc ==
    ASSUME NEW r \in Running, NEW pc,
           \/ r.job \in Docs /\ pc \in DocPc
           \/ r.job = "check" /\ pc \in CheckPc
    PROVE  /\ [r EXCEPT !.pc = pc] \in Running
           /\ [r EXCEPT !.pc = pc].job = r.job
           /\ [r EXCEPT !.pc = pc].pc = pc
<1>1. CASE r \in [job : Docs, pc : DocPc, read : {{}}]
  BY <1>1, CheckAssumption DEF Running, DocPc, CheckPc
<1>2. CASE r \in [job : {"check"}, pc : CheckPc, read : SUBSET Docs]
  BY <1>2, CheckAssumption DEF Running, DocPc, CheckPc
<1> QED BY <1>1, <1>2 DEF Running, DocPc, CheckPc

(* A job goes on to another program counter, and stays the job it is. *)
LEMMA GoStep ==
    ASSUME TypeOK, NEW w \in Workers, worker[w] # None, NEW pc, Go(w, pc),
           \/ worker[w].job \in Docs /\ pc \in DocPc
           \/ worker[w].job = "check" /\ pc \in CheckPc
    PROVE  /\ worker' \in [Workers -> Running \cup {None}]
           /\ worker'[w] # None
           /\ worker'[w].job = worker[w].job
           /\ worker'[w].pc = pc
           /\ \A v \in Workers : v # w => worker'[v] = worker[v]
<1> DEFINE new == [worker[w] EXCEPT !.pc = pc]
<1>1. worker \in [Workers -> Running \cup {None}]
  BY DEF TypeOK
<1>2. worker' = [worker EXCEPT ![w] = new]
  BY DEF Go
<1>3. worker[w] \in Running
  BY RunningJob
<1>4. new \in Running /\ new.job = worker[w].job /\ new.pc = pc
  BY <1>3, NextPc
<1>5. new # None
  BY <1>4, NoneAssumption
<1> HIDE DEF new
<1> QED BY <1>1, <1>2, <1>4, <1>5

(* Which jobs are on which worker does not change. *)
SameWork ==
    \A w \in Workers :
        /\ worker'[w] # None <=> worker[w] # None
        /\ worker[w] # None => worker'[w].job = worker[w].job

LEMMA GoSameWork ==
    ASSUME TypeOK, NEW w \in Workers, worker[w] # None, NEW pc, Go(w, pc),
           \/ worker[w].job \in Docs /\ pc \in DocPc
           \/ worker[w].job = "check" /\ pc \in CheckPc
    PROVE  SameWork
BY GoStep DEF SameWork

(* Each action of a running job, but for its last, as such a step. *)
LEMMA JobSteps ==
    ASSUME TypeOK, NEW w \in Workers,
           \/ ExtractionBegin(w) \/ Extract(w) \/ Record(w) \/ Count(w) \/ AutoTrigger(w)
           \/ CheckReport(w) \/ RecordFailure(w) \/ Raise(w) \/ HandlerRaises(w)
    PROVE  /\ worker[w] # None
           /\ \E pc : /\ Go(w, pc) /\ pc # "begin"
                      /\ \/ worker[w].job \in Docs /\ pc \in DocPc
                         \/ worker[w].job = "check" /\ pc \in CheckPc
<1>1. worker[w] # None
  BY DEF ExtractionBegin, Extract, Record, Count, AutoTrigger, CheckReport, RecordFailure,
         Raise, HandlerRaises, At
<1>2. \/ worker[w].job \in Docs /\ worker[w].pc \in DocPc
      \/ worker[w].job = "check" /\ worker[w].pc \in CheckPc
  BY <1>1, RunningJob
<1>3. CASE ExtractionBegin(w) \/ Record(w) \/ Count(w) \/ AutoTrigger(w) \/ CheckReport(w)
             \/ RecordFailure(w) \/ HandlerRaises(w)
  BY <1>1, <1>2, <1>3
     DEF ExtractionBegin, Record, Count, AutoTrigger, CheckReport, RecordFailure,
         HandlerRaises, At, DocPc, CheckPc
<1>4. CASE Extract(w)
  <2>1. PICK outcome \in {"complete", "failed"} : Go(w, outcome)
    BY <1>4 DEF Extract
  <2> QED BY <1>1, <1>2, <1>4, <2>1 DEF Extract, At, DocPc, CheckPc
<1>5. CASE Raise(w)
  BY <1>1, <1>2, <1>5, CheckAssumption DEF Raise, DocPc, CheckPc
<1> QED BY <1>1, <1>3, <1>4, <1>5

LEMMA CheckReadStep ==
    ASSUME TypeOK, NEW w \in Workers, CheckRead(w)
    PROVE  /\ worker[w] # None
           /\ worker' \in [Workers -> Running \cup {None}]
           /\ worker'[w] # None
           /\ worker'[w].job = worker[w].job
           /\ worker'[w].pc = "report"
           /\ \A v \in Workers : v # w => worker'[v] = worker[v]
<1> DEFINE new == [worker[w] EXCEPT !.pc = "report", !.read = Complete]
<1>1. worker[w] # None /\ worker[w].pc = "read"
  BY DEF CheckRead, At
<1>2. worker \in [Workers -> Running \cup {None}]
  BY DEF TypeOK
<1>3. worker' = [worker EXCEPT ![w] = new]
  BY DEF CheckRead
<1>4. worker[w] \in [job : {"check"}, pc : CheckPc, read : SUBSET Docs]
  <2>1. worker[w] \in Running
    BY <1>1, RunningJob
  <2> QED BY <1>1, <2>1 DEF Running, CheckPc
<1>5. new \in Running /\ new.job = worker[w].job /\ new.pc = "report"
  <2>1. Complete \in SUBSET Docs
    BY DEF Complete
  <2> QED BY <1>4, <2>1 DEF Running, CheckPc
<1>6. new # None
  BY <1>5, NoneAssumption
<1> HIDE DEF new
<1> QED BY <1>1, <1>2, <1>3, <1>5, <1>6

LEMMA DequeueStep ==
    ASSUME TypeOK, NEW w \in Workers, Dequeue(w)
    PROVE  /\ worker[w] = None /\ queue # <<>>
           /\ worker' \in [Workers -> Running \cup {None}]
           /\ worker'[w] # None
           /\ worker'[w].job = queue[1]
           /\ worker'[w].pc = IF queue[1] = "check" THEN "read" ELSE "begin"
           /\ \A v \in Workers : v # w => worker'[v] = worker[v]
           /\ Len(queue) \in Nat /\ Len(queue) > 0
           /\ DOMAIN queue = 1 .. Len(queue)
           /\ queue' \in Seq(Jobs)
           /\ DOMAIN queue' = 1 .. Len(queue) - 1
           /\ \A i \in 1 .. Len(queue) - 1 : queue'[i] = queue[i + 1]
<1> DEFINE new == [job |-> Head(queue), read |-> {},
                   pc |-> IF Head(queue) = "check" THEN "read" ELSE "begin"]
<1>1. /\ Len(queue) \in Nat /\ Len(queue) > 0
      /\ DOMAIN queue = 1 .. Len(queue)
      /\ Head(queue) = queue[1]
      /\ queue' \in Seq(Jobs)
      /\ DOMAIN queue' = 1 .. Len(queue) - 1
      /\ \A i \in 1 .. Len(queue) - 1 : queue'[i] = queue[i + 1]
  BY HeadTailProperties DEF TypeOK, Dequeue
<1>2. Head(queue) \in Jobs
  BY <1>1, QueuedJob
<1>3. new \in Running
  BY <1>2 DEF Running, Jobs
<1>4. new # None
  BY <1>3, NoneAssumption
<1> QED BY <1>1, <1>3, <1>4 DEF Dequeue, TypeOK

-----------------------------------------------------------------------------
(* Type correctness. *)

LEMMA UploadType ==
    ASSUME TypeOK, NEW u \in Uploads, Serve(u)
    PROVE  TypeOK'
<1> DEFINE r == upload[u]
<1>1. /\ r \in Upload
      /\ r.state \in {"new", "open", "done"} /\ r.base \in SUBSET Docs
      /\ r.created \in Seq(Docs) /\ r.left \in 0 .. MaxFiles
  <2>1. r \in Upload
    BY DEF TypeOK
  <2> QED BY <2>1 DEF Upload
<1>2. ASSUME NEW new \in Upload, upload' = [upload EXCEPT ![u] = new]
      PROVE  upload' \in [Uploads -> Upload]
  BY <1>2 DEF TypeOK
<1>3. ASSUME NEW n \in 1 .. MaxFiles, BeginUpload(u, n)
      PROVE  TypeOK'
  <2>1. [state |-> "open", base |-> evidence, created |-> <<>>, left |-> n] \in Upload
    BY BoundAssumption DEF Upload, TypeOK
  <2> QED BY <1>2, <1>3, <2>1 DEF BeginUpload, TypeOK
<1>4. ASSUME NEW d \in Docs, StoreFile(u, d)
      PROVE  TypeOK'
  <2> DEFINE new == [r EXCEPT !.created = Append(@, d), !.left = @ - 1]
  <2>1. upload' = [upload EXCEPT ![u] = new]
    BY <1>4 DEF StoreFile
  <2>2. r.left - 1 \in 0 .. MaxFiles
    BY <1>1, <1>4, BoundAssumption, SMTT(60) DEF StoreFile
  <2>3. Append(r.created, d) \in Seq(Docs)
    BY <1>1, AppendProperties
  <2>4. new \in Upload
    BY <1>1, <2>2, <2>3 DEF Upload
  <2>5. doc' = [doc EXCEPT ![d] = "pending"]
    BY <1>4 DEF StoreFile
  <2> HIDE DEF new
  <2> QED BY <1>2, <1>4, <2>1, <2>4, <2>5 DEF StoreFile, TypeOK
<1>5. ASSUME Close(u)
      PROVE  upload' \in [Uploads -> Upload]
  <2> DEFINE new == [r EXCEPT !.state = "done"]
  <2>1. upload' = [upload EXCEPT ![u] = new]
    BY <1>5 DEF Close
  <2>2. new \in Upload
    BY <1>1 DEF Upload
  <2> HIDE DEF new
  <2> QED BY <1>2, <2>1, <2>2
<1>6. ASSUME NEW d \in Docs, StoreLast(u, d)
      PROVE  TypeOK'
  <2> DEFINE created == Append(r.created, d)
  <2>1. created \in Seq(Docs)
    BY <1>1, AppendProperties
  <2>2. Range(created) \subseteq Docs
    BY <2>1, RangeOfSeq
  <2>3. created \in Seq(Jobs)
    BY <2>1, SeqMonotonic DEF Jobs
  <2>4. /\ evidence' = r.base \cup Range(created)
        /\ claimed' = claimed \cup Range(created)
        /\ queue' = queue \o created
    BY <1>6 DEF StoreLast, ListEvidence, StartExtractions
  <2> HIDE DEF created
  <2>5. evidence' \in SUBSET Docs /\ claimed' \in SUBSET Jobs
    BY <1>1, <2>2, <2>4 DEF TypeOK, Jobs
  <2>6. queue' \in Seq(Jobs)
    BY <2>3, <2>4, ConcatProperties DEF TypeOK
  <2>7. doc' = [doc EXCEPT ![d] = "pending"] /\ Close(u) /\ UNCHANGED <<worker, checked, crashes>>
    BY <1>6 DEF StoreLast
  <2> QED BY <1>5, <2>5, <2>6, <2>7 DEF TypeOK
<1>7. CASE RejectFile(u)
  BY <1>5, <1>7 DEF RejectFile, TypeOK
<1> QED BY <1>3, <1>4, <1>6, <1>7 DEF Serve

LEMMA StartCheckType ==
    ASSUME TypeOK, StartCheck
    PROVE  claimed' \in SUBSET Jobs /\ queue' \in Seq(Jobs)
<1>1. claimed \in SUBSET Jobs /\ queue \in Seq(Jobs) /\ "check" \in Jobs
  BY DEF TypeOK, Jobs
<1>2. Append(queue, "check") \in Seq(Jobs)
  BY <1>1, AppendProperties
<1> QED BY <1>1, <1>2 DEF StartCheck

LEMMA JobType ==
    ASSUME TypeOK, NEW w \in Workers, Work(w) \/ Fault(w)
    PROVE  TypeOK'
<1>1. CASE Dequeue(w)
  BY <1>1, DequeueStep DEF Dequeue, TypeOK
<1>2. CASE CheckRead(w)
  BY <1>2, CheckReadStep DEF CheckRead, TypeOK
<1>3. CASE Release(w)
  BY <1>3 DEF Release, TypeOK
<1>4. CASE \/ ExtractionBegin(w) \/ Extract(w) \/ Record(w) \/ Count(w) \/ AutoTrigger(w)
           \/ CheckReport(w) \/ RecordFailure(w) \/ Raise(w) \/ HandlerRaises(w)
  <2>1. worker' \in [Workers -> Running \cup {None}] /\ worker[w] # None
    BY <1>4, JobSteps, GoStep
  <2>2. CASE ExtractionBegin(w) \/ Record(w) \/ RecordFailure(w)
    BY <2>1, <2>2 DEF ExtractionBegin, Record, RecordFailure, SetStatus, TypeOK
  <2>3. CASE Extract(w) \/ Count(w) \/ Raise(w) \/ HandlerRaises(w)
    BY <2>1, <2>3 DEF Extract, Count, Raise, HandlerRaises, TypeOK
  <2>4. CASE AutoTrigger(w)
    BY <2>1, <2>4, StartCheckType DEF AutoTrigger, TypeOK
  <2>5. CASE CheckReport(w)
    BY <2>1, <2>5, RunningJob DEF CheckReport, TypeOK
  <2> QED BY <1>4, <2>2, <2>3, <2>4, <2>5
<1> QED BY <1>1, <1>2, <1>3, <1>4 DEF Work, Fault

LEMMA CrashType ==
    ASSUME TypeOK, Crash
    PROVE  TypeOK'
<1>1. upload' \in [Uploads -> Upload]
  <2> SUFFICES ASSUME NEW u \in Uploads
               PROVE  [upload[u] EXCEPT !.state = IF Open(u) THEN "done" ELSE @] \in Upload
    BY DEF Crash
  <2>1. upload[u] \in Upload
    BY DEF TypeOK
  <2> QED BY <2>1 DEF Upload
<1>2. crashes' \in 0 .. MaxCrashes
  BY BoundAssumption DEF Crash, TypeOK
<1>3. claimed' \in SUBSET Jobs /\ queue' \in Seq(Jobs)
  BY DEF Crash
<1>4. worker' \in [Workers -> Running \cup {None}]
  BY DEF Crash
<1>5. UNCHANGED <<doc, evidence, checked>>
  BY DEF Crash
<1> QED BY <1>1, <1>2, <1>3, <1>4, <1>5 DEF TypeOK

LEMMA InitType == Init => TypeOK
BY BoundAssumption DEF Init, TypeOK, Upload

LEMMA NextType == TypeOK /\ [Next]_vars => TypeOK'
<1> SUFFICES ASSUME TypeOK, [Next]_vars
             PROVE  TypeOK'
  OBVIOUS
<1>1. CASE UNCHANGED vars
  BY <1>1 DEF TypeOK, vars
<1>2. CASE TriggerCheck
  BY <1>2, StartCheckType DEF TriggerCheck, TypeOK
<1> QED BY <1>1, <1>2, UploadType, JobType, CrashType DEF Next

(* Every variable keeps its type: a worker's program counter is one of its
   kind of job, and a document's status one of the five.                    *)
THEOREM TypeCorrect == Spec => []TypeOK
BY InitType, NextType, PTL DEF Spec

-----------------------------------------------------------------------------
(* The claims are exact.  ClaimsAreExact speaks of sets of jobs; the parts of
   ClaimInv say the same of queue positions and workers, so that an action
   disturbs few of them.                                                    *)

QueuedIsClaimed == \A i \in DOMAIN queue : queue[i] \in claimed

RunningIsClaimed == \A w \in Workers : worker[w] # None => worker[w].job \in claimed

QueuedOnce == \A i, j \in DOMAIN queue : queue[i] = queue[j] => i = j

RunningOnce ==
    \A v, w \in Workers :
        worker[v] # None /\ worker[w] # None /\ worker[v].job = worker[w].job => v = w

NotQueuedAndRunning ==
    \A i \in DOMAIN queue, w \in Workers : worker[w] # None => worker[w].job # queue[i]

ClaimIsHeld ==
    \A j \in claimed :
        \/ \E i \in DOMAIN queue : queue[i] = j
        \/ \E w \in Workers : worker[w] # None /\ worker[w].job = j

ClaimInv ==
    /\ QueuedIsClaimed
    /\ RunningIsClaimed
    /\ QueuedOnce
    /\ RunningOnce
    /\ NotQueuedAndRunning
    /\ ClaimIsHeld

LEMMA SameJobsClaims ==
    ASSUME ClaimInv, SameWork, UNCHANGED <<claimed, queue>>
    PROVE  ClaimInv'
BY DEF ClaimInv, SameWork, QueuedIsClaimed, RunningIsClaimed, QueuedOnce, RunningOnce,
       NotQueuedAndRunning, ClaimIsHeld

(* New jobs, each of them unclaimed, are claimed and queued. *)
LEMMA EnqueueClaims ==
    ASSUME TypeOK, ClaimInv, SameWork, NEW new \in Seq(Jobs),
           \A i \in DOMAIN new : new[i] \notin claimed,
           \A i, j \in DOMAIN new : new[i] = new[j] => i = j,
           claimed' = claimed \cup Range(new),
           queue' = queue \o new
    PROVE  ClaimInv'
<1> DEFINE n == Len(queue)
           m == Len(new)
<1>1. /\ n \in Nat /\ m \in Nat
      /\ DOMAIN queue = 1 .. n /\ DOMAIN new = 1 .. m
      /\ DOMAIN queue' = 1 .. n + m
      /\ \A i \in 1 .. n + m : queue'[i] = IF i <= n THEN queue[i] ELSE new[i - n]
  BY ConcatProperties, LenProperties DEF TypeOK
<1>2. claimed' = claimed \cup {new[i] : i \in 1 .. m}
  BY <1>1 DEF Range
<1> HIDE DEF n, m
<1>3. \A i \in 1 .. n : queue'[i] = queue[i] /\ i \in DOMAIN queue'
  BY <1>1
<1>4. \A i \in 1 .. m : queue'[n + i] = new[i] /\ n + i \in DOMAIN queue'
  BY <1>1
<1>5. \A i \in DOMAIN queue' : \/ i \in 1 .. n /\ queue'[i] = queue[i] /\ queue'[i] \in claimed
                               \/ i - n \in 1 .. m /\ queue'[i] = new[i - n] /\ queue'[i] \notin claimed
  BY <1>1 DEF ClaimInv, QueuedIsClaimed
<1>6. QueuedIsClaimed'
  BY <1>2, <1>5 DEF QueuedIsClaimed
<1>7. RunningIsClaimed' /\ RunningOnce'
  BY <1>2 DEF ClaimInv, RunningIsClaimed, RunningOnce, SameWork
<1>8. QueuedOnce'
  <2> SUFFICES ASSUME NEW i \in DOMAIN queue', NEW j \in DOMAIN queue', queue'[i] = queue'[j]
               PROVE  i = j
    BY DEF QueuedOnce
  <2>1. CASE queue'[i] \in claimed
    BY <1>1, <1>5, <2>1 DEF ClaimInv, QueuedOnce
  <2>2. CASE queue'[i] \notin claimed
    <3>1. i - n \in 1 .. m /\ j - n \in 1 .. m /\ new[i - n] = new[j - n]
      BY <1>5, <2>2
    <3>2. i - n = j - n
      BY <1>1, <3>1
    <3> QED BY <1>1, <3>2
  <2> QED BY <2>1, <2>2
<1>9. NotQueuedAndRunning'
  <2> SUFFICES ASSUME NEW i \in DOMAIN queue', NEW w \in Workers, worker[w] # None
               PROVE  worker[w].job # queue'[i]
    BY DEF NotQueuedAndRunning, SameWork
  <2>1. CASE queue'[i] \in claimed
    BY <1>1, <1>5, <2>1 DEF ClaimInv, NotQueuedAndRunning
  <2>2. CASE queue'[i] \notin claimed
    BY <2>2 DEF ClaimInv, RunningIsClaimed
  <2> QED BY <2>1, <2>2
<1>10. ClaimIsHeld'
  <2> SUFFICES ASSUME NEW j \in claimed'
               PROVE  \/ \E i \in DOMAIN queue' : queue'[i] = j
                      \/ \E w \in Workers : worker'[w] # None /\ worker'[w].job = j
    BY DEF ClaimIsHeld
  <2>1. CASE \E i \in 1 .. m : j = new[i]
    BY <1>4, <2>1
  <2>2. CASE j \in claimed
    BY <1>1, <1>3, <2>2 DEF ClaimInv, ClaimIsHeld, SameWork
  <2> QED BY <1>2, <2>1, <2>2
<1> QED BY <1>6, <1>7, <1>8, <1>9, <1>10 DEF ClaimInv

LEMMA StartCheckClaims ==
    ASSUME TypeOK, ClaimInv, SameWork, StartCheck
    PROVE  ClaimInv'
<1>1. CASE "check" \in claimed
  BY <1>1, SameJobsClaims DEF StartCheck
<1>2. CASE "check" \notin claimed
  <2> DEFINE new == <<"check">>
  <2>1. new \in Seq(Jobs) /\ DOMAIN new = {1} /\ new[1] = "check"
    BY DEF Jobs
  <2>2. claimed' = claimed \cup Range(new)
    BY <1>2, <2>1 DEF StartCheck, Range
  <2>3. queue' = queue \o new
    <3>1. queue \in Seq(Jobs) /\ "check" \in Jobs
      BY DEF TypeOK, Jobs
    <3>2. Append(queue, "check") = queue \o new
      BY <3>1, AppendIsConcat
    <3> QED BY <1>2, <3>2 DEF StartCheck
  <2> HIDE DEF new
  <2> QED BY <1>2, <2>1, <2>2, <2>3, EnqueueClaims
<1> QED BY <1>1, <1>2

LEMMA DequeueClaims ==
    ASSUME TypeOK, ClaimInv, NEW w \in Workers, Dequeue(w)
    PROVE  ClaimInv'
<1> DEFINE n == Len(queue)
<1>1. /\ n \in Nat /\ n > 0
      /\ DOMAIN queue = 1 .. n
      /\ DOMAIN queue' = 1 .. n - 1
      /\ \A i \in 1 .. n - 1 : queue'[i] = queue[i + 1]
      /\ worker[w] = None
      /\ worker'[w] # None
      /\ worker'[w].job = queue[1]
      /\ \A v \in Workers : v # w => worker'[v] = worker[v]
      /\ claimed' = claimed
  BY DequeueStep DEF Dequeue
<1> HIDE DEF n
<1>2. \A i \in 1 .. n - 1 : i + 1 \in DOMAIN queue /\ i + 1 # 1
  BY <1>1
<1>3. 1 \in DOMAIN queue
  BY <1>1
<1>4. QueuedIsClaimed'
  BY <1>1, <1>2 DEF ClaimInv, QueuedIsClaimed
<1>5. RunningIsClaimed'
  BY <1>1, <1>3 DEF ClaimInv, QueuedIsClaimed, RunningIsClaimed
<1>6. QueuedOnce'
  <2> SUFFICES ASSUME NEW i \in 1 .. n - 1, NEW j \in 1 .. n - 1, queue[i + 1] = queue[j + 1]
               PROVE  i = j
    BY <1>1, ZenonT(60) DEF QueuedOnce
  <2>1. i + 1 = j + 1
    BY <1>2 DEF ClaimInv, QueuedOnce
  <2> QED BY <2>1
<1>7. RunningOnce'
  BY <1>1, <1>3 DEF ClaimInv, RunningOnce, NotQueuedAndRunning
<1>8. NotQueuedAndRunning'
  <2> SUFFICES ASSUME NEW i \in 1 .. n - 1, NEW v \in Workers, worker'[v] # None
               PROVE  worker'[v].job # queue[i + 1]
    BY <1>1 DEF NotQueuedAndRunning
  <2>1. CASE v = w
    BY <1>1, <1>2, <1>3, <2>1 DEF ClaimInv, QueuedOnce
  <2>2. CASE v # w
    BY <1>1, <1>2, <2>2, SMTT(60) DEF ClaimInv, NotQueuedAndRunning
  <2> QED BY <2>1, <2>2
<1>9. ClaimIsHeld'
  <2> SUFFICES ASSUME NEW j \in claimed
               PROVE  \/ \E i \in DOMAIN queue' : queue'[i] = j
                      \/ \E v \in Workers : worker'[v] # None /\ worker'[v].job = j
    BY <1>1 DEF ClaimIsHeld
  <2>1. CASE \E i \in DOMAIN queue : queue[i] = j
    <3>1. PICK i \in 1 .. n : queue[i] = j
      BY <1>1, <2>1
    <3>2. CASE i = 1
      BY <1>1, <3>1, <3>2
    <3>3. CASE i # 1
      <4>1. i - 1 \in 1 .. n - 1 /\ (i - 1) + 1 = i
        BY <1>1, <3>1, <3>3
      <4>2. i - 1 \in DOMAIN queue' /\ queue'[i - 1] = j
        BY <1>1, <3>1, <4>1
      <4> QED BY <4>2
    <3> QED BY <3>2, <3>3
  <2>2. CASE \E v \in Workers : worker[v] # None /\ worker[v].job = j
    BY <1>1, <2>2
  <2> QED BY <2>1, <2>2 DEF ClaimInv, ClaimIsHeld
<1> QED BY <1>4, <1>5, <1>6, <1>7, <1>8, <1>9 DEF ClaimInv

LEMMA ReleaseClaims ==
    ASSUME TypeOK, ClaimInv, NEW w \in Workers, Release(w)
    PROVE  ClaimInv'
<1>1. /\ worker[w] # None
      /\ worker'[w] = None
      /\ \A v \in Workers : v # w => worker'[v] = worker[v]
      /\ queue' = queue
      /\ claimed' = claimed \ {worker[w].job}
  BY DEF Release, At, TypeOK
<1>2. \A i \in DOMAIN queue : queue[i] # worker[w].job
  BY <1>1 DEF ClaimInv, NotQueuedAndRunning
<1>3. \A v \in Workers : v # w /\ worker[v] # None => worker[v].job # worker[w].job
  BY <1>1 DEF ClaimInv, RunningOnce
<1>4. QueuedIsClaimed' /\ RunningIsClaimed'
  BY <1>1, <1>2, <1>3 DEF ClaimInv, QueuedIsClaimed, RunningIsClaimed
<1>5. QueuedOnce' /\ RunningOnce' /\ NotQueuedAndRunning'
  BY <1>1 DEF ClaimInv, QueuedOnce, RunningOnce, NotQueuedAndRunning
<1>6. ClaimIsHeld'
  BY <1>1 DEF ClaimInv, ClaimIsHeld
<1> QED BY <1>4, <1>5, <1>6 DEF ClaimInv

-----------------------------------------------------------------------------
(* What a batch has stored is pending and unclaimed until its jobs start, and
   no document is in two batches or twice in one.                           *)

BatchIsNew ==
    \A u \in Uploads : Open(u) =>
        \A i \in DOMAIN upload[u].created :
            /\ doc[upload[u].created[i]] = "pending"
            /\ upload[u].created[i] \notin claimed

BatchOnce ==
    \A u \in Uploads : Open(u) =>
        \A i, j \in DOMAIN upload[u].created :
            upload[u].created[i] = upload[u].created[j] => i = j

BatchesApart ==
    \A u, v \in Uploads : Open(u) /\ Open(v) /\ u # v =>
        \A i \in DOMAIN upload[u].created, j \in DOMAIN upload[v].created :
            upload[u].created[i] # upload[v].created[j]

BatchInv == BatchIsNew /\ BatchOnce /\ BatchesApart

(* A document is stored before it is claimed, and pending until its job has
   begun.                                                                   *)

ClaimedIsStored == \A d \in Docs : d \in claimed => doc[d] # "absent"

QueuedIsPending == \A i \in DOMAIN queue : queue[i] \in Docs => doc[queue[i]] = "pending"

BegunIsPending ==
    \A w \in Workers :
        worker[w] # None /\ worker[w].pc = "begin" => doc[worker[w].job] = "pending"

PendingInv == ClaimedIsStored /\ QueuedIsPending /\ BegunIsPending

Inv == TypeOK /\ ClaimInv /\ BatchInv /\ PendingInv

-----------------------------------------------------------------------------
(* The steps, and what they leave of the invariant. *)

(* `batch` is the batch of the open upload u with d, which nothing had. *)
NewBatch(u, d, batch) ==
    /\ batch \in Seq(Docs)
    /\ d \notin claimed
    /\ doc'[d] = "pending"
    /\ \A e \in Docs : e # d => doc'[e] = doc[e]
    /\ \A i \in DOMAIN batch :
           /\ batch[i] \in Docs /\ batch[i] \notin claimed /\ doc'[batch[i]] = "pending"
           /\ batch[i] # d => i \in DOMAIN upload[u].created /\ batch[i] = upload[u].created[i]
    /\ \A i, j \in DOMAIN batch : batch[i] = batch[j] => i = j
    /\ \A v \in Uploads : Open(v) =>
           \A i \in DOMAIN upload[v].created :
               upload[v].created[i] \in Docs /\ upload[v].created[i] # d

LEMMA Stores ==
    ASSUME Inv, NEW u \in Uploads, NEW d \in Docs, Open(u), doc[d] = "absent",
           doc' = [doc EXCEPT ![d] = "pending"]
    PROVE  NewBatch(u, d, Append(upload[u].created, d))
<1> DEFINE batch == Append(upload[u].created, d)
<1> DEFINE old == upload[u].created
           n == Len(old)
<1>1. \A v \in Uploads : upload[v].created \in Seq(Docs)
  BY DEF Inv, TypeOK, Upload
<1>2. /\ batch \in Seq(Docs)
      /\ n \in Nat /\ DOMAIN old = 1 .. n /\ DOMAIN batch = 1 .. n + 1
      /\ \A i \in 1 .. n : batch[i] = old[i]
      /\ batch[n + 1] = d
  BY <1>1, AppendProperties
<1>3. d \notin claimed
  BY DEF Inv, PendingInv, ClaimedIsStored
<1>4. doc'[d] = "pending" /\ \A e \in Docs : e # d => doc'[e] = doc[e]
  BY DEF Inv, TypeOK
<1>5. \A v \in Uploads : Open(v) =>
          \A i \in DOMAIN upload[v].created :
              upload[v].created[i] \in Docs /\ upload[v].created[i] # d
  <2> SUFFICES ASSUME NEW v \in Uploads, Open(v), NEW i \in DOMAIN upload[v].created
               PROVE  upload[v].created[i] \in Docs /\ upload[v].created[i] # d
    OBVIOUS
  <2>1. upload[v].created[i] \in Docs
    BY <1>1, LenProperties, ElementOfSeq
  <2>2. doc[upload[v].created[i]] = "pending"
    BY DEF Inv, BatchInv, BatchIsNew
  <2> QED BY <2>1, <2>2
<1>6. \A i \in 1 .. n : old[i] \in Docs /\ old[i] # d /\ old[i] \notin claimed /\ doc[old[i]] = "pending"
  BY <1>2, <1>5 DEF Inv, BatchInv, BatchIsNew
<1>7. \A i, j \in 1 .. n : old[i] = old[j] => i = j
  BY <1>2 DEF Inv, BatchInv, BatchOnce
<1> HIDE DEF old, n, batch
<1>8. \A i \in DOMAIN batch :
          /\ batch[i] \in Docs /\ batch[i] \notin claimed /\ doc'[batch[i]] = "pending"
          /\ batch[i] # d => i \in DOMAIN old /\ batch[i] = old[i]
  <2> SUFFICES ASSUME NEW i \in 1 .. n + 1
               PROVE  /\ batch[i] \in Docs /\ batch[i] \notin claimed /\ doc'[batch[i]] = "pending"
                      /\ batch[i] # d => i \in DOMAIN old /\ batch[i] = old[i]
    BY <1>2
  <2>1. CASE i = n + 1
    BY <1>2, <1>3, <1>4, <2>1
  <2>2. CASE i # n + 1
    <3>1. i \in 1 .. n
      BY <1>2, <2>2
    <3> QED BY <1>2, <1>4, <1>6, <3>1
  <2> QED BY <2>1, <2>2
<1>9. \A i, j \in DOMAIN batch : batch[i] = batch[j] => i = j
  BY <1>2, <1>6, <1>7
<1>10. NewBatch(u, d, batch)
  BY <1>2, <1>3, <1>4, <1>5, <1>8, <1>9 DEF NewBatch, old
<1> QED BY <1>10 DEF batch

LEMMA StoreFileInv ==
    ASSUME Inv, NEW u \in Uploads, NEW d \in Docs, StoreFile(u, d)
    PROVE  BatchInv' /\ PendingInv'
<1> DEFINE batch == Append(upload[u].created, d)
<1>1. /\ Open(u) /\ doc[d] = "absent" /\ doc' = [doc EXCEPT ![d] = "pending"]
      /\ UNCHANGED <<claimed, queue, worker>>
  BY DEF StoreFile
<1>2. /\ \A v \in Uploads : v # u => upload'[v] = upload[v]
      /\ upload'[u].created = batch
  <2>1. upload[u] \in Upload /\ upload \in [Uploads -> Upload]
    BY DEF Inv, TypeOK
  <2>2. upload' = [upload EXCEPT ![u] = [upload[u] EXCEPT !.created = batch, !.left = @ - 1]]
    BY DEF StoreFile
  <2>3. [upload[u] EXCEPT !.created = batch, !.left = @ - 1].created = batch
    BY <2>1 DEF Upload
  <2> QED BY <2>1, <2>2, <2>3
<1>3. NewBatch(u, d, batch)
  BY <1>1, Stores
<1> HIDE DEF batch
<1>4. \A v \in Uploads : Open(v)' => Open(v)
  BY <1>1, <1>2 DEF Open
<1>5. BatchIsNew'
  BY <1>1, <1>2, <1>3, <1>4 DEF NewBatch, Inv, BatchInv, BatchIsNew
<1>6. BatchOnce'
  BY <1>2, <1>3, <1>4 DEF NewBatch, Inv, BatchInv, BatchOnce
<1>7. BatchesApart'
  <2> SUFFICES ASSUME NEW v \in Uploads, NEW w \in Uploads, Open(v), Open(w), v # w,
                      NEW i \in DOMAIN upload'[v].created, NEW j \in DOMAIN upload'[w].created
               PROVE  upload'[v].created[i] # upload'[w].created[j]
    BY <1>4 DEF BatchesApart
  <2>1. CASE v = u
    BY <1>2, <1>3, <2>1 DEF NewBatch, Inv, BatchInv, BatchesApart
  <2>2. CASE w = u
    BY <1>2, <1>3, <2>2 DEF NewBatch, Inv, BatchInv, BatchesApart
  <2>3. CASE v # u /\ w # u
    BY <1>2, <2>3 DEF Inv, BatchInv, BatchesApart
  <2> QED BY <2>1, <2>2, <2>3
<1>8. PendingInv'
  <2>1. ClaimedIsStored'
    BY <1>1, <1>3 DEF NewBatch, Inv, PendingInv, ClaimedIsStored
  <2>2. QueuedIsPending'
    BY <1>1, <1>3 DEF NewBatch, Inv, PendingInv, QueuedIsPending
  <2>3. \A w \in Workers : worker[w] # None /\ worker[w].pc = "begin" => worker[w].job \in Docs
    BY RunningJob DEF Inv, CheckPc
  <2>4. BegunIsPending'
    BY <1>1, <1>3, <2>3 DEF NewBatch, Inv, PendingInv, BegunIsPending
  <2> QED BY <2>1, <2>2, <2>4 DEF PendingInv
<1> QED BY <1>5, <1>6, <1>7, <1>8 DEF BatchInv

LEMMA Closes ==
    ASSUME TypeOK, NEW u \in Uploads, Close(u)
    PROVE  /\ ~Open(u)'
           /\ \A v \in Uploads : Open(v)' => v # u /\ Open(v)
           /\ \A v \in Uploads : v # u => upload'[v] = upload[v]
<1>1. upload \in [Uploads -> Upload] /\ upload[u] \in Upload
  BY DEF TypeOK
<1>2. upload' = [upload EXCEPT ![u] = [upload[u] EXCEPT !.state = "done"]]
  BY DEF Close
<1>3. [upload[u] EXCEPT !.state = "done"].state = "done"
  BY <1>1 DEF Upload
<1> QED BY <1>1, <1>2, <1>3 DEF Open

LEMMA StoreLastInv ==
    ASSUME Inv, NEW u \in Uploads, NEW d \in Docs, StoreLast(u, d)
    PROVE  ClaimInv' /\ BatchInv' /\ PendingInv'
<1> DEFINE batch == Append(upload[u].created, d)
<1>1. /\ Open(u) /\ doc[d] = "absent" /\ doc' = [doc EXCEPT ![d] = "pending"]
      /\ claimed' = claimed \cup Range(batch)
      /\ queue' = queue \o batch
      /\ Close(u)
      /\ UNCHANGED worker
  BY DEF StoreLast, StartExtractions
<1>2. NewBatch(u, d, batch)
  BY <1>1, Stores
<1> HIDE DEF batch
<1>3. batch \in Seq(Jobs)
  BY <1>2, SeqMonotonic DEF NewBatch, Jobs
<1>4. /\ \A v \in Uploads : Open(v)' => v # u /\ Open(v)
      /\ \A v \in Uploads : v # u => upload'[v] = upload[v]
  BY <1>1, Closes DEF Inv
<1>5. ClaimInv'
  BY <1>1, <1>2, <1>3, EnqueueClaims DEF NewBatch, Inv, SameWork
<1>6. \A e : e \in Range(batch) <=> \E i \in DOMAIN batch : e = batch[i]
  BY DEF Range
<1>7. BatchIsNew'
  <2> SUFFICES ASSUME NEW v \in Uploads, v # u, Open(v), NEW i \in DOMAIN upload[v].created
               PROVE  /\ doc'[upload[v].created[i]] = "pending"
                      /\ upload[v].created[i] \notin claimed'
    BY <1>4 DEF BatchIsNew
  <2>1. /\ upload[v].created[i] \in Docs /\ upload[v].created[i] # d
        /\ doc[upload[v].created[i]] = "pending"
        /\ upload[v].created[i] \notin claimed
    BY <1>2 DEF NewBatch, Inv, BatchInv, BatchIsNew
  <2>2. \A j \in DOMAIN upload[u].created : upload[v].created[i] # upload[u].created[j]
    BY <1>1 DEF Inv, BatchInv, BatchesApart
  <2> DEFINE e == upload[v].created[i]
  <2>3. doc'[e] = "pending"
    BY <1>2, <2>1 DEF NewBatch
  <2>4. \A j \in DOMAIN batch : e # batch[j]
    BY <1>2, <2>1, <2>2 DEF NewBatch
  <2> HIDE DEF e
  <2>5. e \notin Range(batch)
    BY <1>6, <2>4
  <2>6. e \notin claimed
    BY <2>1 DEF e
  <2>7. e \notin claimed'
    BY <1>1, <2>5, <2>6
  <2> QED BY <2>3, <2>7 DEF e
<1>8. BatchOnce' /\ BatchesApart'
  BY <1>4 DEF Inv, BatchInv, BatchOnce, BatchesApart
<1>9. ClaimedIsStored'
  BY <1>1, <1>2, <1>6 DEF NewBatch, Inv, PendingInv, ClaimedIsStored
<1>10. QueuedIsPending'
  <2>1. /\ Len(queue) \in Nat /\ Len(batch) \in Nat
        /\ DOMAIN queue = 1 .. Len(queue) /\ DOMAIN batch = 1 .. Len(batch)
        /\ DOMAIN queue' = 1 .. Len(queue) + Len(batch)
        /\ \A i \in 1 .. Len(queue) + Len(batch) :
               queue'[i] = IF i <= Len(queue) THEN queue[i] ELSE batch[i - Len(queue)]
    BY <1>1, <1>3, ConcatProperties, LenProperties DEF Inv, TypeOK
  <2>2. \A i \in DOMAIN queue : queue[i] \in Docs => doc'[queue[i]] = "pending"
    BY <1>1, <1>2 DEF NewBatch, Inv, PendingInv, QueuedIsPending
  <2> SUFFICES ASSUME NEW i \in 1 .. Len(queue) + Len(batch), queue'[i] \in Docs
               PROVE  doc'[queue'[i]] = "pending"
    BY <2>1 DEF QueuedIsPending
  <2>3. CASE i <= Len(queue)
    BY <2>1, <2>2, <2>3
  <2>4. CASE ~(i <= Len(queue))
    <3>1. i - Len(queue) \in DOMAIN batch /\ queue'[i] = batch[i - Len(queue)]
      BY <2>1, <2>4
    <3> QED BY <1>2, <3>1 DEF NewBatch
  <2> QED BY <2>3, <2>4
<1>11. BegunIsPending'
  <2>1. \A w \in Workers : worker[w] # None /\ worker[w].pc = "begin" => worker[w].job \in Docs
    BY RunningJob DEF Inv, CheckPc
  <2> QED BY <1>1, <1>2, <2>1 DEF NewBatch, Inv, PendingInv, BegunIsPending
<1> QED BY <1>5, <1>7, <1>8, <1>9, <1>10, <1>11 DEF BatchInv, PendingInv

LEMMA UploadInv ==
    ASSUME Inv, NEW u \in Uploads, Serve(u)
    PROVE  ClaimInv' /\ BatchInv' /\ PendingInv'
<1>1. ASSUME UNCHANGED <<claimed, queue, worker>>
      PROVE  ClaimInv'
  BY <1>1, SameJobsClaims DEF Inv, SameWork
<1>2. ASSUME UNCHANGED <<doc, claimed, queue, worker>>
      PROVE  PendingInv'
  BY <1>2 DEF Inv, PendingInv, ClaimedIsStored, QueuedIsPending, BegunIsPending
<1>3. ASSUME NEW n \in 1 .. MaxFiles, BeginUpload(u, n)
      PROVE  ClaimInv' /\ BatchInv' /\ PendingInv'
  <2>1. UNCHANGED <<doc, claimed, queue, worker>>
    BY <1>3 DEF BeginUpload
  <2>2. upload'[u].created = <<>> /\ \A v \in Uploads : v # u => upload'[v] = upload[v]
    BY <1>3 DEF BeginUpload, Inv, TypeOK
  <2>3. DOMAIN upload'[u].created = {} /\ \A v \in Uploads : v # u => (Open(v)' <=> Open(v))
    BY <2>2 DEF Open
  <2>4. BatchInv'
    BY <2>1, <2>2, <2>3 DEF Inv, BatchInv, BatchIsNew, BatchOnce, BatchesApart
  <2> QED BY <1>1, <1>2, <2>1, <2>4
<1>4. ASSUME NEW d \in Docs, StoreFile(u, d)
      PROVE  ClaimInv' /\ BatchInv' /\ PendingInv'
  BY <1>1, <1>4, StoreFileInv DEF StoreFile
<1>5. ASSUME NEW d \in Docs, StoreLast(u, d)
      PROVE  ClaimInv' /\ BatchInv' /\ PendingInv'
  BY <1>5, StoreLastInv
<1>6. CASE RejectFile(u)
  <2>1. UNCHANGED <<doc, claimed, queue, worker>> /\ Close(u)
    BY <1>6 DEF RejectFile
  <2>2. BatchInv'
    BY <2>1, Closes DEF Inv, BatchInv, BatchIsNew, BatchOnce, BatchesApart
  <2> QED BY <1>1, <1>2, <2>1, <2>2
<1> QED BY <1>3, <1>4, <1>5, <1>6 DEF Serve

(* A step of the job of worker w, which may set the status of its document. *)
JobStep(w) ==
    /\ worker[w] # None
    /\ worker'[w] # None
    /\ worker'[w].job = worker[w].job
    /\ worker'[w].pc # "begin"
    /\ \A v \in Workers : v # w => worker'[v] = worker[v]
    /\ \A d \in Docs : doc'[d] # doc[d] => d = worker[w].job /\ doc'[d] # "absent"
    /\ UNCHANGED upload

LEMMA JobStepInv ==
    ASSUME Inv, NEW w \in Workers, JobStep(w), UNCHANGED <<claimed, queue>>
    PROVE  ClaimInv' /\ BatchInv' /\ PendingInv'
<1>1. worker[w].job \in claimed
  BY DEF JobStep, Inv, ClaimInv, RunningIsClaimed
<1>2. ClaimInv'
  BY SameJobsClaims DEF Inv, JobStep, SameWork
<1>3. BatchInv'
  <2>1. \A u \in Uploads : \A i \in DOMAIN upload[u].created : upload[u].created[i] \in Docs
    BY LenProperties, ElementOfSeq DEF Inv, TypeOK, Upload
  <2>2. UNCHANGED <<upload, claimed>> /\ \A u \in Uploads : Open(u)' <=> Open(u)
    BY DEF JobStep, Open
  <2>3. BatchIsNew'
    BY <1>1, <2>1, <2>2 DEF JobStep, Inv, BatchInv, BatchIsNew
  <2> QED BY <2>2, <2>3 DEF Inv, BatchInv, BatchOnce, BatchesApart
<1>4. ClaimedIsStored'
  BY DEF JobStep, Inv, PendingInv, ClaimedIsStored
<1>5. QueuedIsPending'
  BY DEF JobStep, Inv, PendingInv, QueuedIsPending, ClaimInv, NotQueuedAndRunning
<1>6. BegunIsPending'
  <2> SUFFICES ASSUME NEW v \in Workers, v # w, worker[v] # None, worker[v].pc = "begin"
               PROVE  doc'[worker[v].job] = "pending"
    BY DEF JobStep, BegunIsPending
  <2>1. worker[v].job \in Docs
    BY RunningJob DEF Inv, CheckPc
  <2>2. worker[v].job # worker[w].job
    BY DEF JobStep, Inv, ClaimInv, RunningOnce
  <2> QED BY <2>1, <2>2 DEF JobStep, Inv, PendingInv, BegunIsPending
<1> QED BY <1>2, <1>3, <1>4, <1>5, <1>6 DEF PendingInv

LEMMA StartCheckInv ==
    ASSUME Inv, StartCheck, UNCHANGED <<doc, upload>>,
           SameWork, \A v \in Workers : worker'[v] = worker[v] \/ worker'[v].pc # "begin"
    PROVE  ClaimInv' /\ BatchInv' /\ PendingInv'
<1>1. ClaimInv'
  BY StartCheckClaims DEF Inv
<1>2. claimed \subseteq claimed' /\ claimed' \subseteq claimed \cup {"check"}
  BY DEF StartCheck
<1>3. \A i \in DOMAIN queue' : queue'[i] # "check" => i \in DOMAIN queue /\ queue'[i] = queue[i]
  <2>1. CASE "check" \in claimed
    BY <2>1 DEF StartCheck
  <2>2. CASE "check" \notin claimed
    <3>1. queue' = Append(queue, "check") /\ queue \in Seq(Jobs)
      BY <2>2 DEF StartCheck, Inv, TypeOK
    <3>2. /\ Len(queue) \in Nat
          /\ DOMAIN queue = 1 .. Len(queue)
          /\ DOMAIN queue' = 1 .. Len(queue) + 1
          /\ queue'[Len(queue) + 1] = "check"
          /\ \A i \in 1 .. Len(queue) : queue'[i] = queue[i]
      BY <3>1, AppendProperties DEF Jobs
    <3> QED BY <3>2
  <2> QED BY <2>1, <2>2
<1>4. \A u \in Uploads : \A i \in DOMAIN upload[u].created : upload[u].created[i] # "check"
  BY LenProperties, ElementOfSeq, CheckAssumption DEF Inv, TypeOK, Upload
<1>5. \A u \in Uploads : Open(u)' <=> Open(u)
  BY DEF Open
<1>6. BatchInv'
  BY <1>2, <1>4, <1>5 DEF Inv, BatchInv, BatchIsNew, BatchOnce, BatchesApart
<1>7. ClaimedIsStored'
  BY <1>2, CheckAssumption DEF Inv, PendingInv, ClaimedIsStored
<1>8. QueuedIsPending'
  BY <1>3, CheckAssumption DEF Inv, PendingInv, QueuedIsPending
<1>9. BegunIsPending'
  BY DEF Inv, PendingInv, BegunIsPending, SameWork
<1> QED BY <1>1, <1>6, <1>7, <1>8, <1>9 DEF PendingInv

(* The steps that are JobSteps, and those that queue the check. *)
LEMMA JobStepsAreSo ==
    ASSUME Inv, NEW w \in Workers,
           \/ ExtractionBegin(w) \/ Extract(w) \/ Record(w) \/ Count(w) \/ AutoTrigger(w)
           \/ CheckRead(w) \/ CheckReport(w) \/ RecordFailure(w) \/ Raise(w) \/ HandlerRaises(w)
    PROVE  JobStep(w)
<1>1. /\ worker[w] # None
      /\ worker'[w] # None
      /\ worker'[w].job = worker[w].job
      /\ worker'[w].pc # "begin"
      /\ \A v \in Workers : v # w => worker'[v] = worker[v]
  <2>1. CASE CheckRead(w)
    BY <2>1, CheckReadStep DEF Inv
  <2>2. CASE ~CheckRead(w)
    BY <2>2, JobSteps, GoStep DEF Inv
  <2> QED BY <2>1, <2>2
<1>2. UNCHANGED upload
  BY DEF ExtractionBegin, Extract, Record, Count, AutoTrigger, CheckRead, CheckReport,
         RecordFailure, Raise, HandlerRaises
<1>3. ASSUME NEW status, SetStatus(w, status), status # "absent"
      PROVE  \A d \in Docs : doc'[d] # doc[d] => d = worker[w].job /\ doc'[d] # "absent"
  BY <1>3 DEF SetStatus, Inv, TypeOK
<1>4. \A d \in Docs : doc'[d] # doc[d] => d = worker[w].job /\ doc'[d] # "absent"
  <2>1. CASE ExtractionBegin(w) \/ RecordFailure(w)
    BY <1>3, <2>1 DEF ExtractionBegin, RecordFailure
  <2>2. CASE Record(w)
    BY <1>3, <2>2 DEF Record
  <2>3. CASE Extract(w) \/ Count(w) \/ AutoTrigger(w) \/ CheckRead(w) \/ CheckReport(w)
               \/ Raise(w) \/ HandlerRaises(w)
    BY <2>3 DEF Extract, Count, AutoTrigger, CheckRead, CheckReport, Raise, HandlerRaises
  <2> QED BY <2>1, <2>2, <2>3
<1> QED BY <1>1, <1>2, <1>4 DEF JobStep

LEMMA WorkInv ==
    ASSUME Inv, NEW w \in Workers, Work(w) \/ Fault(w)
    PROVE  ClaimInv' /\ BatchInv' /\ PendingInv'
<1>1. CASE Dequeue(w)
  <2>1. UNCHANGED <<doc, upload, claimed>> /\ \A u \in Uploads : Open(u)' <=> Open(u)
    BY <1>1 DEF Dequeue, Open
  <2>2. BatchInv'
    BY <2>1 DEF Inv, BatchInv, BatchIsNew, BatchOnce, BatchesApart
  <2>3. /\ DOMAIN queue = 1 .. Len(queue) /\ Len(queue) \in Nat /\ Len(queue) > 0
        /\ DOMAIN queue' = 1 .. Len(queue) - 1
        /\ \A i \in 1 .. Len(queue) - 1 : queue'[i] = queue[i + 1]
        /\ worker'[w].job = queue[1]
        /\ worker'[w].pc = IF queue[1] = "check" THEN "read" ELSE "begin"
        /\ \A v \in Workers : v # w => worker'[v] = worker[v]
    BY <1>1, DequeueStep DEF Inv
  <2>4. \A i \in 1 .. Len(queue) - 1 : i + 1 \in DOMAIN queue
    BY <2>3
  <2>5. 1 \in DOMAIN queue
    BY <2>3
  <2>6. queue[1] \in Jobs
    BY <2>5, QueuedJob DEF Inv
  <2>7. QueuedIsPending'
    BY <2>1, <2>3, <2>4 DEF Inv, PendingInv, QueuedIsPending
  <2>8. BegunIsPending'
    BY <2>1, <2>3, <2>5, <2>6 DEF Inv, PendingInv, QueuedIsPending, BegunIsPending, Jobs
  <2>9. ClaimedIsStored'
    BY <2>1 DEF Inv, PendingInv, ClaimedIsStored
  <2>10. ClaimInv'
    BY <1>1, DequeueClaims DEF Inv
  <2> QED BY <2>2, <2>7, <2>8, <2>9, <2>10 DEF PendingInv
<1>2. CASE Release(w)
  <2>1. /\ UNCHANGED <<doc, upload, queue>> /\ claimed' \subseteq claimed
        /\ \A v \in Workers : worker'[v] # None => worker'[v] = worker[v]
        /\ \A u \in Uploads : Open(u)' <=> Open(u)
    BY <1>2 DEF Release, Open, Inv, TypeOK
  <2>2. BatchInv'
    BY <2>1 DEF Inv, BatchInv, BatchIsNew, BatchOnce, BatchesApart
  <2>3. PendingInv'
    BY <2>1 DEF Inv, PendingInv, ClaimedIsStored, QueuedIsPending, BegunIsPending
  <2> QED BY <1>2, <2>2, <2>3, ReleaseClaims DEF Inv
<1>3. CASE AutoTrigger(w)
  <2>1. JobStep(w)
    BY <1>3, JobStepsAreSo
  <2>2. SameWork /\ \A v \in Workers : worker'[v] = worker[v] \/ worker'[v].pc # "begin"
    BY <2>1 DEF JobStep, SameWork
  <2> QED BY <1>3, <2>2, StartCheckInv DEF AutoTrigger
<1>4. CASE \/ ExtractionBegin(w) \/ Extract(w) \/ Record(w) \/ Count(w) \/ CheckRead(w)
           \/ CheckReport(w) \/ RecordFailure(w) \/ Raise(w) \/ HandlerRaises(w)
  <2>1. JobStep(w)
    BY <1>4, JobStepsAreSo
  <2>2. UNCHANGED <<claimed, queue>>
    BY <1>4 DEF ExtractionBegin, Extract, Record, Count, CheckRead, CheckReport,
                RecordFailure, Raise, HandlerRaises
  <2> QED BY <2>1, <2>2, JobStepInv
<1> QED BY <1>1, <1>2, <1>3, <1>4 DEF Work, Fault

LEMMA CrashCloses ==
    ASSUME TypeOK, Crash
    PROVE  \A u \in Uploads : ~Open(u)'
<1> SUFFICES ASSUME NEW u \in Uploads
             PROVE  ~Open(u)'
  OBVIOUS
<1>1. upload[u] \in Upload
  BY DEF TypeOK
<1>2. upload'[u] = [upload[u] EXCEPT !.state = IF Open(u) THEN "done" ELSE @]
  BY DEF Crash
<1>3. upload'[u].state = IF Open(u) THEN "done" ELSE upload[u].state
  BY <1>1, <1>2 DEF Upload
<1> QED BY <1>3 DEF Open

LEMMA CrashInv ==
    ASSUME Inv, Crash
    PROVE  ClaimInv' /\ BatchInv' /\ PendingInv'
<1>1. \A u \in Uploads : ~Open(u)'
  BY CrashCloses DEF Inv
<1>2. BatchInv'
  BY <1>1 DEF BatchInv, BatchIsNew, BatchOnce, BatchesApart
<1>3. claimed' = {} /\ DOMAIN queue' = {} /\ \A w \in Workers : worker'[w] = None
  BY DEF Crash
<1>4. ClaimInv'
  BY <1>3 DEF ClaimInv, QueuedIsClaimed, RunningIsClaimed, QueuedOnce, RunningOnce,
              NotQueuedAndRunning, ClaimIsHeld
<1>5. PendingInv'
  BY <1>3 DEF PendingInv, ClaimedIsStored, QueuedIsPending, BegunIsPending
<1> QED BY <1>2, <1>4, <1>5

LEMMA InitInv == Init => Inv
<1> SUFFICES ASSUME Init
             PROVE  Inv
  OBVIOUS
<1>1. TypeOK
  BY InitType
<1>2. DOMAIN queue = {} /\ \A w \in Workers : worker[w] = None
  BY DEF Init
<1>3. \A u \in Uploads : ~Open(u)
  BY DEF Init, Open
<1>4. ClaimInv
  BY <1>2 DEF Init, ClaimInv, QueuedIsClaimed, RunningIsClaimed, QueuedOnce, RunningOnce,
              NotQueuedAndRunning, ClaimIsHeld
<1>5. BatchInv
  BY <1>3 DEF BatchInv, BatchIsNew, BatchOnce, BatchesApart
<1>6. PendingInv
  BY <1>2 DEF Init, PendingInv, ClaimedIsStored, QueuedIsPending, BegunIsPending
<1> QED BY <1>1, <1>4, <1>5, <1>6 DEF Inv

LEMMA NextInv == Inv /\ [Next]_vars => Inv'
<1> SUFFICES ASSUME Inv, [Next]_vars
             PROVE  Inv'
  OBVIOUS
<1>1. TypeOK'
  BY NextType DEF Inv
<1>2. CASE UNCHANGED vars
  <2>1. UNCHANGED <<doc, upload, claimed, queue, worker>> /\ \A u \in Uploads : Open(u)' <=> Open(u)
    BY <1>2 DEF vars, Open
  <2>2. ClaimInv'
    BY <2>1, SameJobsClaims DEF Inv, SameWork
  <2>3. BatchInv' /\ PendingInv'
    BY <2>1 DEF Inv, BatchInv, BatchIsNew, BatchOnce, BatchesApart,
                PendingInv, ClaimedIsStored, QueuedIsPending, BegunIsPending
  <2> QED BY <1>1, <2>2, <2>3 DEF Inv
<1>3. CASE TriggerCheck
  <2>1. ClaimInv' /\ BatchInv' /\ PendingInv'
    BY <1>3, StartCheckInv DEF TriggerCheck, SameWork
  <2> QED BY <1>1, <2>1 DEF Inv
<1> QED BY <1>1, <1>2, <1>3, UploadInv, WorkInv, CrashInv DEF Next, Inv

LEMMA InvCorrect == Spec => []Inv
BY InitInv, NextInv, PTL DEF Spec

-----------------------------------------------------------------------------
(* What positions say, sets of jobs say. *)
LEMMA ClaimInvExact ==
    ASSUME ClaimInv
    PROVE  ClaimsAreExact
<1>1. claimed = {queue[i] : i \in DOMAIN queue} \cup
                {worker[w].job : w \in {v \in Workers : worker[v] # None}}
  BY DEF ClaimInv, QueuedIsClaimed, RunningIsClaimed, ClaimIsHeld
<1> QED BY <1>1 DEF ClaimInv, ClaimsAreExact, QueuedOnce, RunningOnce, NotQueuedAndRunning

(* What a step may do to a stored document. *)
LEMMA StepUnderClaim ==
    ASSUME Inv, [Next]_vars, NEW d \in Docs, doc[d] # "absent", doc'[d] # doc[d]
    PROVE  /\ d \in claimed
           /\ doc'[d] # "pending"
           /\ doc'[d] = "processing" => doc[d] = "pending"
<1>1. ASSUME NEW u \in Uploads, Serve(u)
      PROVE  FALSE
  <2>1. ASSUME NEW e \in Docs, doc[e] = "absent", doc' = [doc EXCEPT ![e] = "pending"]
        PROVE  FALSE
    BY <2>1 DEF Inv, TypeOK
  <2> QED BY <1>1, <2>1 DEF Serve, BeginUpload, StoreFile, StoreLast, RejectFile
<1>2. ASSUME NEW w \in Workers, Work(w) \/ Fault(w)
      PROVE  /\ d \in claimed
             /\ doc'[d] # "pending"
             /\ doc'[d] = "processing" => doc[d] = "pending"
  <2>1. ASSUME NEW status, worker[w] # None, SetStatus(w, status), status # "pending",
               status = "processing" => doc[worker[w].job] = "pending"
        PROVE  /\ d \in claimed
               /\ doc'[d] # "pending"
               /\ doc'[d] = "processing" => doc[d] = "pending"
    <3>1. worker[w].job \in claimed
      BY <2>1 DEF Inv, ClaimInv, RunningIsClaimed
    <3>2. d = worker[w].job /\ doc'[d] = status
      BY <2>1 DEF SetStatus, Inv, TypeOK
    <3> QED BY <2>1, <3>1, <3>2
  <2>2. CASE ExtractionBegin(w)
    BY <2>1, <2>2 DEF ExtractionBegin, At, Inv, PendingInv, BegunIsPending
  <2>3. CASE Record(w) \/ RecordFailure(w)
    BY <2>1, <2>3 DEF Record, RecordFailure, At
  <2>4. CASE UNCHANGED doc
    BY <2>4
  <2> QED BY <1>2, <2>2, <2>3, <2>4
          DEF Work, Fault, Dequeue, Extract, Count, AutoTrigger, CheckRead, CheckReport,
              Release, Raise, HandlerRaises
<1>3. CASE UNCHANGED doc
  BY <1>3
<1> QED BY <1>1, <1>2, <1>3 DEF Next, TriggerCheck, Crash, vars

(* Overlapping uploads, failing jobs and restarts included, a document or the
   check is claimed exactly while one job for it is queued or running
   (jobs._claim_doc, _claim_discrepancy and their releases).                *)
THEOREM ClaimsCorrect == Spec => []ClaimsAreExact
<1>1. Inv => ClaimsAreExact
  BY ClaimInvExact DEF Inv
<1> QED BY <1>1, InvCorrect, PTL

(* "each document_id is only ever updated by the one job thread processing
   it" (db.update_document), for any number of documents, overlapping uploads
   and workers, failing jobs and restarts: a stored document changes only
   while it is claimed.                                                     *)
THEOREM UnderClaimCorrect == Spec => DocumentsUnderClaim
<1>1. Inv /\ [Next]_vars =>
          [\A d \in Docs :
              doc[d] # "absent" /\ doc'[d] # doc[d] =>
                  /\ d \in claimed
                  /\ doc'[d] # "pending"
                  /\ doc'[d] = "processing" => doc[d] = "pending"]_vars
  BY StepUnderClaim
<1> QED BY <1>1, InvCorrect, PTL DEF Spec, DocumentsUnderClaim

-----------------------------------------------------------------------------
(* The uploads of clients that wait for their answers.  At most one is open;
   the documents stored and those still to come fit under the cap, and what
   the record listed when it began is what it lists now.                    *)

OneOpen == \A u, v \in Uploads : Open(u) /\ Open(v) => u = v

Fits == \A u \in Uploads : Open(u) => Cardinality(Stored) + upload[u].left <= Cap

BaseIsCurrent == \A u \in Uploads : Open(u) => evidence \subseteq upload[u].base

StartedIsListed ==
    \A d \in Docs : d \in claimed \/ doc[d] \notin {"absent", "pending"} => d \in evidence

KeptInv ==
    /\ Cardinality(Stored) <= Cap
    /\ OneOpen
    /\ Fits
    /\ BaseIsCurrent
    /\ StartedIsListed

LEMMA StoredIsFinite == IsFiniteSet(Stored) /\ Cardinality(Stored) \in Nat
<1>1. IsFiniteSet(Stored)
  BY BoundAssumption, FS_Subset DEF Stored
<1> QED BY <1>1, FS_CardinalityType

LEMMA StoresOne ==
    ASSUME TypeOK, NEW d \in Docs, doc[d] = "absent", doc' = [doc EXCEPT ![d] = "pending"]
    PROVE  Cardinality(Stored') = Cardinality(Stored) + 1
<1>1. Stored' = Stored \cup {d} /\ d \notin Stored
  BY DEF Stored, TypeOK
<1> QED BY <1>1, StoredIsFinite, FS_AddElement

(* A step that stores nothing, opens no upload, lists nothing and claims at
   most the check.                                                          *)
LEMMA QuietKept ==
    ASSUME KeptInv, UNCHANGED evidence, Stored' = Stored,
           claimed' \subseteq claimed \cup {"check"},
           \A d \in Docs : doc'[d] # doc[d] => d \in claimed,
           \A u \in Uploads : Open(u)' =>
               /\ Open(u)
               /\ upload'[u].left = upload[u].left
               /\ upload'[u].base = upload[u].base
    PROVE  KeptInv'
<1>1. Cardinality(Stored') <= Cap /\ Fits'
  BY DEF KeptInv, Fits
<1>2. OneOpen' /\ BaseIsCurrent'
  BY DEF KeptInv, OneOpen, BaseIsCurrent
<1>3. StartedIsListed'
  BY CheckAssumption DEF KeptInv, StartedIsListed
<1> QED BY <1>1, <1>2, <1>3 DEF KeptInv

LEMMA UploadKept ==
    ASSUME ~Overlapping, Inv, KeptInv, NEW u \in Uploads, Serve(u)
    PROVE  KeptInv'
<1>1. ASSUME NEW n \in 1 .. MaxFiles, BeginUpload(u, n)
      PROVE  KeptInv'
  <2>1. /\ \A v \in Uploads : ~Open(v)
        /\ Cardinality(Stored) + n <= Cap
        /\ upload' = [upload EXCEPT ![u] = [state |-> "open", base |-> evidence,
                                            created |-> <<>>, left |-> n]]
        /\ UNCHANGED <<doc, evidence, claimed>>
    BY <1>1 DEF BeginUpload, Admitted
  <2>2. \A v \in Uploads : Open(v)' => v = u
    BY <2>1 DEF Open, Inv, TypeOK
  <2>3. upload'[u].left = n /\ upload'[u].base = evidence
    BY <2>1 DEF Inv, TypeOK
  <2>4. Stored' = Stored
    BY <2>1 DEF Stored
  <2>5. OneOpen' /\ Fits' /\ BaseIsCurrent'
    BY <2>1, <2>2, <2>3, <2>4 DEF OneOpen, Fits, BaseIsCurrent
  <2>6. StartedIsListed'
    BY <2>1 DEF KeptInv, StartedIsListed
  <2> QED BY <2>4, <2>5, <2>6 DEF KeptInv
<1>2. ASSUME NEW d \in Docs, StoreFile(u, d)
      PROVE  KeptInv'
  <2>1. /\ Open(u) /\ upload[u].left > 1
        /\ doc[d] = "absent" /\ doc' = [doc EXCEPT ![d] = "pending"]
        /\ UNCHANGED <<evidence, claimed>>
    BY <1>2 DEF StoreFile
  <2>2. upload[u] \in Upload /\ upload[u].left \in Nat
    BY BoundAssumption DEF Inv, TypeOK, Upload
  <2>3. /\ upload'[u].left = upload[u].left - 1
        /\ upload'[u].base = upload[u].base
        /\ \A v \in Uploads : v # u => upload'[v] = upload[v]
    <3>1. upload' = [upload EXCEPT ![u] =
                        [upload[u] EXCEPT !.created = Append(@, d), !.left = @ - 1]]
      BY <1>2 DEF StoreFile
    <3>2. /\ [upload[u] EXCEPT !.created = Append(@, d), !.left = @ - 1].left = upload[u].left - 1
          /\ [upload[u] EXCEPT !.created = Append(@, d), !.left = @ - 1].base = upload[u].base
      BY <2>2 DEF Upload
    <3> QED BY <3>1, <3>2 DEF Inv, TypeOK
  <2>4. \A v \in Uploads : Open(v)' => v = u
    BY <2>1, <2>3 DEF KeptInv, OneOpen, Open
  <2>5. /\ Cardinality(Stored') = Cardinality(Stored) + 1
        /\ Cardinality(Stored) \in Nat
        /\ Cardinality(Stored) + upload[u].left <= Cap
    BY <2>1, StoresOne, StoredIsFinite DEF Inv, KeptInv, Fits
  <2>6. Cardinality(Stored') <= Cap /\ Cardinality(Stored') + upload'[u].left <= Cap
    BY <2>1, <2>2, <2>3, <2>5, BoundAssumption
  <2>7. OneOpen' /\ Fits'
    BY <2>4, <2>6 DEF OneOpen, Fits
  <2>8. BaseIsCurrent'
    BY <2>1, <2>3, <2>4 DEF KeptInv, BaseIsCurrent
  <2>9. StartedIsListed'
    BY <2>1 DEF KeptInv, StartedIsListed, Inv, TypeOK
  <2> QED BY <2>6, <2>7, <2>8, <2>9 DEF KeptInv
<1>3. ASSUME NEW d \in Docs, StoreLast(u, d)
      PROVE  KeptInv'
  <2> DEFINE batch == Append(upload[u].created, d)
  <2>1. /\ Open(u) /\ upload[u].left = 1
        /\ doc[d] = "absent" /\ doc' = [doc EXCEPT ![d] = "pending"]
        /\ evidence' = upload[u].base \cup Range(batch)
        /\ claimed' = claimed \cup Range(batch)
        /\ Close(u)
    BY <1>3 DEF StoreLast, ListEvidence, StartExtractions
  <2> HIDE DEF batch
  <2>2. \A v \in Uploads : ~Open(v)'
    BY <2>1, Closes DEF Inv, KeptInv, OneOpen
  <2>3. Cardinality(Stored') <= Cap
    <3>1. Cardinality(Stored') = Cardinality(Stored) + 1
      BY <2>1, StoresOne DEF Inv
    <3>2. Cardinality(Stored) + 1 <= Cap
      BY <2>1 DEF KeptInv, Fits
    <3> QED BY <3>1, <3>2
  <2>4. evidence \subseteq evidence'
    BY <2>1 DEF KeptInv, BaseIsCurrent
  <2>5. StartedIsListed'
    BY <2>1, <2>4 DEF KeptInv, StartedIsListed, Inv, TypeOK
  <2> QED BY <2>2, <2>3, <2>5 DEF KeptInv, OneOpen, Fits, BaseIsCurrent
<1>4. CASE RejectFile(u)
  <2>1. Close(u) /\ UNCHANGED <<doc, evidence, claimed>>
    BY <1>4 DEF RejectFile
  <2>2. \A v \in Uploads : Open(v)' => Open(v) /\ upload'[v] = upload[v]
    BY <2>1, Closes DEF Inv
  <2>3. Stored' = Stored
    BY <2>1 DEF Stored
  <2> QED BY <2>1, <2>2, <2>3, QuietKept
<1> QED BY <1>1, <1>2, <1>3, <1>4 DEF Serve

LEMMA WorkKept ==
    ASSUME Inv, KeptInv, NEW w \in Workers, Work(w) \/ Fault(w)
    PROVE  KeptInv'
<1>1. UNCHANGED <<evidence, upload>>
  BY DEF Work, Fault, Dequeue, ExtractionBegin, Extract, Record, Count, AutoTrigger, CheckRead,
         CheckReport, RecordFailure, Release, Raise, HandlerRaises
<1>2. claimed' \subseteq claimed \cup {"check"}
  BY DEF Work, Fault, Dequeue, ExtractionBegin, Extract, Record, Count, AutoTrigger, CheckRead,
         CheckReport, RecordFailure, Release, Raise, HandlerRaises, StartCheck
<1>3. \A d \in Docs : doc'[d] # doc[d] => d \in claimed /\ doc[d] # "absent" /\ doc'[d] # "absent"
  <2>1. CASE Dequeue(w) \/ Release(w)
    BY <2>1 DEF Dequeue, Release
  <2>2. CASE ~(Dequeue(w) \/ Release(w))
    <3>1. JobStep(w)
      BY <2>2, JobStepsAreSo DEF Work, Fault
    <3>2. worker[w].job \in claimed
      BY <3>1 DEF JobStep, Inv, ClaimInv, RunningIsClaimed
    <3> QED BY <3>1, <3>2 DEF JobStep, Inv, PendingInv, ClaimedIsStored
  <2> QED BY <2>1, <2>2
<1>4. Stored' = Stored
  BY <1>3 DEF Stored
<1> QED BY <1>1, <1>2, <1>3, <1>4, QuietKept DEF Open

LEMMA NextKept ==
    ASSUME ~Overlapping, Inv, KeptInv, [Next]_vars
    PROVE  KeptInv'
<1>1. CASE UNCHANGED vars
  <2>1. UNCHANGED <<doc, evidence, upload, claimed>> /\ Stored' = Stored
    BY <1>1 DEF vars, Stored
  <2> QED BY <2>1, QuietKept DEF Open
<1>2. CASE TriggerCheck
  <2>1. /\ UNCHANGED <<doc, evidence, upload>> /\ Stored' = Stored
        /\ claimed' \subseteq claimed \cup {"check"}
    BY <1>2 DEF TriggerCheck, StartCheck, Stored
  <2> QED BY <2>1, QuietKept DEF Open
<1>3. CASE Crash
  <2>1. /\ UNCHANGED <<doc, evidence>> /\ Stored' = Stored
        /\ claimed' \subseteq claimed \cup {"check"}
    BY <1>3 DEF Crash, Stored
  <2>2. \A u \in Uploads : ~Open(u)'
    BY <1>3, CrashCloses DEF Inv
  <2> QED BY <2>1, <2>2, QuietKept
<1> QED BY <1>1, <1>2, <1>3, UploadKept, WorkKept DEF Next

(* For any cap, any number of documents, workers and restarts: as long as no
   client uploads before its last upload was answered, the table holds no more
   documents than the cap, and the case record lists every document a job was
   started for (upload_documents).                                          *)
THEOREM UploadsKept ==
    ASSUME ~Overlapping
    PROVE  Spec => []UploadsAreKept
<1>1. Init => KeptInv
  <2> SUFFICES ASSUME Init
               PROVE  KeptInv
    OBVIOUS
  <2>1. Stored = {} /\ \A u \in Uploads : ~Open(u)
    BY DEF Init, Stored, Open
  <2>2. Cardinality(Stored) <= Cap
    BY <2>1, FS_EmptySet, BoundAssumption
  <2>3. StartedIsListed
    BY DEF Init, StartedIsListed
  <2> QED BY <2>1, <2>2, <2>3 DEF KeptInv, OneOpen, Fits, BaseIsCurrent
<1>2. Inv /\ KeptInv /\ [Next]_vars => KeptInv'
  BY NextKept
<1>3. KeptInv => UploadsAreKept
  BY DEF KeptInv, StartedIsListed, UploadsAreKept
<1> QED BY <1>1, <1>2, <1>3, InvCorrect, PTL DEF Spec
=============================================================================
