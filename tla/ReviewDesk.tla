------------------------------- MODULE ReviewDesk -------------------------------
(***************************************************************************)
(* The reviewers' pages (app/routers/reviews.py): the queue, the decision  *)
(* on a case of it, the figures of the operations page, and those of the   *)
(* offline evaluation.  A reviewer acts on a list that was read some time  *)
(* ago.  What the agents and the parties do to a case is taken from        *)
(* CaseLifecycle as the changes of its status that a review can see.       *)
(***************************************************************************)
EXTENDS Naturals, FiniteSets

CONSTANTS
    Cases, Reviewers,
    MaxRuns,   \* bound on the outcomes a case's jobs write
    Snapshots, \* what the evaluation's file may hold: counts of verdicts
    None, Unreadable

BoundAssumption == MaxRuns \in Nat
CasesAssumption == IsFiniteSet(Cases)
SnapshotsAssumption ==
    Snapshots \subseteq [{"match", "partial", "mismatch", "judge_failed"} -> Nat]

VARIABLES
    case,     \* what the desk looks at of each record
    runs,     \* outcomes written so far
    page,     \* the queue as each reviewer has it on the screen
    request,  \* the decision of each reviewer that has passed its checks
    snapshot  \* the evaluation's file, None before it is first written

vars == <<case, runs, page, request, snapshot>>

desk == <<page, request, snapshot>>

Status == {"filed", "escalated", "resolved"}
Case == [status : Status, asked : BOOLEAN, signoff : BOOLEAN,
         decision : Reviewers \cup {None}]

Init ==
    /\ case = [c \in Cases |-> [status |-> "filed", asked |-> FALSE, signoff |-> FALSE,
                                decision |-> None]]
    /\ runs = 0
    /\ page = [r \in Reviewers |-> {}]
    /\ request = [r \in Reviewers |-> None]
    /\ snapshot \in Snapshots \cup {None, Unreadable}

-----------------------------------------------------------------------------
(* A job's outcome; an order may ask for a human signature. *)
Outcome(c, status, signoff) ==
    /\ runs < MaxRuns
    /\ signoff => status = "resolved"
    /\ runs' = runs + 1
    /\ case' = [case EXCEPT ![c].status = status,
                            ![c].signoff = IF status = "resolved" THEN signoff ELSE @]
    /\ UNCHANGED desk

RequestReview(c) ==
    /\ ~case[c].asked
    /\ case' = [case EXCEPT ![c].asked = TRUE]
    /\ UNCHANGED <<runs, desk>>

Reasons(c) ==
    {reason \in {"escalated", "requested", "signature"} :
        \/ reason = "escalated" /\ case[c].status = "escalated"
        \/ reason = "requested" /\ case[c].asked
        \/ reason = "signature" /\ case[c].status = "resolved" /\ case[c].signoff}

NeedsReview(c) == Reasons(c) # {} /\ case[c].decision = None

ReviewQueue(r) ==
    /\ page' = [page EXCEPT ![r] = {c \in Cases : NeedsReview(c)}]
    /\ UNCHANGED <<case, runs, request, snapshot>>

(* Mutant of CheckDecision: what is on the screen is not checked again. *)
CheckDecisionListed(r, c) ==
    /\ request[r] = None
    /\ c \in page[r]
    /\ request' = [request EXCEPT ![r] = [case |-> c, over |-> {}]]
    /\ UNCHANGED <<case, runs, page, snapshot>>

(* submit_decision: the checks, on the record as it is now; `over` is what  *)
(* another reviewer may still decide in between.                            *)
CheckDecision(r, c) ==
    /\ request[r] = None
    /\ c \in page[r]
    /\ NeedsReview(c)
    /\ request' = [request EXCEPT ![r] = [case |-> c, over |-> {}]]
    /\ UNCHANGED <<case, runs, page, snapshot>>

(* ... and the write. *)
WriteDecision(r) ==
    /\ request[r] # None
    /\ LET c == request[r].case IN
       /\ case' = [case EXCEPT ![c].status = "resolved", ![c].decision = r]
       /\ request' = [s \in Reviewers |->
              IF s = r THEN None
              ELSE IF request[s] # None /\ request[s].case = c
                   THEN [request[s] EXCEPT !.over = @ \cup {r}] ELSE request[s]]
    /\ UNCHANGED <<runs, page, snapshot>>

-----------------------------------------------------------------------------
(* ops-metrics: all cases, of one moment. *)
OpsMetrics ==
    LET with == [status \in Status |-> Cardinality({c \in Cases : case[c].status = status})]
    IN [total |-> Cardinality(Cases), escalated |-> with["escalated"],
        terminal |-> with["escalated"] + with["resolved"],
        awaiting |-> Cardinality({c \in Cases : NeedsReview(c)})]

(* eval-metrics: no figures without a file that can be read; cases the judge *)
(* failed on are not graded, and without graded ones there is no rate.       *)
EvalMetrics ==
    IF snapshot \in {None, Unreadable} THEN None
    ELSE LET hits == snapshot["match"] + snapshot["partial"]
             graded == hits + snapshot["mismatch"]
         IN [sample |-> graded + snapshot["judge_failed"], hits |-> hits, graded |-> graded]

Next ==
    \/ \E c \in Cases : RequestReview(c)
    \/ \E c \in Cases, status \in Status \ {"filed"}, signoff \in BOOLEAN :
           Outcome(c, status, signoff)
    \/ \E r \in Reviewers : ReviewQueue(r) \/ WriteDecision(r)
    \/ \E r \in Reviewers, c \in Cases : CheckDecision(r, c)

Spec == Init /\ [][Next]_vars
-----------------------------------------------------------------------------
(* The type invariant; the rates of the two pages are fractions. *)
TypeOK ==
    /\ case \in [Cases -> Case]
    /\ runs \in 0 .. MaxRuns
    /\ page \in [Reviewers -> SUBSET Cases]
    /\ \A r \in Reviewers : request[r] # None =>
           request[r] \in [case : Cases, over : SUBSET Reviewers]
    /\ OpsMetrics.escalated <= OpsMetrics.terminal /\ OpsMetrics.terminal <= OpsMetrics.total
    /\ EvalMetrics # None => EvalMetrics.hits <= EvalMetrics.graded
                             /\ EvalMetrics.graded <= EvalMetrics.sample

(* "This case has already been reviewed": a decision is replaced only by    *)
(* one whose request had passed its checks before the first was written.    *)
StandsOrOverlapped ==
    \A c \in Cases :
        case[c].decision # None /\ case'[c].decision # case[c].decision =>
            \E r \in Reviewers : /\ request[r] # None /\ request[r].case = c
                                  /\ case[c].decision \in request[r].over

DecisionsStandUnlessOverlapped == [][StandsOrOverlapped]_vars
=============================================================================
