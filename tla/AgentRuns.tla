------------------------------ MODULE AgentRuns ------------------------------
(***************************************************************************)
(* What the background jobs promise about the agents' side of a case       *)
(* (app/jobs.py), without queue, workers, requests or copies: at most one  *)
(* phase of the agents is active on a case, a proposal comes out of an     *)
(* active pipeline only, an order out of an active resolution only, and it *)
(* is drawn up from the blackboard the case has at that moment.            *)
(***************************************************************************)
CONSTANTS Cases, Submissions, None

VARIABLES
    active,   \* the phase the agents are in on each case, or None
    outcome   \* what the agents have put on each case's record

runs == <<active, outcome>>

Basis == Submissions \cup {None}

Nothing == [ctx |-> None, mediation |-> None, resolution |-> None,
            escalation |-> None]

Init ==
    /\ active = [c \in Cases |-> None]
    /\ outcome = [c \in Cases |-> Nothing]

(* A phase starts only on a case nothing is active on. *)
Start(c, phase) ==
    /\ active[c] = None
    /\ active' = [active EXCEPT ![c] = phase]
    /\ UNCHANGED outcome

Propose(c, basis, signoff) ==
    /\ active[c] = "pipeline"
    /\ outcome' = [outcome EXCEPT
           ![c].ctx = [basis |-> basis, full |-> TRUE, signoff |-> signoff],
           ![c].mediation = [basis |-> basis]]
    /\ UNCHANGED active

(* Checkpoint A. *)
Refuse(c, basis) ==
    /\ active[c] = "pipeline"
    /\ outcome' = [outcome EXCEPT
           ![c].ctx = [basis |-> basis, full |-> FALSE, signoff |-> FALSE],
           ![c].escalation = "pre_filter"]
    /\ UNCHANGED active

(* The order repeats what the blackboard on record says. *)
Resolve(c, via) ==
    /\ active[c] = "resolution"
    /\ outcome[c].ctx # None
    /\ outcome[c].ctx.full
    /\ outcome' = [outcome EXCEPT ![c].resolution =
           [basis |-> outcome[c].ctx.basis, via |-> via,
            signoff |-> outcome[c].ctx.signoff]]
    /\ UNCHANGED active

(* Checkpoint B. *)
Escalate(c) ==
    /\ active[c] = "resolution"
    /\ outcome[c].ctx # None
    /\ outcome' = [outcome EXCEPT ![c].escalation = "post_check"]
    /\ UNCHANGED active

(* The agents stop, with or without a result. *)
Stop(c) ==
    /\ active[c] # None
    /\ active' = [active EXCEPT ![c] = None]
    /\ UNCHANGED outcome

(* A restart stops everything. *)
Restart ==
    /\ active' = [c \in Cases |-> None]
    /\ UNCHANGED outcome

Next ==
    \/ \E c \in Cases, phase \in {"pipeline", "resolution"} : Start(c, phase)
    \/ \E c \in Cases, basis \in Basis, signoff \in BOOLEAN :
          Propose(c, basis, signoff)
    \/ \E c \in Cases, basis \in Basis : Refuse(c, basis)
    \/ \E c \in Cases, via \in BOOLEAN : Resolve(c, via)
    \/ \E c \in Cases : Escalate(c) \/ Stop(c)
    \/ Restart

Spec == Init /\ [][Next]_runs
=============================================================================
