------------------------------ MODULE AgentGraph ------------------------------
(***************************************************************************)
(* The agents' work on one case, step by step: the orchestration graph     *)
(* (app/core/graph.py), the safety gate (app/core/safety_gate.py), the     *)
(* scores, routing and settlement rule of the agents (app/agents) and what *)
(* the two jobs put on the record (app/jobs.py).  CaseLifecycle has all of *)
(* this as the two steps PipelineAgents and ResolutionAgents.              *)
(*                                                                         *)
(* What reads free text or asks a language model is a choice: a Reading of *)
(* the documents, a Retrieval, how strong a defence is, a model's Reply to *)
(* the settlement prompt, the citations it selects.  What the code computes *)
(* from that is modelled by what it computes: strengths and confidences in *)
(* hundredths, ratios, coverage and composite scores in thousandths.       *)
(***************************************************************************)
EXTENDS Integers

CONSTANTS
    Filings,     \* the claims that may be filed
    Responses,   \* the submissions the other party may make
    Readings,    \* what Agent 1 may make of the narrative and the documents
    Retrievals,  \* what Agent 2 may find
    Defences,    \* how strong Agent 3 may find a defence, in hundredths
    Replies,     \* what the model may answer Agent 4
    Selections,  \* the citations Agent 5 may propose
    None,        \* Python's None
    Reopening,   \* whether parties respond again once a job left a blackboard
    MaxPhases    \* bound on the number of jobs started

VARIABLES
    filing,    \* the claim as filed
    response,  \* the record's respondent_submission
    record,    \* the fields of the record the jobs write
    phase,     \* the phase the case is claimed for, or None
    node,      \* where the job is in the graph
    ctx,       \* the job's blackboard
    phases     \* jobs started so far

vars == <<filing, response, record, phase, node, ctx, phases>>

-----------------------------------------------------------------------------
(* The data. *)

(* DISPUTE_TYPES, each as the type it behaves as. *)
DisputeType == {"consumer_dispute", "money_recovery", "contract_breach",
                "cheque_bounce"}

(* detect_relief_type, as far as the rules tell its answers apart. *)
Relief == {"monetary", "possession", "injunction", "reinstatement",
           "arbitration_referral"}

(* What the safety gate's keyword lists match in a text. *)
Flag == {"criminal_matter", "out_of_scope"}

(* A claim: whether its amount is positive, how many items of evidence the
   record lists, whether the narrative mentions a documentary instrument.   *)
Filing == [type : DisputeType, quantified : BOOLEAN, evidence : Nat,
           instrument : BOOLEAN, flags : SUBSET Flag]

(* `counter` is the counter-offer in hundredths of the claim. *)
Response == [stance : {"accepts", "defaulted", "disputes"}, counter : 0 .. 100,
             flags : SUBSET Flag]

Reading == [subtype : BOOLEAN,     \* a recognised grievance
            signals : BOOLEAN,     \* at least two legal signals
            relevant : Nat,        \* documents that support the claim
            irrelevant : BOOLEAN,  \* some document does not
            relief : Relief]

(* Number of precedents, their best and mean relief ratio, the coverage. *)
Retrieval == [found : Nat, best : 0 .. 1000, mean : 0 .. 1000,
              coverage : 0 .. 1000, thin : BOOLEAN]

(* rag.retrieve: an empty category scores full coverage, as if its best match
   were exact; what counts as thin depends on the method.                   *)
Ranked(retrieval) ==
    /\ retrieval.mean <= retrieval.best
    /\ retrieval.found = 0 => retrieval.coverage = 1000
    /\ retrieval.coverage < 300 => retrieval.thin
    /\ retrieval.coverage >= 450 => ~retrieval.thin

(* The model's ratio, None when it is no number (a NaN is left out); whether
   the compliance window is one the validator has to normalise.             *)
Reply == [ratio : Int \cup {None}, oddDays : BOOLEAN]

Selection == [proposed : Nat, verified : Nat]

ASSUME DataAssumption ==
    /\ Filings \subseteq Filing
    /\ Responses \subseteq Response
    /\ Readings \subseteq Reading
    /\ Retrievals \subseteq {r \in Retrieval : Ranked(r)}
    /\ Defences \subseteq 0 .. 100
    /\ Replies \subseteq Reply
    /\ Selections \subseteq {s \in Selection : s.verified <= s.proposed}
    /\ Reopening \in BOOLEAN
    /\ MaxPhases \in Nat

Ingestion == [confidence : 0 .. 98, relief : Relief, relevant : Nat, tier : 1 .. 2]

Analysis == [claimant : 10 .. 97, respondent : 15 .. 85, again : BOOLEAN]

(* `basis` is the submission the proposal was worked out from, `notes` how
   often the validator corrected it, `amount` in thousandths of the claim.  *)
Kind == {"dismissed", "money"} \cup (Relief \ {"monetary"})
Proposal == [basis : Responses \cup {None}, kind : Kind, amount : 0 .. 1000,
             notes : Nat]

Order == [basis : Responses \cup {None}, kind : Kind, amount : 0 .. 1000,
          via : BOOLEAN, signoff : BOOLEAN, binding : BOOLEAN, score : Nat]

Checkpoint == {"pre_filter", "post_check"}

(* CaseContext.  `tier` is 0 until the case is routed. *)
Context ==
    [response : Responses \cup {None}, tier : 0 .. 2, retries : 0 .. 1,
     via : BOOLEAN, composite : Nat \cup {None},
     ingestion : Ingestion \cup {None}, research : Retrieval \cup {None},
     analysis : Analysis \cup {None}, mediation : Proposal \cup {None},
     resolution : Order \cup {None}]

(* What AgentRuns knows of a blackboard. *)
Reduction == [basis : Responses \cup {None}, full : BOOLEAN, signoff : BOOLEAN]

(* Python's None is none of the other values. *)
ASSUME NoneAssumption ==
    /\ None \notin Responses
    /\ None \notin Retrievals
    /\ None \notin Int
    /\ None \notin Ingestion
    /\ None \notin Analysis
    /\ None \notin Proposal
    /\ None \notin Order
    /\ None \notin Context
    /\ None \notin Reduction
    /\ None \notin {"pipeline", "resolution"} \cup Checkpoint

(* CaseContext.from_case *)
FromCase == [response |-> response, tier |-> 0, retries |-> 0, via |-> TRUE,
             composite |-> None, ingestion |-> None, research |-> None,
             analysis |-> None, mediation |-> None, resolution |-> None]

Record == [status : {"ready", "processing", "mediation_proposed",
                     "mediation_accepted", "resolved", "escalated", "error"},
           ctx : Context \cup {None}, mediation : Proposal \cup {None},
           resolution : Order \cup {None}, escalation : Checkpoint \cup {None}]

Node == {"idle", "gate", "ingest", "route", "research", "analyze", "mediate",
         "await", "resolve", "draft", "release"}

TypeOK ==
    /\ filing \in Filings
    /\ response \in Responses \cup {None}
    /\ record \in Record
    /\ phase \in {"pipeline", "resolution", None}
    /\ node \in Node
    /\ ctx \in Context \cup {None}
    /\ phases \in 0 .. MaxPhases

Least(a, b) == IF a <= b THEN a ELSE b
Greatest(a, b) == IF a >= b THEN a ELSE b
Clamp(x, low, high) == Least(Greatest(x, low), high)
If(condition, points) == IF condition THEN points ELSE 0

Init ==
    /\ filing \in Filings
    /\ response \in Responses \cup {None}
    /\ record = [status |-> "ready", ctx |-> None, mediation |-> None,
                 resolution |-> None, escalation |-> None]
    /\ phase = None
    /\ node = "idle"
    /\ ctx = None
    /\ phases = 0

-----------------------------------------------------------------------------
(* The parties: respond or skip-response, /run and the mediation decision.
   Their races are CaseLifecycle's: here a request and the job it starts are
   one step, and one that finds a job running does nothing.                 *)

Respond(submission) ==
    /\ Reopening \/ record.ctx = None
    /\ response' = submission
    /\ record' = [record EXCEPT !.status = "ready"]
    /\ UNCHANGED <<filing, phase, node, ctx, phases>>

Enter(newPhase, newNode) ==
    /\ phase = None
    /\ phases < MaxPhases
    /\ phase' = newPhase
    /\ node' = newNode
    /\ phases' = phases + 1

StartPipeline ==
    /\ record.status \in {"ready", "error"}
    /\ Enter("pipeline", "gate")
    /\ ctx' = FromCase
    /\ record' = [record EXCEPT !.status = "processing"]
    /\ UNCHANGED <<filing, response>>

(* Mutant of Decide: the blackboard takes the current submission. *)
DecideAfresh(accept) ==
    /\ record.ctx # None
    /\ record.status \notin {"resolved", "escalated"}
    /\ Enter("resolution", "resolve")
    /\ ctx' = [record.ctx EXCEPT !.via = accept, !.response = response]
    /\ record' = [record EXCEPT
           !.status = IF accept THEN "mediation_accepted" ELSE "processing"]
    /\ UNCHANGED <<filing, response>>

Decide(accept) ==
    /\ record.ctx # None
    /\ record.status \notin {"resolved", "escalated"}
    /\ Enter("resolution", "resolve")
    /\ ctx' = [record.ctx EXCEPT !.via = accept]
    /\ record' = [record EXCEPT
           !.status = IF accept THEN "mediation_accepted" ELSE "processing"]
    /\ UNCHANGED <<filing, response>>

-----------------------------------------------------------------------------
(* Checkpoint A, Agent 1 and the route. *)

Work(n) == phase # None /\ node = n

(* Mutant of Texts: the submission is not looked at. *)
TextsFiled(answer) == filing.flags

(* _combined_text: the narrative and the statement. *)
Texts(answer) ==
    filing.flags \cup (IF answer = None THEN {} ELSE answer.flags)

(* A dishonoured cheque is prosecuted as a crime by nature. *)
Prefiltered(answer) ==
    \/ "criminal_matter" \in Texts(answer) /\ filing.type # "cheque_bounce"
    \/ "out_of_scope" \in Texts(answer)

CheckpointA ==
    /\ Work("gate")
    /\ IF Prefiltered(ctx.response)
       THEN /\ record' = [record EXCEPT !.status = "escalated", !.ctx = ctx,
                                        !.escalation = "pre_filter"]
            /\ node' = "release"
       ELSE /\ node' = "ingest"
            /\ UNCHANGED record
    /\ UNCHANGED <<filing, response, phase, ctx, phases>>

(* Agent 1's classification confidence. *)
Confidence(reading) ==
    Clamp(40 + If(reading.subtype, 25)
             + 10 * Least(reading.relevant, 2)
             + If(filing.quantified, 10)
             + If(reading.signals, 5)
             - If(reading.irrelevant /\ reading.relevant = 0, 15), 0, 98)

(* Mutant of Autonomous: any kind of relief. *)
AutonomousRelief(reading) ==
    /\ filing.type = "consumer_dispute"
    /\ filing.quantified
    /\ reading.relevant >= 1
    /\ reading.subtype
    /\ Confidence(reading) >= 60

(* TIER1_ELIGIBLE_TYPES and the rest of what Tier 1 demands. *)
Autonomous(reading) ==
    /\ filing.type = "consumer_dispute"
    /\ filing.quantified
    /\ reading.relevant >= 1
    /\ reading.subtype
    /\ reading.relief = "monetary"
    /\ Confidence(reading) >= 60

Ingest ==
    /\ Work("ingest")
    /\ \E reading \in Readings :
          ctx' = [ctx EXCEPT !.ingestion =
              [confidence |-> Confidence(reading), relief |-> reading.relief,
               relevant |-> reading.relevant,
               tier |-> IF Autonomous(reading) THEN 1 ELSE 2]]
    /\ node' = "route"
    /\ UNCHANGED <<filing, response, record, phase, phases>>

Route ==
    /\ Work("route")
    /\ ctx' = [ctx EXCEPT !.tier = ctx.ingestion.tier]
    /\ node' = "research"
    /\ UNCHANGED <<filing, response, record, phase, phases>>

-----------------------------------------------------------------------------
(* Agents 2 and 3, and the loop between them. *)

Research ==
    /\ Work("research")
    /\ \E retrieval \in Retrievals : ctx' = [ctx EXCEPT !.research = retrieval]
    /\ node' = "analyze"
    /\ UNCHANGED <<filing, response, record, phase, phases>>

Items == Least(filing.evidence, 3)

ClaimantStrength(answer) ==
    IF answer = None \/ (answer # None /\ answer.stance = "defaulted")
    THEN Least(55 + 13 * Items, 97)
    ELSE IF answer.stance = "accepts"
    THEN Least(60 + 12 * Items, 97)
    ELSE Least(20 + 13 * Items + If(filing.instrument, 15), 85)

RespondentStrength(answer, defence) ==
    IF answer # None /\ answer.stance = "disputes"
    THEN Clamp((4550 + 40 * defence - If(filing.quantified, 35 * answer.counter))
                   \div 100, 20, 85)
    ELSE 15

(* Mutant of AfterAnalyze: the retry is not counted. *)
AfterAnalyzeUncounted(board) ==
    IF board.analysis.again /\ board.retries < 1
    THEN [ctx |-> board, node |-> "research"]
    ELSE [ctx |-> board, node |-> "mediate"]

(* Mutant of AfterAnalyze: one retry too many. *)
AfterAnalyzeTwice(board) ==
    IF board.research.thin /\ board.retries < 2
    THEN [ctx |-> [board EXCEPT !.retries = @ + 1], node |-> "research"]
    ELSE [ctx |-> board, node |-> "mediate"]

(* TRANSITIONS["analyze"] *)
AfterAnalyze(board) ==
    IF board.analysis.again /\ board.retries < 1
    THEN [ctx |-> [board EXCEPT !.retries = @ + 1], node |-> "research"]
    ELSE [ctx |-> board, node |-> "mediate"]

Analyze ==
    /\ Work("analyze")
    /\ \E defence \in Defences :
          LET next == AfterAnalyze([ctx EXCEPT !.analysis =
                  [claimant |-> ClaimantStrength(ctx.response),
                   respondent |-> RespondentStrength(ctx.response, defence),
                   again |-> ctx.research.thin /\ ctx.retries < 1]])
          IN ctx' = next.ctx /\ node' = next.node
    /\ UNCHANGED <<filing, response, record, phase, phases>>

-----------------------------------------------------------------------------
(* Agent 4: the model proposes a ratio, the validator disposes. *)

Net == ctx.analysis.claimant - ctx.analysis.respondent

(* The best comparable case; nothing retrieved counts as a full award. *)
Best == IF ctx.research.found = 0 THEN 1000 ELSE ctx.research.best

Dismissed(ratio) == ratio < 50

(* The ratio after each rule of the validator, and how often it corrected. *)

(* Mutant of Ceiling: the precedents do not bound the award. *)
CeilingOpen(ratio) == Clamp(ratio, 0, 1000)

Ceiling(ratio) == Clamp(ratio, 0, Best)

(* Nothing for a claimant who is not ahead, something for one clearly ahead. *)
Merits(ratio, ahead) ==
    IF Net <= 0 /\ Ceiling(ratio) > 0
    THEN [ratio |-> 0, notes |-> 1]
    ELSE IF ahead /\ Dismissed(Ceiling(ratio))
    THEN [ratio |-> 100, notes |-> 1]
    ELSE [ratio |-> Ceiling(ratio), notes |-> If(Ceiling(ratio) # ratio, 1)]

(* An upheld money claim is decreed in full, but not a consumer's. *)
Decree(ruling) ==
    IF /\ filing.type # "consumer_dispute"
       /\ ctx.ingestion.relief = "monetary"
       /\ ~Dismissed(ruling.ratio)
       /\ ruling.ratio < 1000
    THEN [ratio |-> 1000, notes |-> ruling.notes + 1]
    ELSE ruling

(* _non_monetary_threshold *)
Threshold(relief) ==
    IF relief = "possession" /\ filing.type = "money_recovery" THEN 30 ELSE 50

KindOf(ratio) ==
    LET relief == ctx.ingestion.relief
    IN IF relief = "arbitration_referral" THEN relief
       ELSE IF relief # "monetary" /\ ctx.analysis.claimant >= Threshold(relief)
       THEN relief
       ELSE IF Dismissed(ratio) THEN "dismissed" ELSE "money"

(* _NO_INCIDENTAL_AMOUNT_KINDS *)
NoAmount == {"possession", "injunction", "arbitration_referral"}

(* Without a number from the model the scripted ratio stands: 1.4 times the
   net strength.  A net of exactly 0.1 is above the floor's bound or not, as
   the subtraction of the two floats rounds.                                *)
Mediate ==
    /\ Work("mediate")
    /\ \E reply \in Replies \cup {None}, rounding, oddMedian \in BOOLEAN :
          LET scripted == Clamp(14 * Net, 0, 1000)
              ratio == IF reply = None \/ (reply # None /\ reply.ratio = None)
                       THEN scripted ELSE reply.ratio
              odd == IF reply = None THEN oddMedian ELSE reply.oddDays
              award == Decree(Merits(ratio, Net > 10 \/ (Net = 10 /\ rounding)))
              kind == KindOf(award.ratio)
          IN ctx' = [ctx EXCEPT !.mediation =
                 [basis |-> ctx.response, kind |-> kind,
                  amount |-> If(filing.quantified /\ kind \notin NoAmount,
                                award.ratio),
                  notes |-> award.notes + If(odd, 1) +
                            If(reply # None /\ reply.ratio = None, 1)]]
    /\ node' = "await"
    /\ UNCHANGED <<filing, response, record, phase, phases>>

(* The pause for the parties' decision, and on_event's write. *)
Await ==
    /\ Work("await")
    /\ record' = [record EXCEPT !.status = "mediation_proposed", !.ctx = ctx,
                                !.mediation = ctx.mediation]
    /\ node' = "release"
    /\ UNCHANGED <<filing, response, phase, ctx, phases>>

-----------------------------------------------------------------------------
(* Agent 5 and checkpoint B. *)

Schema == Greatest(1000 - 150 * ctx.mediation.notes, 400)

(* The fraction of the proposed citations that were retrieved. *)
Cited(selection) ==
    IF selection.proposed = 0 THEN 500
    ELSE (2000 * selection.verified + selection.proposed)
             \div (2 * selection.proposed)

(* confidence.composite; a part no agent produced counts one half. *)
Composite(selection) ==
    LET ingestion == IF ctx.ingestion = None THEN 500
                     ELSE 10 * ctx.ingestion.confidence
        coverage == IF ctx.research = None THEN 500 ELSE ctx.research.coverage
        schema == IF ctx.mediation = None THEN 1000 ELSE Schema
    IN (35 * ingestion + 35 * coverage + 20 * schema + 10 * Cited(selection) + 50)
           \div 100

(* _select_citations: nothing without precedents, otherwise the model's
   choice or the best three.                                                *)
Selectable ==
    IF ctx.research = None \/ (ctx.research # None /\ ctx.research.found = 0)
    THEN {[proposed |-> 0, verified |-> 0]}
    ELSE {s \in Selections : s.proposed > 0} \cup
         {[proposed |-> Least(ctx.research.found, 3),
           verified |-> Least(ctx.research.found, 3)]}

(* _extract_composite_score prefers the score of an order on the blackboard. *)
Judged(score) ==
    IF ctx.resolution # None THEN ctx.resolution.score ELSE score

Ungrounded == ctx.research = None \/ (ctx.research # None /\ ctx.research.found < 2)

(* Precedents that favour one side, an analysis that favours the other. *)
Disagree ==
    /\ ctx.analysis # None
    /\ ctx.research # None
    /\ ctx.research.found > 0
    /\ \/ ctx.research.mean >= 700 /\ ctx.analysis.claimant < 50
       \/ ctx.research.mean <= 300 /\ ctx.analysis.claimant >= 75

Blocked(score) == Judged(score) < 400 \/ Ungrounded \/ Disagree

(* The composite score, the gate, and on_event's write when it blocks. *)
Resolve ==
    /\ Work("resolve")
    /\ \E selection \in Selectable :
          LET score == Composite(selection)
              scored == [ctx EXCEPT !.composite = score]
          IN /\ ctx' = scored
             /\ IF Blocked(score)
                THEN /\ record' = [record EXCEPT !.status = "escalated",
                             !.ctx = scored, !.escalation = "post_check"]
                     /\ node' = "release"
                ELSE /\ node' = "draft"
                     /\ UNCHANGED record
    /\ UNCHANGED <<filing, response, phase, phases>>

(* Consent binds, unless a human has to sign. *)
Binding == ctx.via /\ ctx.tier # 2

(* resolution.finalize and on_event's write. *)
Draft ==
    /\ Work("draft")
    /\ LET order == [basis |-> ctx.mediation.basis, kind |-> ctx.mediation.kind,
                     amount |-> ctx.mediation.amount, via |-> ctx.via,
                     signoff |-> ctx.tier = 2, binding |-> Binding,
                     score |-> ctx.composite]
           final == [ctx EXCEPT !.resolution = order]
       IN /\ ctx' = final
          /\ record' = [record EXCEPT !.status = "resolved", !.ctx = final,
                                      !.resolution = order]
    /\ node' = "release"
    /\ UNCHANGED <<filing, response, phase, phases>>

(* An agent raises: the blackboard is dropped, the status says error. *)
Raise ==
    /\ phase # None
    /\ node # "release"
    /\ record' = [record EXCEPT !.status = "error"]
    /\ node' = "release"
    /\ UNCHANGED <<filing, response, phase, ctx, phases>>

Release ==
    /\ Work("release")
    /\ phase' = None
    /\ node' = "idle"
    /\ ctx' = None
    /\ UNCHANGED <<filing, response, record, phases>>

-----------------------------------------------------------------------------
Agents ==
    \/ CheckpointA
    \/ Ingest
    \/ Route
    \/ Research
    \/ Analyze
    \/ Mediate
    \/ Await
    \/ Resolve
    \/ Draft
    \/ Release

Next ==
    \/ \E submission \in Responses \cup {None} : Respond(submission)
    \/ StartPipeline
    \/ \E accept \in BOOLEAN : Decide(accept)
    \/ Agents
    \/ Raise

Spec == Init /\ [][Next]_vars

(* The job's thread goes on; parties and failures owe nothing. *)
FairSpec == Spec /\ WF_vars(Agents)

-----------------------------------------------------------------------------
(* Properties. *)

(* The blackboard of the job and the one on record. *)
Boards == {ctx, record.ctx} \ {None}

(* Money goes only to a claimant whose case Agent 3 found stronger than the
   answer: neither the model's ratio nor the floor, the decree in full, a
   reinstatement with back wages or a later job puts an amount on a proposal
   or an order otherwise (mediation.run, resolution.finalize).              *)
AwardFollowsStrength ==
    \A board \in Boards : \A paper \in {board.mediation, board.resolution} :
        paper # None /\ paper.amount > 0 =>
            board.analysis.claimant > board.analysis.respondent

(* A consumer is never awarded more than the best precedent gave, but for the
   tenth of the claim that a claimant clearly ahead always gets.            *)
AwardWithinPrecedent ==
    \A board \in Boards :
        board.mediation # None /\ filing.type = "consumer_dispute" =>
            board.mediation.amount <=
                IF board.research.found = 0 THEN 1000
                ELSE Greatest(100, board.research.best)

(* Every award is founded: on the strengths, and on the precedents. *)
AwardIsFounded == AwardFollowsStrength /\ AwardWithinPrecedent

(* The agents bind the parties only to what was theirs to decide alone: a
   payment or a dismissal both sides accepted, on a quantified consumer claim
   that some document supports (ingestion, routing and drafting together, over
   two jobs and the record between them).                                   *)
BindingIsRoutine ==
    \A board \in Boards :
        board.resolution # None /\ board.resolution.binding =>
            /\ board.resolution.via
            /\ board.resolution.kind \in {"dismissed", "money"}
            /\ filing.type = "consumer_dispute"
            /\ filing.quantified
            /\ board.ingestion.relevant >= 1

(* No order without two precedents, although an empty retrieval counts as full
   coverage and as a full award on its way to checkpoint B.                 *)
OrderIsGrounded ==
    \A board \in Boards : board.resolution # None => board.research.found >= 2

(* The texts an order was worked out from name no crime and nothing out of
   scope: checkpoint A ran on that very submission, a job earlier.          *)
OrderIsInScope ==
    record.resolution # None =>
        LET basis == record.resolution.basis
        IN filing.flags \cup (IF basis = None THEN {} ELSE basis.flags)
               \subseteq (IF filing.type = "cheque_bounce"
                          THEN {"criminal_matter"} ELSE {})

(* Every order is founded: on precedents, and on texts that are in scope. *)
OrderIsFounded == OrderIsGrounded /\ OrderIsInScope

(* Every job ends: Research is repeated once, then the graph goes on. *)
JobEnds == phase # None ~> phase = None

(* The graph is what CaseLifecycle takes it for: with the blackboard reduced
   to its submission, whether Agents 1-4 filled it in and whether a human must
   sign, the two jobs do on this case what AgentRuns promises.              *)
Case == "case"

Reduced(board) ==
    IF board = None THEN None
    ELSE [basis |-> board.response, full |-> board.mediation # None,
          signoff |-> board.tier = 2]

Outcome ==
    [ctx |-> Reduced(record.ctx),
     mediation |-> IF record.mediation = None THEN None
                   ELSE [basis |-> record.mediation.basis],
     resolution |-> IF record.resolution = None THEN None
                    ELSE [basis |-> record.resolution.basis,
                          via |-> record.resolution.via,
                          signoff |-> record.resolution.signoff],
     escalation |-> record.escalation]

Runs == INSTANCE AgentRuns WITH
    Cases <- {Case}, Submissions <- Responses,
    active <- [c \in {Case} |-> phase],
    outcome <- [c \in {Case} |-> Outcome]

ImplementsAgentRuns == Runs!Spec

-----------------------------------------------------------------------------
(* What the repository says of the safety gate. *)

(* safety_gate.py: a case with "composite confidence below a hard floor (0.4)"
   is "escalated to a human legal authority instead of receiving an
   AI-generated mediation/resolution".                                      *)
OrderMeetsFloor == record.resolution # None => record.resolution.score >= 400
=============================================================================
