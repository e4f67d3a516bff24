-------------------------- MODULE AgentGraph_proofs --------------------------
(* Theorems about AgentGraph. *)
EXTENDS AgentGraph, TLAPS

(* The inductive invariant, part by part: operators of the claim, a board, an
   order or a node, which the steps below establish.                        *)

AwardOK(board) ==
    \A paper \in {board.mediation, board.resolution} :
        paper # None /\ paper.amount > 0 =>
            board.analysis.claimant > board.analysis.respondent

PrecedentOK(claim, board) ==
    board.mediation # None /\ claim.type = "consumer_dispute" =>
        board.mediation.amount <=
            IF board.research.found = 0 THEN 1000
            ELSE Greatest(100, board.research.best)

GroundedOK(board) == board.resolution # None => board.research.found >= 2

Routine(claim, board) ==
    /\ claim.type = "consumer_dispute"
    /\ claim.quantified
    /\ board.ingestion.relevant >= 1

(* Tier 1 is what Agent 1 found fit for it, and a board with a proposal has
   been routed.                                                             *)
TierOK(claim, board) ==
    /\ board.ingestion # None /\ board.ingestion.tier = 1 =>
          Routine(claim, board) /\ board.ingestion.relief = "monetary"
    /\ board.tier = 1 => board.ingestion # None /\ board.ingestion.tier = 1
    /\ board.mediation # None => board.tier # 0

(* A monetary claim is settled by money or dismissed. *)
KindOK(board) ==
    board.mediation # None /\ board.ingestion.relief = "monetary" =>
        board.mediation.kind \in {"dismissed", "money"}

RoutineOK(claim, board) ==
    board.resolution # None /\ board.resolution.binding =>
        /\ board.resolution.via
        /\ board.resolution.kind \in {"dismissed", "money"}
        /\ Routine(claim, board)

InScope(claim, answer) ==
    claim.flags \cup (IF answer = None THEN {} ELSE answer.flags)
        \subseteq (IF claim.type = "cheque_bounce" THEN {"criminal_matter"} ELSE {})

ScopeOK(claim, paper) == paper # None => InScope(claim, paper.basis)

BoardOK(claim, board) ==
    /\ board \in Context
    /\ AwardOK(board)
    /\ PrecedentOK(claim, board)
    /\ GroundedOK(board)
    /\ TierOK(claim, board)
    /\ KindOK(board)
    /\ RoutineOK(claim, board)
    /\ ScopeOK(claim, board.mediation)

(* A board that no job works on has all of the agents' results or none. *)
Whole(board) ==
    board.research # None =>
        board.ingestion # None /\ board.analysis # None /\ board.mediation # None

RestOK(claim, board) == BoardOK(claim, board) /\ Whole(board)

(* The nodes before there is a proposal. *)
Early == {"gate", "ingest", "route", "research", "analyze", "mediate"}

(* What the job has done when it comes to node n. *)
NodeOK(claim, n, board) ==
    /\ n \in Early => board.mediation = None /\ board.resolution = None
    /\ n = "gate" => board.research = None
    /\ n \in {"gate", "ingest", "route"} => board.tier = 0
    /\ n \in Early \ {"gate"} => InScope(claim, board.response)
    /\ n \in Early \ {"gate", "ingest"} => board.ingestion # None
    /\ n \in {"research", "analyze", "mediate"} => board.tier # 0
    /\ n \in {"analyze", "mediate"} => board.research # None
    /\ n = "mediate" => board.analysis # None
    /\ n = "await" => board.mediation # None
    /\ n \in {"await", "resolve", "draft"} => Whole(board)
    /\ n = "draft" => /\ board.composite # None
                      /\ board.research # None
                      /\ board.research.found >= 2

Inv ==
    /\ TypeOK
    /\ phase = None <=> node = "idle"
    /\ ctx = None <=> node = "idle"
    /\ ctx # None => BoardOK(filing, ctx) /\ NodeOK(filing, node, ctx)
    /\ record.ctx # None => RestOK(filing, record.ctx)
    /\ ScopeOK(filing, record.resolution)

-----------------------------------------------------------------------------
(* Arithmetic. *)

LEMMA ConfidenceRange ==
    ASSUME filing \in Filings, NEW reading \in Readings
    PROVE  Confidence(reading) \in 0 .. 98
<1> DEFINE raw == 40 + If(reading.subtype, 25) + 10 * Least(reading.relevant, 2)
                     + If(filing.quantified, 10) + If(reading.signals, 5)
                     - If(reading.irrelevant /\ reading.relevant = 0, 15)
<1>1. reading.relevant \in Nat
  BY DataAssumption DEF Reading
<1>2. raw \in Int
  BY <1>1 DEF If, Least
<1>3. Confidence(reading) = Clamp(raw, 0, 98)
  BY DEF Confidence
<1> HIDE DEF raw
<1> QED BY <1>2, <1>3 DEF Clamp, Least, Greatest

LEMMA ClaimantRange ==
    ASSUME filing \in Filings, NEW answer
    PROVE  ClaimantStrength(answer) \in 10 .. 97
<1>1. filing.evidence \in Nat
  BY DataAssumption DEF Filing
<1> QED BY <1>1 DEF ClaimantStrength, Items, Least, If

LEMMA RespondentRange ==
    ASSUME filing \in Filings, NEW answer \in Responses \cup {None},
           NEW defence \in Defences
    PROVE  RespondentStrength(answer, defence) \in 15 .. 85
<1>1. defence \in Int
  BY DataAssumption
<1>2. CASE answer # None
  <2> DEFINE raw == (4550 + 40 * defence - If(filing.quantified, 35 * answer.counter))
                        \div 100
  <2>1. answer.counter \in Int
    BY <1>2, DataAssumption DEF Response
  <2>2. raw \in Int
    BY <1>1, <2>1 DEF If
  <2>3. RespondentStrength(answer, defence) \in {15, Clamp(raw, 20, 85)}
    BY DEF RespondentStrength
  <2> HIDE DEF raw
  <2>4. Clamp(raw, 20, 85) \in 20 .. 85
    BY <2>2 DEF Clamp, Least, Greatest
  <2> QED BY <2>3, <2>4
<1>3. CASE answer = None
  BY <1>3 DEF RespondentStrength
<1> QED BY <1>2, <1>3

LEMMA CompositeRange ==
    ASSUME ctx \in Context, NEW selection \in Selectable
    PROVE  Composite(selection) \in Nat
<1>1. selection.proposed \in Nat /\ selection.verified \in Nat
  <2>1. CASE ctx.research = None \/ (ctx.research # None /\ ctx.research.found = 0)
    BY <2>1 DEF Selectable
  <2>2. CASE ~(ctx.research = None \/ (ctx.research # None /\ ctx.research.found = 0))
    <3>1. ctx.research.found \in Nat
      BY <2>2, DataAssumption DEF Context, Retrieval
    <3>2. Least(ctx.research.found, 3) \in Nat
      BY <3>1 DEF Least
    <3> QED BY <2>2, <3>2, DataAssumption, SMTT(60) DEF Selectable, Selection
  <2> QED BY <2>1, <2>2
<1>2. Cited(selection) \in Nat
  <2> DEFINE p == selection.proposed
             v == selection.verified
  <2>1. CASE p = 0
    BY <2>1 DEF Cited
  <2>2. CASE p # 0
    <3> HIDE DEF p, v
    <3>1. p \in Nat /\ v \in Nat /\ p > 0
      BY <1>1, <2>2 DEF p, v
    <3>2. (2000 * v + p) \div (2 * p) \in Nat
      BY <3>1
    <3> QED BY <2>2, <3>2 DEF Cited, p, v
  <2> QED BY <2>1, <2>2
<1>3. ctx.ingestion # None => ctx.ingestion.confidence \in Nat
  BY SMTT(60) DEF Context, Ingestion
<1>4. ctx.research # None => ctx.research.coverage \in Nat
  BY DataAssumption, SMTT(60) DEF Context, Retrieval
<1>5. ctx.mediation # None => Schema \in Nat
  BY DEF Context, Proposal, Schema, Greatest
<1> DEFINE i == IF ctx.ingestion = None THEN 500 ELSE 10 * ctx.ingestion.confidence
           c == IF ctx.research = None THEN 500 ELSE ctx.research.coverage
           m == IF ctx.mediation = None THEN 1000 ELSE Schema
           q == Cited(selection)
<1>6. i \in Nat /\ c \in Nat /\ m \in Nat /\ q \in Nat
  BY <1>2, <1>3, <1>4, <1>5
<1>7. Composite(selection) = (35 * i + 35 * c + 20 * m + 10 * q + 50) \div 100
  BY DEF Composite
<1> HIDE DEF i, c, m, q
<1> QED BY <1>6, <1>7

(* The prompt's answer, corrected: a claimant who is not ahead gets nothing,
   and nobody more than the precedents or the floor allow.                  *)
LEMMA MeritsBound ==
    ASSUME ctx \in Context, ctx.research # None, ctx.analysis # None,
           NEW ratio \in Int, NEW ahead \in BOOLEAN, Net <= 0 => ~ahead
    PROVE  /\ Merits(ratio, ahead).ratio \in 0 .. 1000
           /\ Merits(ratio, ahead).notes \in Nat
           /\ Merits(ratio, ahead).ratio <= Greatest(100, Best)
           /\ Net <= 0 => Merits(ratio, ahead).ratio = 0
<1>1. Best \in 0 .. 1000 /\ Net \in Int
  BY DataAssumption, SMTT(60) DEF Best, Net, Context, Retrieval, Analysis
<1>2. Ceiling(ratio) \in 0 .. 1000 /\ Ceiling(ratio) <= Best
  BY <1>1 DEF Ceiling, Clamp, Least, Greatest
<1>3. CASE Net <= 0 /\ Ceiling(ratio) > 0
  <2>1. Merits(ratio, ahead) = [ratio |-> 0, notes |-> 1]
    BY <1>3 DEF Merits
  <2> QED BY <1>1, <2>1 DEF Greatest
<1>4. CASE ~(Net <= 0 /\ Ceiling(ratio) > 0) /\ ahead /\ Dismissed(Ceiling(ratio))
  <2>1. Merits(ratio, ahead) = [ratio |-> 100, notes |-> 1]
    BY <1>4 DEF Merits
  <2>2. ~(Net <= 0)
    BY <1>4
  <2> QED BY <1>1, <2>1, <2>2 DEF Greatest
<1>5. CASE ~(Net <= 0 /\ Ceiling(ratio) > 0) /\ ~(ahead /\ Dismissed(Ceiling(ratio)))
  <2>1. Merits(ratio, ahead) = [ratio |-> Ceiling(ratio),
                                notes |-> If(Ceiling(ratio) # ratio, 1)]
    BY <1>5 DEF Merits
  <2> QED BY <1>1, <1>2, <1>5, <2>1, SMTT(60) DEF Greatest, If
<1> QED BY <1>3, <1>4, <1>5

LEMMA DecreeBound ==
    ASSUME NEW ruling, ruling.ratio \in 0 .. 1000, ruling.notes \in Nat
    PROVE  /\ Decree(ruling).ratio \in 0 .. 1000
           /\ Decree(ruling).notes \in Nat
           /\ ruling.ratio = 0 => Decree(ruling).ratio = 0
           /\ filing.type = "consumer_dispute" => Decree(ruling).ratio = ruling.ratio
BY DEF Decree, Dismissed

-----------------------------------------------------------------------------
(* Steps. *)

LEMMA Step ==
    ASSUME Inv, filing' = filing, response' \in Responses \cup {None},
           record' \in Record, phase' \in {"pipeline", "resolution", None},
           node' \in Node, phases' \in 0 .. MaxPhases,
           phase' = None <=> node' = "idle", ctx' = None <=> node' = "idle",
           ctx' # None => BoardOK(filing, ctx') /\ NodeOK(filing, node', ctx'),
           record'.ctx # None => RestOK(filing, record'.ctx),
           ScopeOK(filing, record'.resolution)
    PROVE  Inv'
<1>1. ctx' \in Context \cup {None}
  BY DEF BoardOK
<1> QED BY <1>1 DEF Inv, TypeOK

(* A step of the graph that writes nothing on the record. *)
LEMMA Advance ==
    ASSUME Inv, UNCHANGED <<filing, response, record, phase, phases>>,
           node # "idle", node' \in Node \ {"idle"}, BoardOK(filing, ctx'),
           NodeOK(filing, node', ctx')
    PROVE  Inv'
<1>1. ctx' # None
  BY NoneAssumption DEF BoardOK
<1> QED BY <1>1, Step DEF Inv, TypeOK

LEMMA InitInv == Init => Inv
<1> SUFFICES ASSUME Init PROVE Inv
  OBVIOUS
<1>1. record \in Record /\ record.ctx = None /\ record.resolution = None
  BY DEF Init, Record
<1>2. MaxPhases \in Nat
  BY DataAssumption
<1> QED BY <1>1, <1>2 DEF Init, Inv, TypeOK, ScopeOK, Node

LEMMA StatusRecord ==
    ASSUME NEW old \in Record,
           NEW status \in {"ready", "processing", "mediation_accepted", "error"}
    PROVE  LET new == [old EXCEPT !.status = status]
           IN /\ new \in Record
              /\ new.ctx = old.ctx
              /\ new.resolution = old.resolution
BY DEF Record

LEMMA PartiesInv ==
    ASSUME Inv,
           \/ \E submission \in Responses \cup {None} : Respond(submission)
           \/ Raise \/ Release
    PROVE  Inv'
<1>1. record \in Record
  BY DEF Inv, TypeOK
<1>2. ASSUME NEW submission \in Responses \cup {None}, Respond(submission)
      PROVE  Inv'
  <2>1. record' \in Record /\ record'.ctx = record.ctx
           /\ record'.resolution = record.resolution
    BY <1>1, <1>2, StatusRecord DEF Respond
  <2> QED BY <1>2, <2>1, Step DEF Respond, Inv, TypeOK
<1>3. CASE Raise
  <2>1. record' \in Record /\ record'.ctx = record.ctx
           /\ record'.resolution = record.resolution
    BY <1>1, <1>3, StatusRecord DEF Raise
  <2>2. node' = "release" /\ NodeOK(filing, node', ctx)
    BY <1>3 DEF Raise, NodeOK, Early
  <2> QED BY <1>3, <2>1, <2>2, Step DEF Raise, Inv, TypeOK, Node
<1>4. CASE Release
  BY <1>4, Step DEF Release, Inv, TypeOK, Node
<1> QED BY <1>2, <1>3, <1>4

LEMMA FromCaseOK ==
    ASSUME response \in Responses \cup {None}
    PROVE  BoardOK(filing, FromCase) /\ NodeOK(filing, "gate", FromCase)
<1>1. FromCase \in Context
  BY DEF FromCase, Context
<1> QED BY <1>1 DEF FromCase, NodeOK, Early, BoardOK, AwardOK, PrecedentOK,
              GroundedOK, TierOK, KindOK, RoutineOK, ScopeOK

LEMMA StartInv == ASSUME Inv, StartPipeline PROVE Inv'
<1>1. record' \in Record /\ record'.ctx = record.ctx
         /\ record'.resolution = record.resolution
  BY StatusRecord DEF StartPipeline, Inv, TypeOK
<1>2. phases' \in 0 .. MaxPhases /\ phase' = "pipeline" /\ node' = "gate"
  BY DataAssumption DEF StartPipeline, Enter, Inv, TypeOK
<1>3. ctx' = FromCase /\ FromCase # None
  BY FromCaseOK, NoneAssumption DEF StartPipeline, BoardOK, Inv, TypeOK
<1>4. phase' # None /\ ctx' # None /\ node' # "idle"
  BY <1>2, <1>3, NoneAssumption
<1> QED BY <1>1, <1>2, <1>3, <1>4, FromCaseOK, Step
        DEF StartPipeline, Inv, TypeOK, Node

LEMMA DecideInv ==
    ASSUME Inv, NEW accept \in BOOLEAN, Decide(accept)
    PROVE  Inv'
<1> DEFINE old == record.ctx
<1>1. record' \in Record /\ record'.ctx = record.ctx
         /\ record'.resolution = record.resolution
  BY StatusRecord DEF Decide, Inv, TypeOK
<1>2. phases' \in 0 .. MaxPhases /\ phase' = "resolution" /\ node' = "resolve"
  BY DataAssumption DEF Decide, Enter, Inv, TypeOK
<1>3. old # None /\ RestOK(filing, old) /\ old \in Context
  BY DEF Decide, Inv, RestOK, BoardOK
<1>4. ctx' = [old EXCEPT !.via = accept]
  BY DEF Decide
<1>5. /\ ctx' \in Context
      /\ ctx'.mediation = old.mediation /\ ctx'.resolution = old.resolution
      /\ ctx'.analysis = old.analysis /\ ctx'.research = old.research
      /\ ctx'.ingestion = old.ingestion /\ ctx'.tier = old.tier
  BY <1>3, <1>4 DEF Context
<1>6. RestOK(filing, ctx')
  BY <1>3, <1>5 DEF RestOK, Whole, BoardOK, AwardOK, PrecedentOK, GroundedOK,
                    TierOK, KindOK, RoutineOK, Routine, ScopeOK
<1>7. NodeOK(filing, "resolve", ctx')
  BY <1>6 DEF NodeOK, Early, RestOK
<1>8. phase' # None /\ ctx' # None /\ node' # "idle"
  BY <1>2, <1>5, NoneAssumption
<1> QED BY <1>1, <1>2, <1>6, <1>7, <1>8, Step
        DEF Decide, Inv, TypeOK, Node, RestOK

-----------------------------------------------------------------------------
(* Steps of the graph. *)

(* A job at work has a board, which is as its node expects it. *)
LEMMA AtWork ==
    ASSUME Inv, NEW n \in Node \ {"idle"}, Work(n)
    PROVE  /\ node = n /\ node # "idle" /\ ctx # None /\ ctx \in Context
           /\ BoardOK(filing, ctx) /\ NodeOK(filing, n, ctx)
           /\ filing \in Filings /\ filing \in Filing
BY DataAssumption DEF Inv, TypeOK, Work, Node

LEMMA ScopeOfGate ==
    ASSUME filing \in Filings, NEW answer \in Responses \cup {None},
           ~Prefiltered(answer)
    PROVE  InScope(filing, answer)
<1>1. Texts(answer) \subseteq Flag
  BY DataAssumption DEF Texts, Filing, Response
<1>2. /\ "criminal_matter" \in Texts(answer) => filing.type = "cheque_bounce"
      /\ "out_of_scope" \notin Texts(answer)
  BY DEF Prefiltered
<1>3. Texts(answer) \subseteq (IF filing.type = "cheque_bounce"
                                THEN {"criminal_matter"} ELSE {})
  BY <1>1, <1>2 DEF Flag
<1> QED BY <1>3 DEF Texts, InScope

LEMMA GateInv == ASSUME Inv, CheckpointA PROVE Inv'
<1>1. node = "gate" /\ BoardOK(filing, ctx) /\ NodeOK(filing, "gate", ctx)
         /\ ctx \in Context /\ ctx # None /\ phase # None /\ filing \in Filings
  BY AtWork DEF CheckpointA, Node, Inv, TypeOK
<1>2. CASE Prefiltered(ctx.response)
  <2> DEFINE new == [record EXCEPT !.status = "escalated", !.ctx = ctx,
                                   !.escalation = "pre_filter"]
  <2>1. record' = new /\ node' = "release" /\ ctx' = ctx
    BY <1>2 DEF CheckpointA
  <2>2. new \in Record /\ new.ctx = ctx /\ new.resolution = record.resolution
    BY <1>1 DEF Record, Checkpoint, Inv, TypeOK
  <2>3. RestOK(filing, ctx)
    BY <1>1 DEF RestOK, Whole, NodeOK
  <2>4. NodeOK(filing, "release", ctx)
    BY DEF NodeOK, Early
  <2> QED BY <1>1, <2>1, <2>2, <2>3, <2>4, Step
          DEF CheckpointA, Inv, TypeOK, Node
<1>3. CASE ~Prefiltered(ctx.response)
  <2>1. InScope(filing, ctx.response)
    BY <1>1, <1>3, ScopeOfGate DEF Context
  <2>2. NodeOK(filing, "ingest", ctx)
    BY <1>1, <2>1 DEF NodeOK, Early
  <2> QED BY <1>1, <1>3, <2>2, Advance DEF CheckpointA, Node
<1> QED BY <1>2, <1>3

LEMMA IngestInv == ASSUME Inv, Ingest PROVE Inv'
<1>1. node = "ingest" /\ BoardOK(filing, ctx) /\ NodeOK(filing, "ingest", ctx)
         /\ ctx \in Context /\ filing \in Filings
  BY AtWork DEF Ingest, Node
<1>2. PICK reading \in Readings :
          ctx' = [ctx EXCEPT !.ingestion =
              [confidence |-> Confidence(reading), relief |-> reading.relief,
               relevant |-> reading.relevant,
               tier |-> IF Autonomous(reading) THEN 1 ELSE 2]]
  BY DEF Ingest
<1> DEFINE found == [confidence |-> Confidence(reading), relief |-> reading.relief,
                     relevant |-> reading.relevant,
                     tier |-> IF Autonomous(reading) THEN 1 ELSE 2]
<1>3. /\ found \in Ingestion
      /\ found.tier = 1 => /\ filing.type = "consumer_dispute"
                           /\ filing.quantified
                           /\ found.relevant >= 1
                           /\ found.relief = "monetary"
  <2>1. Confidence(reading) \in 0 .. 98
    BY <1>1, ConfidenceRange
  <2>2. reading.relief \in Relief /\ reading.relevant \in Nat
    BY DataAssumption DEF Reading
  <2> QED BY <2>1, <2>2 DEF Ingestion, Autonomous
<1> HIDE DEF found
<1>4. found # None
  BY <1>3, NoneAssumption
<1>5. /\ ctx' \in Context /\ ctx'.ingestion = found
      /\ ctx'.mediation = ctx.mediation /\ ctx'.resolution = ctx.resolution
      /\ ctx'.tier = ctx.tier /\ ctx'.response = ctx.response
  BY <1>1, <1>2, <1>3 DEF Context, found
<1>6. BoardOK(filing, ctx')
  BY <1>1, <1>3, <1>4, <1>5
     DEF NodeOK, Early, BoardOK, AwardOK, PrecedentOK, GroundedOK, TierOK, Routine,
         KindOK, RoutineOK, ScopeOK
<1>7. NodeOK(filing, "route", ctx')
  BY <1>1, <1>4, <1>5 DEF NodeOK, Early
<1> QED BY <1>1, <1>6, <1>7, Advance DEF Ingest, Node

LEMMA RouteInv == ASSUME Inv, Route PROVE Inv'
<1>1. node = "route" /\ BoardOK(filing, ctx) /\ NodeOK(filing, "route", ctx)
         /\ ctx \in Context
  BY AtWork DEF Route, Node
<1>2. ctx.ingestion # None /\ ctx.ingestion.tier \in 1 .. 2
  BY <1>1 DEF NodeOK, Early, Context, Ingestion
<1>3. ctx' = [ctx EXCEPT !.tier = ctx.ingestion.tier] /\ node' = "research"
  BY DEF Route
<1>4. /\ ctx' \in Context /\ ctx'.tier = ctx.ingestion.tier
      /\ ctx'.ingestion = ctx.ingestion
      /\ ctx'.mediation = ctx.mediation /\ ctx'.resolution = ctx.resolution
      /\ ctx'.response = ctx.response
  BY <1>1, <1>2, <1>3 DEF Context
<1>5. BoardOK(filing, ctx')
  BY <1>1, <1>2, <1>4
     DEF NodeOK, Early, BoardOK, AwardOK, PrecedentOK, GroundedOK, TierOK, Routine,
         KindOK, RoutineOK, ScopeOK
<1>6. NodeOK(filing, "research", ctx')
  BY <1>1, <1>2, <1>4 DEF NodeOK, Early
<1> QED BY <1>1, <1>3, <1>5, <1>6, Advance DEF Route, Node

LEMMA ResearchInv == ASSUME Inv, Research PROVE Inv'
<1>1. node = "research" /\ BoardOK(filing, ctx) /\ NodeOK(filing, "research", ctx)
         /\ ctx \in Context
  BY AtWork DEF Research, Node
<1>2. PICK retrieval \in Retrievals : ctx' = [ctx EXCEPT !.research = retrieval]
  BY DEF Research
<1>3. retrieval # None
  BY NoneAssumption
<1>4. /\ ctx' \in Context /\ ctx'.research = retrieval
      /\ ctx'.tier = ctx.tier /\ ctx'.ingestion = ctx.ingestion
      /\ ctx'.mediation = ctx.mediation /\ ctx'.resolution = ctx.resolution
      /\ ctx'.response = ctx.response
  BY <1>1, <1>2, DataAssumption DEF Context
<1>5. BoardOK(filing, ctx')
  BY <1>1, <1>4
     DEF NodeOK, Early, BoardOK, AwardOK, PrecedentOK, GroundedOK, TierOK, Routine,
         KindOK, RoutineOK, ScopeOK
<1>6. NodeOK(filing, "analyze", ctx')
  BY <1>1, <1>3, <1>4 DEF NodeOK, Early
<1> QED BY <1>1, <1>5, <1>6, Advance DEF Research, Node

LEMMA AnalyzeInv == ASSUME Inv, Analyze PROVE Inv'
<1>1. node = "analyze" /\ BoardOK(filing, ctx) /\ NodeOK(filing, "analyze", ctx)
         /\ ctx \in Context /\ filing \in Filings
  BY AtWork DEF Analyze, Node
<1>2. PICK defence \in Defences :
          LET next == AfterAnalyze([ctx EXCEPT !.analysis =
                  [claimant |-> ClaimantStrength(ctx.response),
                   respondent |-> RespondentStrength(ctx.response, defence),
                   again |-> ctx.research.thin /\ ctx.retries < 1]])
          IN ctx' = next.ctx /\ node' = next.node
  BY DEF Analyze
<1> DEFINE strengths == [claimant |-> ClaimantStrength(ctx.response),
                         respondent |-> RespondentStrength(ctx.response, defence),
                         again |-> ctx.research.thin /\ ctx.retries < 1]
           board == [ctx EXCEPT !.analysis = strengths]
<1>3. strengths \in Analysis
  <2>1. ctx.response \in Responses \cup {None}
    BY <1>1 DEF Context
  <2>2. /\ ClaimantStrength(ctx.response) \in 10 .. 97
        /\ RespondentStrength(ctx.response, defence) \in 15 .. 85
    BY <1>1, <2>1, ClaimantRange, RespondentRange
  <2>3. (ctx.research.thin /\ ctx.retries < 1) \in BOOLEAN
    OBVIOUS
  <2> QED BY <2>2, <2>3 DEF Analysis
<1> HIDE DEF strengths
<1>4. strengths # None
  BY <1>3, NoneAssumption
<1>5. /\ board \in Context /\ board.analysis = strengths
      /\ board.tier = ctx.tier /\ board.ingestion = ctx.ingestion
      /\ board.mediation = ctx.mediation /\ board.resolution = ctx.resolution
      /\ board.response = ctx.response /\ board.research = ctx.research
      /\ board.retries = ctx.retries
  BY <1>1, <1>3 DEF Context
<1>6. /\ ctx' = board \/ (board.retries < 1 /\ ctx' = [board EXCEPT !.retries = @ + 1])
      /\ node' \in {"research", "mediate"}
  BY <1>2 DEF AfterAnalyze, strengths
<1> HIDE DEF board
<1>7. /\ ctx' \in Context /\ ctx'.analysis = strengths
      /\ ctx'.tier = ctx.tier /\ ctx'.ingestion = ctx.ingestion
      /\ ctx'.mediation = ctx.mediation /\ ctx'.resolution = ctx.resolution
      /\ ctx'.response = ctx.response /\ ctx'.research = ctx.research
  BY <1>5, <1>6 DEF Context
<1>8. BoardOK(filing, ctx')
  BY <1>1, <1>7
     DEF NodeOK, Early, BoardOK, AwardOK, PrecedentOK, GroundedOK, TierOK, Routine,
         KindOK, RoutineOK, ScopeOK
<1>9. NodeOK(filing, node', ctx')
  BY <1>1, <1>4, <1>6, <1>7 DEF NodeOK, Early
<1> QED BY <1>1, <1>6, <1>8, <1>9, Advance DEF Analyze, Node

LEMMA MediateInv == ASSUME Inv, Mediate PROVE Inv'
<1>1. node = "mediate" /\ BoardOK(filing, ctx) /\ NodeOK(filing, "mediate", ctx)
         /\ ctx \in Context /\ filing \in Filings
  BY AtWork DEF Mediate, Node
<1>2. /\ ctx.ingestion # None /\ ctx.research # None /\ ctx.analysis # None
      /\ ctx.mediation = None /\ ctx.resolution = None /\ ctx.tier # 0
      /\ InScope(filing, ctx.response)
  BY <1>1, SMTT(60) DEF NodeOK, Early
<1>3. /\ ctx.ingestion.relief \in Relief /\ ctx.analysis.claimant \in Int
      /\ ctx.analysis.respondent \in Int /\ ctx.research.found \in Nat
      /\ ctx.response \in Responses \cup {None}
  BY <1>1, <1>2, DataAssumption DEF Context, Ingestion, Analysis, Retrieval
<1>4. Net \in Int /\ (Net > 0 => ctx.analysis.claimant > ctx.analysis.respondent)
  BY <1>3 DEF Net
<1>5. PICK reply \in Replies \cup {None}, rounding \in BOOLEAN, oddMedian \in BOOLEAN :
          LET scripted == Clamp(14 * Net, 0, 1000)
              ratio == IF reply = None \/ (reply # None /\ reply.ratio = None)
                       THEN scripted ELSE reply.ratio
              odd == IF reply = None THEN oddMedian ELSE reply.oddDays
              award == Decree(Merits(ratio, Net > 10 \/ (Net = 10 /\ rounding)))
              kind == KindOf(award.ratio)
          IN ctx' = [ctx EXCEPT !.mediation =
                 [basis |-> ctx.response, kind |-> kind,
                  amount |-> If(filing.quantified /\ kind \notin NoAmount,
                                award.ratio),
                  notes |-> award.notes + If(odd, 1) +
                            If(reply # None /\ reply.ratio = None, 1)]]
  BY DEF Mediate
<1> DEFINE ratio == IF reply = None \/ (reply # None /\ reply.ratio = None)
                    THEN Clamp(14 * Net, 0, 1000) ELSE reply.ratio
           odd == IF reply = None THEN oddMedian ELSE reply.oddDays
           ahead == Net > 10 \/ (Net = 10 /\ rounding)
           ruling == Merits(ratio, ahead)
           award == Decree(ruling)
           kind == KindOf(award.ratio)
           amount == If(filing.quantified /\ kind \notin NoAmount, award.ratio)
           notes == award.notes + If(odd, 1) +
                        If(reply # None /\ reply.ratio = None, 1)
           paper == [basis |-> ctx.response, kind |-> kind, amount |-> amount,
                     notes |-> notes]
<1>6. ratio \in Int
  <2>1. Clamp(14 * Net, 0, 1000) \in Int
    BY <1>4 DEF Clamp, Least, Greatest
  <2>2. reply # None /\ reply.ratio # None => reply.ratio \in Int
    BY DataAssumption DEF Reply
  <2> QED BY <2>1, <2>2
<1>7. ahead \in BOOLEAN /\ (Net <= 0 => ~ahead)
  BY <1>4
<1>8. ctx' = [ctx EXCEPT !.mediation = paper]
  BY <1>5
<1> HIDE DEF ratio, ahead
<1>9. /\ ruling.ratio \in 0 .. 1000 /\ ruling.notes \in Nat
      /\ ruling.ratio <= Greatest(100, Best)
      /\ Net <= 0 => ruling.ratio = 0
  BY <1>1, <1>2, <1>6, <1>7, MeritsBound
<1> HIDE DEF ruling
<1>10. /\ award.ratio \in 0 .. 1000 /\ award.notes \in Nat
       /\ Net <= 0 => award.ratio = 0
       /\ filing.type = "consumer_dispute" => award.ratio <= Greatest(100, Best)
  BY <1>9, DecreeBound
<1> HIDE DEF award
<1>11. /\ kind \in Kind
       /\ ctx.ingestion.relief = "monetary" => kind \in {"dismissed", "money"}
  BY <1>3 DEF KindOf, Kind, Relief
<1> HIDE DEF kind
<1>12. /\ amount \in 0 .. 1000
       /\ Net <= 0 => amount = 0
       /\ filing.type = "consumer_dispute" => amount <= Greatest(100, Best)
  <2>1. amount \in {award.ratio, 0}
    BY DEF If
  <2>2. Greatest(100, Best) \in Nat
    BY <1>1, <1>2, DataAssumption, SMTT(60) DEF Greatest, Best, Context, Retrieval
  <2> HIDE DEF amount
  <2> QED BY <1>10, <2>1, <2>2
<1> HIDE DEF amount
<1>13. notes \in Nat
  BY <1>10 DEF If
<1> HIDE DEF notes, odd
<1>14. paper \in Proposal /\ paper # None
  BY <1>3, <1>11, <1>12, <1>13, NoneAssumption DEF Proposal
<1>15. /\ paper.kind = kind /\ paper.amount = amount /\ paper.basis = ctx.response
  OBVIOUS
<1> HIDE DEF paper
<1>16. /\ ctx' \in Context /\ ctx'.mediation = paper
       /\ ctx'.tier = ctx.tier /\ ctx'.ingestion = ctx.ingestion
       /\ ctx'.analysis = ctx.analysis /\ ctx'.resolution = ctx.resolution
       /\ ctx'.response = ctx.response /\ ctx'.research = ctx.research
  BY <1>1, <1>8, <1>14 DEF Context
<1>17. AwardOK(ctx')
  <2>1. paper.amount > 0 => ctx.analysis.claimant > ctx.analysis.respondent
    BY <1>4, <1>12, <1>15
  <2> QED BY <1>2, <1>16, <2>1 DEF AwardOK
<1>18. PrecedentOK(filing, ctx')
  <2>1. CASE filing.type = "consumer_dispute"
    <3>1. amount <= Greatest(100, Best)
      BY <1>12, <2>1
    <3>2. Greatest(100, Best) = IF ctx.research.found = 0 THEN 1000
                                ELSE Greatest(100, ctx.research.best)
      BY DEF Greatest, Best
    <3> QED BY <1>15, <1>16, <3>1, <3>2 DEF PrecedentOK
  <2>2. CASE filing.type # "consumer_dispute"
    BY <2>2 DEF PrecedentOK
  <2> QED BY <2>1, <2>2
<1>19. TierOK(filing, ctx') /\ KindOK(ctx')
  BY <1>1, <1>2, <1>11, <1>15, <1>16 DEF BoardOK, TierOK, Routine, KindOK
<1>20. GroundedOK(ctx') /\ RoutineOK(filing, ctx') /\ ScopeOK(filing, ctx'.mediation)
  BY <1>2, <1>15, <1>16 DEF GroundedOK, RoutineOK, ScopeOK
<1>21. BoardOK(filing, ctx')
  BY <1>16, <1>17, <1>18, <1>19, <1>20 DEF BoardOK
<1>22. NodeOK(filing, "await", ctx')
  BY <1>2, <1>14, <1>16 DEF NodeOK, Early, Whole
<1> QED BY <1>1, <1>21, <1>22, Advance DEF Mediate, Node

LEMMA AwaitInv == ASSUME Inv, Await PROVE Inv'
<1>1. node = "await" /\ BoardOK(filing, ctx) /\ NodeOK(filing, "await", ctx)
         /\ ctx \in Context /\ ctx # None /\ phase # None
  BY AtWork DEF Await, Node, Inv, TypeOK, Work
<1> DEFINE new == [record EXCEPT !.status = "mediation_proposed", !.ctx = ctx,
                                 !.mediation = ctx.mediation]
<1>2. record' = new /\ node' = "release" /\ ctx' = ctx
  BY DEF Await
<1>3. ctx.mediation \in Proposal \cup {None}
  BY <1>1 DEF Context
<1>4. new \in Record /\ new.ctx = ctx /\ new.resolution = record.resolution
  BY <1>1, <1>3 DEF Record, Inv, TypeOK
<1>5. RestOK(filing, ctx)
  BY <1>1 DEF RestOK, NodeOK
<1>6. NodeOK(filing, "release", ctx)
  BY DEF NodeOK, Early
<1> QED BY <1>1, <1>2, <1>4, <1>5, <1>6, Step DEF Await, Inv, TypeOK, Node

LEMMA ResolveInv == ASSUME Inv, Resolve PROVE Inv'
<1>1. node = "resolve" /\ BoardOK(filing, ctx) /\ NodeOK(filing, "resolve", ctx)
         /\ ctx \in Context /\ ctx # None /\ phase # None
  BY AtWork DEF Resolve, Node, Inv, TypeOK, Work
<1>2. PICK selection \in Selectable :
          LET score == Composite(selection)
              scored == [ctx EXCEPT !.composite = score]
          IN /\ ctx' = scored
             /\ IF Blocked(score)
                THEN /\ record' = [record EXCEPT !.status = "escalated",
                             !.ctx = scored, !.escalation = "post_check"]
                     /\ node' = "release"
                ELSE /\ node' = "draft"
                     /\ UNCHANGED record
  BY DEF Resolve
<1> DEFINE score == Composite(selection)
           scored == [ctx EXCEPT !.composite = score]
<1>3. score \in Nat
  BY <1>1, CompositeRange
<1>4. ctx' = scored
  BY <1>2
<1>5. /\ scored \in Context /\ scored.composite = score
      /\ scored.tier = ctx.tier /\ scored.ingestion = ctx.ingestion
      /\ scored.analysis = ctx.analysis /\ scored.research = ctx.research
      /\ scored.mediation = ctx.mediation /\ scored.resolution = ctx.resolution
  <2> HIDE DEF score
  <2> QED BY <1>1, <1>3 DEF Context
<1>6. scored # None /\ score # None
  BY <1>3, <1>5, NoneAssumption
<1>7. BoardOK(filing, scored) /\ Whole(scored)
  <2> HIDE DEF scored
  <2>1. Whole(ctx)
    BY <1>1 DEF NodeOK
  <2> QED BY <1>1, <1>5, <2>1
     DEF BoardOK, AwardOK, PrecedentOK, GroundedOK, TierOK, Routine,
         KindOK, RoutineOK, ScopeOK, Whole
<1>8. CASE Blocked(score)
  <2> DEFINE new == [record EXCEPT !.status = "escalated", !.ctx = scored,
                                   !.escalation = "post_check"]
  <2>1. record' = new /\ node' = "release"
    BY <1>2, <1>8
  <2>2. new \in Record /\ new.ctx = scored /\ new.resolution = record.resolution
    <3> HIDE DEF scored
    <3> QED BY <1>5 DEF Record, Checkpoint, Inv, TypeOK
  <2>3. RestOK(filing, scored) /\ NodeOK(filing, "release", scored)
    <3> HIDE DEF scored
    <3> QED BY <1>7 DEF RestOK, NodeOK, Early
  <2> HIDE DEF scored, new
  <2> QED BY <1>1, <1>4, <1>6, <1>7, <2>1, <2>2, <2>3, Step
          DEF Resolve, Inv, TypeOK, Node
<1>9. CASE ~Blocked(score)
  <2>1. node' = "draft" /\ UNCHANGED record
    BY <1>2, <1>9
  <2>2. ctx.research # None /\ ~(ctx.research.found < 2)
    BY <1>9, SMTT(60) DEF Blocked, Ungrounded
  <2>3. ctx.research.found \in Nat
    BY <1>1, <2>2, DataAssumption DEF Context, Retrieval
  <2> HIDE DEF scored, score
  <2>4. NodeOK(filing, "draft", scored)
    BY <1>5, <1>6, <1>7, <2>2, <2>3 DEF NodeOK, Early
  <2> QED BY <1>1, <1>4, <1>7, <2>1, <2>4, Advance DEF Resolve, Node
<1> QED BY <1>8, <1>9

LEMMA DraftInv == ASSUME Inv, Draft PROVE Inv'
<1>1. node = "draft" /\ BoardOK(filing, ctx) /\ NodeOK(filing, "draft", ctx)
         /\ ctx \in Context /\ ctx # None /\ phase # None
  BY AtWork DEF Draft, Node, Inv, TypeOK, Work
<1>2. /\ ctx.research # None /\ ctx.research.found >= 2 /\ ctx.composite # None
      /\ ctx.ingestion # None /\ ctx.analysis # None /\ ctx.mediation # None
  BY <1>1 DEF NodeOK, Whole
<1> DEFINE order == [basis |-> ctx.mediation.basis, kind |-> ctx.mediation.kind,
                     amount |-> ctx.mediation.amount, via |-> ctx.via,
                     signoff |-> ctx.tier = 2, binding |-> Binding,
                     score |-> ctx.composite]
           final == [ctx EXCEPT !.resolution = order]
           new == [record EXCEPT !.status = "resolved", !.ctx = final,
                                 !.resolution = order]
<1>3. ctx' = final /\ record' = new /\ node' = "release"
  BY SMTT(60) DEF Draft
<1>4. order \in Order
  <2>1. /\ ctx.mediation.basis \in Responses \cup {None}
        /\ ctx.mediation.kind \in Kind /\ ctx.mediation.amount \in 0 .. 1000
    BY <1>1, <1>2 DEF Context, Proposal
  <2>2. ctx.via \in BOOLEAN /\ ctx.composite \in Nat
    BY <1>1, <1>2 DEF Context
  <2>3. (ctx.tier = 2) \in BOOLEAN /\ Binding \in BOOLEAN
    BY DEF Binding
  <2> QED BY <2>1, <2>2, <2>3 DEF Order
<1>5. order.binding => ctx.via /\ ctx.tier = 1
  <2>1. ctx.tier \in 0 .. 2 /\ ctx.tier # 0
    BY <1>1, <1>2 DEF Context, BoardOK, TierOK
  <2>2. order.binding = Binding
    OBVIOUS
  <2> HIDE DEF order
  <2>3. ASSUME order.binding PROVE ctx.via /\ ctx.tier # 2
    BY <2>2, <2>3 DEF Binding
  <2> QED BY <2>1, <2>3
<1>6. /\ order.via = ctx.via /\ order.kind = ctx.mediation.kind
      /\ order.amount = ctx.mediation.amount /\ order.basis = ctx.mediation.basis
  OBVIOUS
<1> HIDE DEF order
<1>7. order # None
  BY <1>4, NoneAssumption
<1>8. /\ final \in Context /\ final.resolution = order
      /\ final.tier = ctx.tier /\ final.ingestion = ctx.ingestion
      /\ final.analysis = ctx.analysis /\ final.research = ctx.research
      /\ final.mediation = ctx.mediation
  BY <1>1, <1>4 DEF Context
<1> HIDE DEF final
<1>9. new \in Record /\ new.ctx = final /\ new.resolution = order
  BY <1>4, <1>8 DEF Record, Inv, TypeOK
<1> HIDE DEF new
<1>10. ScopeOK(filing, order)
  BY <1>1, <1>2, <1>6 DEF BoardOK, ScopeOK
<1>11. AwardOK(final)
  BY <1>1, <1>2, <1>6, <1>8 DEF BoardOK, AwardOK
<1>12. RoutineOK(filing, final)
  <2> SUFFICES ASSUME order.binding
               PROVE  /\ order.via /\ order.kind \in {"dismissed", "money"}
                      /\ Routine(filing, final)
    BY <1>8 DEF RoutineOK
  <2>1. ctx.via /\ ctx.tier = 1
    BY <1>5
  <2>2. Routine(filing, ctx) /\ ctx.ingestion.relief = "monetary"
    BY <1>1, <2>1 DEF BoardOK, TierOK
  <2>3. ctx.mediation.kind \in {"dismissed", "money"}
    BY <1>1, <1>2, <2>2 DEF BoardOK, KindOK
  <2> QED BY <1>6, <1>8, <2>1, <2>2, <2>3 DEF Routine
<1>13. GroundedOK(final)
  BY <1>2, <1>8 DEF GroundedOK
<1>14. /\ PrecedentOK(filing, final) /\ TierOK(filing, final) /\ KindOK(final)
       /\ ScopeOK(filing, final.mediation) /\ Whole(final)
  BY <1>1, <1>2, <1>8 DEF BoardOK, PrecedentOK, TierOK, Routine, KindOK, ScopeOK, Whole
<1>15. RestOK(filing, final) /\ BoardOK(filing, final)
  BY <1>8, <1>11, <1>12, <1>13, <1>14 DEF RestOK, BoardOK
<1>16. NodeOK(filing, "release", final) /\ final # None
  BY <1>8, NoneAssumption DEF NodeOK, Early
<1> QED BY <1>1, <1>3, <1>9, <1>10, <1>15, <1>16, Step
        DEF Draft, Inv, TypeOK, Node

LEMMA NextInv == Inv /\ [Next]_vars => Inv'
<1> SUFFICES ASSUME Inv, [Next]_vars PROVE Inv'
  OBVIOUS
<1>1. CASE Agents
  BY <1>1, GateInv, IngestInv, RouteInv, ResearchInv, AnalyzeInv, MediateInv,
     AwaitInv, ResolveInv, DraftInv, PartiesInv DEF Agents
<1>2. CASE \/ \E submission \in Responses \cup {None} : Respond(submission)
           \/ Raise
  BY <1>2, PartiesInv
<1>3. CASE StartPipeline
  BY <1>3, StartInv
<1>4. ASSUME NEW accept \in BOOLEAN, Decide(accept) PROVE Inv'
  BY <1>4, DecideInv
<1>5. CASE UNCHANGED vars
  <2>1. /\ filing' = filing /\ response' = response /\ record' = record
        /\ phase' = phase /\ node' = node /\ ctx' = ctx /\ phases' = phases
    BY <1>5 DEF vars
  <2> QED BY <2>1, Step DEF Inv, TypeOK
<1> QED BY <1>1, <1>2, <1>3, <1>4, <1>5 DEF Next

-----------------------------------------------------------------------------
(* What the invariant says of the boards. *)

LEMMA BoardsOK ==
    ASSUME Inv
    PROVE  \A board \in Boards : BoardOK(filing, board)
BY DEF Inv, Boards, RestOK

(* The part by part invariant holds in every reachable state of the graph,
   for every set of filings, submissions and answers of the models.         *)
THEOREM InvCorrect == Spec => []Inv
BY InitInv, NextInv, PTL DEF Spec

(* Every variable keeps its type: among them the strengths and confidences of
   Agents 1 and 3 and the composite score stay in the ranges the code clamps
   them to, and Agent 4's amount between nothing and the whole claim.       *)
THEOREM TypeCorrect == Spec => []TypeOK
<1>1. Inv => TypeOK
  BY DEF Inv
<1> QED BY <1>1, InvCorrect, PTL

(* Money goes only to a claimant whose case Agent 3 found the stronger,
   whatever the model answers and whoever decides when (mediation.run,
   resolution.finalize).                                                    *)
THEOREM AwardCorrect == Spec => []AwardFollowsStrength
<1>1. Inv => AwardFollowsStrength
  BY BoardsOK DEF BoardOK, AwardOK, AwardFollowsStrength
<1> QED BY <1>1, InvCorrect, PTL

(* A consumer's award stays within the best precedent or the floor, whatever
   the model answers (mediation.run's validator).                           *)
THEOREM AwardBounded == Spec => []AwardWithinPrecedent
<1>1. Inv => AwardWithinPrecedent
  BY BoardsOK DEF BoardOK, PrecedentOK, AwardWithinPrecedent
<1> QED BY <1>1, InvCorrect, PTL

(* Both bounds on an award hold of every proposal and order (mediation.run,
   resolution.finalize).                                                    *)
THEOREM AwardsFounded == Spec => []AwardIsFounded
BY AwardCorrect, AwardBounded, PTL DEF AwardIsFounded

(* A binding order is one both sides accepted, of money or a dismissal, on a
   quantified and documented consumer claim (ingestion, Route, finalize).   *)
THEOREM BindingCorrect == Spec => []BindingIsRoutine
<1>1. Inv => BindingIsRoutine
  BY BoardsOK DEF BoardOK, RoutineOK, Routine, BindingIsRoutine
<1> QED BY <1>1, InvCorrect, PTL

(* No order is drafted on fewer than two precedents (checkpoint B).         *)
THEOREM GroundedCorrect == Spec => []OrderIsGrounded
<1>1. Inv => OrderIsGrounded
  BY BoardsOK DEF BoardOK, GroundedOK, OrderIsGrounded
<1> QED BY <1>1, InvCorrect, PTL

(* The texts an order was worked out from passed checkpoint A, although the
   order is drafted by another job than the one that looked.                *)
THEOREM ScopeCorrect == Spec => []OrderIsInScope
<1>1. Inv => OrderIsInScope
  BY DEF Inv, ScopeOK, InScope, OrderIsInScope
<1> QED BY <1>1, InvCorrect, PTL

(* Every order passed both checkpoints' questions on precedents and scope
   (safety_gate.py).                                                        *)
THEOREM OrdersFounded == Spec => []OrderIsFounded
BY GroundedCorrect, ScopeCorrect, PTL DEF OrderIsFounded

-----------------------------------------------------------------------------
(* The graph implements AgentRuns.  A proposal rests on the submission its
   board was built from, and a resolution's board is the one on record, but
   for the acceptance and the score.                                        *)

BasisOK(board) == board.mediation # None => board.mediation.basis = board.response

Alike(board, other) ==
    /\ board.response = other.response
    /\ board.mediation = other.mediation
    /\ board.tier = other.tier

RunInv ==
    /\ node \in Early \cup {"await"} => phase = "pipeline"
    /\ node \in {"resolve", "draft"} =>
          phase = "resolution" /\ record.ctx # None /\ Alike(ctx, record.ctx)
    /\ ctx # None => BasisOK(ctx)
    /\ record.ctx # None => BasisOK(record.ctx)

LEMMA PartiesRunInv ==
    ASSUME Inv, Inv', RunInv,
           \/ \E submission \in Responses \cup {None} : Respond(submission)
           \/ StartPipeline
           \/ \E accept \in BOOLEAN : Decide(accept)
           \/ Raise \/ Release
    PROVE  RunInv'
<1>1. record \in Record
  BY DEF Inv, TypeOK
<1>2. ASSUME NEW submission \in Responses \cup {None}, Respond(submission)
      PROVE  RunInv'
  <2>1. record'.ctx = record.ctx
    BY <1>1, <1>2, StatusRecord DEF Respond
  <2> QED BY <1>2, <2>1 DEF Respond, RunInv
<1>3. CASE StartPipeline
  <2>1. record'.ctx = record.ctx
    BY <1>1, <1>3, StatusRecord DEF StartPipeline
  <2>2. phase' = "pipeline" /\ node' = "gate" /\ ctx'.mediation = None
    BY <1>3 DEF StartPipeline, Enter, FromCase
  <2> QED BY <2>1, <2>2 DEF RunInv, BasisOK
<1>4. ASSUME NEW accept \in BOOLEAN, Decide(accept)
      PROVE  RunInv'
  <2>1. record'.ctx = record.ctx
    BY <1>1, <1>4, StatusRecord DEF Decide
  <2>2. phase' = "resolution" /\ node' = "resolve" /\ record.ctx # None
          /\ ctx' = [record.ctx EXCEPT !.via = accept]
    BY <1>4 DEF Decide, Enter
  <2>3. record.ctx \in Context
    BY <2>2 DEF Inv, RestOK, BoardOK
  <2>4. Alike(ctx', record.ctx)
    BY <2>2, <2>3 DEF Alike, Context
  <2>5. BasisOK(ctx')
    BY <2>2, <2>4 DEF RunInv, BasisOK, Alike
  <2> QED BY <2>1, <2>2, <2>4, <2>5 DEF RunInv, Early
<1>5. CASE Raise
  <2>1. record'.ctx = record.ctx
    BY <1>1, <1>5, StatusRecord DEF Raise
  <2> QED BY <1>5, <2>1 DEF Raise, RunInv, Early
<1>6. CASE Release
  BY <1>6 DEF Release, RunInv, Early
<1> QED BY <1>2, <1>3, <1>4, <1>5, <1>6

(* Up to the proposal there is nothing on the board to compare. *)
LEMMA EarlyRunInv ==
    ASSUME Inv, Inv', RunInv, Ingest \/ Route \/ Research \/ Analyze
    PROVE  RunInv'
<1>1. /\ node \in Early /\ node' \in Early
      /\ phase' = phase /\ record' = record
  BY DEF Ingest, Route, Research, Analyze, AfterAnalyze, Work, Early
<1>2. ctx' # None => ctx'.mediation = None
  BY <1>1 DEF Inv, NodeOK
<1> QED BY <1>1, <1>2 DEF RunInv, BasisOK, Early

(* What each step that writes on the record, or makes a proposal, leaves. *)
LEMMA GateStep ==
    ASSUME Inv, RunInv, CheckpointA
    PROVE  /\ phase' = phase /\ phase = "pipeline" /\ ctx' = ctx /\ ctx \in Context
           /\ ctx # None /\ ctx.mediation = None /\ ctx.tier = 0
           /\ \/ node' = "ingest" /\ record' = record
              \/ /\ node' = "release"
                 /\ record'.ctx = ctx /\ record'.escalation = "pre_filter"
                 /\ record'.mediation = record.mediation
                 /\ record'.resolution = record.resolution
<1>1. node = "gate" /\ ctx \in Context /\ NodeOK(filing, "gate", ctx) /\ ctx # None
         /\ record \in Record
  BY AtWork DEF CheckpointA, Node, Inv, TypeOK
<1>2. ctx.mediation = None /\ ctx.tier = 0 /\ phase = "pipeline"
  BY <1>1 DEF NodeOK, Early, RunInv
<1> QED BY <1>1, <1>2 DEF CheckpointA, Record

LEMMA MediateStep ==
    ASSUME Inv, RunInv, Mediate
    PROVE  /\ phase' = phase /\ phase = "pipeline" /\ record' = record
           /\ node' = "await" /\ BasisOK(ctx')
<1>1. node = "mediate" /\ ctx \in Context
  BY AtWork DEF Mediate, Node
<1>2. phase = "pipeline" /\ phase' = phase /\ record' = record /\ node' = "await"
  BY <1>1 DEF RunInv, Early, Mediate
<1>3. PICK kind, amount, notes :
          ctx' = [ctx EXCEPT !.mediation = [basis |-> ctx.response, kind |-> kind,
                                            amount |-> amount, notes |-> notes]]
  <2> DEFINE Made(kind, amount, notes) ==
                 [ctx EXCEPT !.mediation = [basis |-> ctx.response, kind |-> kind,
                                            amount |-> amount, notes |-> notes]]
  <2>1. PICK reply \in Replies \cup {None}, rounding \in BOOLEAN, oddMedian \in BOOLEAN :
          LET scripted == Clamp(14 * Net, 0, 1000)
              ratio == IF reply = None \/ (reply # None /\ reply.ratio = None)
                       THEN scripted ELSE reply.ratio
              odd == IF reply = None THEN oddMedian ELSE reply.oddDays
              award == Decree(Merits(ratio, Net > 10 \/ (Net = 10 /\ rounding)))
              kind == KindOf(award.ratio)
          IN ctx' = Made(kind, If(filing.quantified /\ kind \notin NoAmount, award.ratio),
                         award.notes + If(odd, 1) +
                             If(reply # None /\ reply.ratio = None, 1))
    BY DEF Mediate
  <2> HIDE DEF Made
  <2>2. \E kind, amount, notes : ctx' = Made(kind, amount, notes)
    BY <2>1
  <2> QED BY <2>2 DEF Made
<1>4. ctx'.mediation.basis = ctx'.response
  BY <1>1, <1>3 DEF Context
<1> QED BY <1>2, <1>4 DEF BasisOK

LEMMA AwaitStep ==
    ASSUME Inv, RunInv, Await
    PROVE  /\ phase' = phase /\ phase = "pipeline" /\ node' = "release"
           /\ ctx' = ctx /\ ctx \in Context /\ ctx # None /\ ctx.mediation # None
           /\ record'.ctx = ctx /\ record'.mediation = ctx.mediation
           /\ record'.resolution = record.resolution
           /\ record'.escalation = record.escalation
<1>1. node = "await" /\ ctx \in Context /\ NodeOK(filing, "await", ctx) /\ ctx # None
         /\ record \in Record
  BY AtWork DEF Await, Node, Inv, TypeOK
<1>2. ctx.mediation # None /\ phase = "pipeline"
  BY <1>1 DEF NodeOK, RunInv
<1> QED BY <1>1, <1>2 DEF Await, Record

LEMMA ResolveStep ==
    ASSUME Inv, RunInv, Resolve
    PROVE  /\ phase' = phase /\ phase = "resolution"
           /\ ctx \in Context /\ ctx # None /\ record.ctx # None
           /\ Alike(ctx, record.ctx) /\ Alike(ctx', ctx)
           /\ \/ node' = "draft" /\ record' = record
              \/ /\ node' = "release"
                 /\ record'.ctx = ctx' /\ record'.escalation = "post_check"
                 /\ record'.mediation = record.mediation
                 /\ record'.resolution = record.resolution
<1>1. node = "resolve" /\ ctx \in Context /\ ctx # None /\ record \in Record
  BY AtWork DEF Resolve, Node, Inv, TypeOK
<1>2. phase = "resolution" /\ record.ctx # None /\ Alike(ctx, record.ctx)
  BY <1>1 DEF RunInv
<1>3. PICK score :
          /\ ctx' = [ctx EXCEPT !.composite = score]
          /\ \/ /\ record' = [record EXCEPT !.status = "escalated", !.ctx = ctx',
                                            !.escalation = "post_check"]
                /\ node' = "release"
             \/ node' = "draft" /\ UNCHANGED record
  BY DEF Resolve
<1>4. Alike(ctx', ctx)
  BY <1>1, <1>3 DEF Alike, Context
<1>5. phase' = phase
  BY DEF Resolve
<1> QED BY <1>1, <1>2, <1>3, <1>4, <1>5 DEF Record

Drafted == [basis |-> ctx.mediation.basis, kind |-> ctx.mediation.kind,
            amount |-> ctx.mediation.amount, via |-> ctx.via,
            signoff |-> ctx.tier = 2, binding |-> Binding, score |-> ctx.composite]

LEMMA DraftedOK ==
    ASSUME ctx \in Context, ctx.mediation # None, ctx.composite # None
    PROVE  /\ Drafted \in Order /\ Drafted # None
           /\ Drafted.basis = ctx.mediation.basis /\ Drafted.via = ctx.via
           /\ Drafted.signoff = (ctx.tier = 2)
<1>1. /\ ctx.mediation.basis \in Responses \cup {None}
      /\ ctx.mediation.kind \in Kind /\ ctx.mediation.amount \in 0 .. 1000
  BY DEF Context, Proposal
<1>2. ctx.via \in BOOLEAN /\ ctx.composite \in Nat
  BY DEF Context
<1>3. (ctx.tier = 2) \in BOOLEAN /\ Binding \in BOOLEAN
  BY DEF Binding
<1>4. Drafted \in Order
  BY <1>1, <1>2, <1>3 DEF Order, Drafted
<1> QED BY <1>4, NoneAssumption DEF Drafted

LEMMA DraftStep ==
    ASSUME Inv, RunInv, Draft
    PROVE  /\ phase' = phase /\ phase = "resolution" /\ node' = "release"
           /\ ctx \in Context /\ ctx # None /\ record.ctx # None
           /\ ctx.mediation # None /\ ctx.mediation.basis = ctx.response
           /\ Alike(ctx, record.ctx) /\ Alike(ctx', ctx)
           /\ record'.ctx = ctx' /\ record'.mediation = record.mediation
           /\ record'.escalation = record.escalation
           /\ record'.resolution # None
           /\ record'.resolution.basis = ctx.mediation.basis
           /\ record'.resolution.via = ctx.via
           /\ record'.resolution.signoff = (ctx.tier = 2)
<1>1. node = "draft" /\ ctx \in Context /\ ctx # None /\ record \in Record
         /\ NodeOK(filing, "draft", ctx)
  BY AtWork DEF Draft, Node, Inv, TypeOK
<1>2. ctx.mediation # None /\ ctx.mediation.basis = ctx.response
  BY <1>1 DEF NodeOK, Whole, RunInv, BasisOK
<1>3. phase = "resolution" /\ record.ctx # None /\ Alike(ctx, record.ctx)
  BY <1>1 DEF RunInv
<1>4. ctx.composite # None
  BY <1>1 DEF NodeOK
<1> DEFINE final == [ctx EXCEPT !.resolution = Drafted]
<1>5. ctx' = final /\ record' = [record EXCEPT !.status = "resolved", !.ctx = final,
                                               !.resolution = Drafted]
        /\ phase' = phase /\ node' = "release"
  BY DEF Draft, Drafted
<1>6. Alike(final, ctx)
  BY <1>1 DEF Alike, Context
<1> HIDE DEF final
<1>7. /\ record'.ctx = ctx' /\ record'.mediation = record.mediation
      /\ record'.escalation = record.escalation /\ record'.resolution = Drafted
  BY <1>1, <1>5 DEF Record
<1> QED BY <1>1, <1>2, <1>3, <1>4, <1>5, <1>6, <1>7, DraftedOK

LEMMA RunInvStep == Inv /\ Inv' /\ RunInv /\ [Next]_vars => RunInv'
<1> SUFFICES ASSUME Inv, Inv', RunInv, [Next]_vars PROVE RunInv'
  OBVIOUS
<1>1. CASE CheckpointA
  <2>1. BasisOK(ctx)
    BY <1>1, GateStep DEF BasisOK
  <2> QED BY <1>1, <2>1, GateStep DEF RunInv, Early
<1>2. CASE Ingest \/ Route \/ Research \/ Analyze
  BY <1>2, EarlyRunInv
<1>3. CASE Mediate
  BY <1>3, MediateStep DEF RunInv, Early
<1>4. CASE Await
  BY <1>4, AwaitStep DEF RunInv, Early
<1>5. CASE Resolve
  <2>1. BasisOK(ctx') /\ (node' = "draft" => Alike(ctx', record'.ctx))
    BY <1>5, ResolveStep DEF RunInv, BasisOK, Alike
  <2> QED BY <1>5, <2>1, ResolveStep DEF RunInv, Early
<1>6. CASE Draft
  <2>1. BasisOK(ctx')
    BY <1>6, DraftStep DEF RunInv, BasisOK, Alike
  <2> QED BY <1>6, <2>1, DraftStep DEF RunInv, Early
<1>7. CASE \/ \E submission \in Responses \cup {None} : Respond(submission)
           \/ StartPipeline
           \/ \E accept \in BOOLEAN : Decide(accept)
           \/ Raise \/ Release
  BY <1>7, PartiesRunInv
<1>8. CASE UNCHANGED vars
  BY <1>8 DEF vars, RunInv, BasisOK, Alike
<1> QED BY <1>1, <1>2, <1>3, <1>4, <1>5, <1>6, <1>7, <1>8 DEF Next, Agents

-----------------------------------------------------------------------------
(* The refinement mapping and its steps. *)

Active == [c \in {Case} |-> phase]
Outcomes == [c \in {Case} |-> Outcome]

LEMMA SameOutcome ==
    ASSUME record'.ctx = record.ctx, record'.mediation = record.mediation,
           record'.resolution = record.resolution,
           record'.escalation = record.escalation
    PROVE  Outcomes' = Outcomes
BY DEF Outcomes, Outcome, Reduced

LEMMA ReducedOf ==
    ASSUME NEW board, board # None
    PROVE  Reduced(board) = [basis |-> board.response,
                             full |-> board.mediation # None,
                             signoff |-> board.tier = 2]
BY DEF Reduced

(* Alike boards are the same to AgentRuns. *)
LEMMA AlikeReduced ==
    ASSUME NEW board, NEW other, board # None, other # None, Alike(board, other)
    PROVE  Reduced(board) = Reduced(other)
BY DEF Reduced, Alike

LEMMA StartRuns ==
    ASSUME Inv, StartPipeline \/ (\E accept \in BOOLEAN : Decide(accept))
    PROVE  Runs!Next
<1>1. record \in Record
  BY DEF Inv, TypeOK
<1>2. PICK status \in {"processing", "mediation_accepted"} :
          record' = [record EXCEPT !.status = status]
  BY DEF StartPipeline, Decide
<1>3. Outcomes' = Outcomes
  BY <1>1, <1>2, SameOutcome DEF Record
<1>4. PICK new \in {"pipeline", "resolution"} : phase = None /\ phase' = new
  BY DEF StartPipeline, Decide, Enter
<1>5. Runs!Start(Case, new)
  BY <1>3, <1>4 DEF Runs!Start, Active, Outcomes
<1> QED BY <1>5 DEF Runs!Next

LEMMA GateRuns ==
    ASSUME Inv, RunInv, CheckpointA
    PROVE  Runs!Next \/ UNCHANGED <<Active, Outcomes>>
<1>1. CASE record' = record
  BY <1>1, GateStep, SameOutcome DEF Active
<1>2. CASE record' # record
  <2> DEFINE new == [basis |-> ctx.response, full |-> FALSE, signoff |-> FALSE]
  <2>1. /\ record'.ctx = ctx /\ record'.escalation = "pre_filter"
        /\ record'.mediation = record.mediation
        /\ record'.resolution = record.resolution
        /\ ctx # None /\ ctx.mediation = None /\ ctx.tier = 0
        /\ phase = "pipeline" /\ phase' = phase
    BY <1>2, GateStep
  <2>2. Reduced(record'.ctx) = new
    <3> DEFINE full == ctx.mediation # None
               signoff == ctx.tier = 2
    <3>1. Reduced(record'.ctx) = [basis |-> ctx.response, full |-> full,
                                  signoff |-> signoff]
      BY <2>1, ReducedOf
    <3>2. full = FALSE /\ signoff = FALSE
      BY <2>1
    <3> HIDE DEF full, signoff
    <3> QED BY <3>1, <3>2
  <2>3. Outcomes' = [Outcomes EXCEPT ![Case].ctx = new,
                                     ![Case].escalation = "pre_filter"]
    <3> HIDE DEF new
    <3> QED BY <2>1, <2>2, ZenonT(60) DEF Outcomes, Outcome
  <2>4. Runs!Refuse(Case, ctx.response)
    BY <2>1, <2>3 DEF Runs!Refuse, Active, Outcomes
  <2>5. ctx.response \in Runs!Basis
    BY GateStep DEF Context, Runs!Basis
  <2> QED BY <2>4, <2>5 DEF Runs!Next
<1> QED BY <1>1, <1>2

LEMMA AwaitRuns == ASSUME Inv, RunInv, Await PROVE Runs!Next
<1> DEFINE new == [basis |-> ctx.response, full |-> TRUE, signoff |-> ctx.tier = 2]
           paper == [basis |-> ctx.response]
<1>1. Reduced(record'.ctx) = new
  <2> DEFINE full == ctx.mediation # None
  <2>1. Reduced(record'.ctx) = [basis |-> ctx.response, full |-> full,
                                signoff |-> ctx.tier = 2]
    BY AwaitStep, ReducedOf
  <2>2. full = TRUE
    BY AwaitStep
  <2> HIDE DEF full
  <2> QED BY <2>1, <2>2
<1>2. ctx.mediation.basis = ctx.response
  BY AwaitStep DEF RunInv, BasisOK
<1>3. Outcomes' = [Outcomes EXCEPT ![Case].ctx = new, ![Case].mediation = paper]
  <2> HIDE DEF new
  <2> QED BY <1>1, <1>2, AwaitStep, ZenonT(60) DEF Outcomes, Outcome
<1>4. Runs!Propose(Case, ctx.response, ctx.tier = 2)
  BY <1>3, AwaitStep DEF Runs!Propose, Active, Outcomes
<1>5. ctx.response \in Runs!Basis /\ (ctx.tier = 2) \in BOOLEAN
  BY AwaitStep DEF Context, Runs!Basis
<1> QED BY <1>4, <1>5 DEF Runs!Next

LEMMA ResolveRuns ==
    ASSUME Inv, Inv', RunInv, Resolve
    PROVE  Runs!Next \/ UNCHANGED <<Active, Outcomes>>
<1>1. CASE record' = record
  BY <1>1, ResolveStep, SameOutcome DEF Active
<1>2. CASE record' # record
  <2>1. /\ record'.ctx = ctx' /\ record'.escalation = "post_check"
        /\ record'.mediation = record.mediation
        /\ record'.resolution = record.resolution
        /\ phase = "resolution" /\ phase' = phase /\ record.ctx # None
        /\ node' = "release"
    BY <1>2, ResolveStep
  <2>2. ctx' # None
    BY <2>1 DEF Inv
  <2>3. Reduced(record'.ctx) = Reduced(record.ctx)
    <3>1. Alike(ctx', record.ctx)
      BY ResolveStep DEF Alike
    <3> QED BY <2>1, <2>2, <3>1, AlikeReduced
  <2>4. Reduced(record.ctx) # None
    <3>1. record.ctx.response \in Responses \cup {None} /\ (record.ctx.tier = 2) \in BOOLEAN
      BY <2>1 DEF Inv, RestOK, BoardOK, Context
    <3>2. Reduced(record.ctx) \in Reduction
      BY <2>1, <3>1 DEF Reduced, Reduction
    <3> QED BY <3>2, NoneAssumption
  <2>5. Outcomes' = [Outcomes EXCEPT ![Case].escalation = "post_check"]
    BY <2>1, <2>3 DEF Outcomes, Outcome
  <2>6. Runs!Escalate(Case)
    BY <2>1, <2>4, <2>5 DEF Runs!Escalate, Active, Outcomes, Outcome
  <2> QED BY <2>6 DEF Runs!Next
<1> QED BY <1>1, <1>2


LEMMA DraftRuns == ASSUME Inv, Inv', RunInv, Draft PROVE Runs!Next
<1> DEFINE board == Reduced(record.ctx)
           order == [basis |-> board.basis, via |-> ctx.via, signoff |-> board.signoff]
<1>1. /\ record'.ctx = ctx' /\ record'.mediation = record.mediation
      /\ record'.escalation = record.escalation /\ record'.resolution # None
      /\ phase = "resolution" /\ phase' = phase /\ record.ctx # None
      /\ node' = "release" /\ ctx # None /\ ctx.via \in BOOLEAN
  BY DraftStep DEF Context
<1>2. Alike(ctx, record.ctx) /\ Alike(ctx', record.ctx)
  BY DraftStep DEF Alike
<1>3. Reduced(record'.ctx) = board
  <2>1. ctx' # None
    BY <1>1 DEF Inv
  <2> QED BY <1>1, <1>2, <2>1, AlikeReduced
<1>4. /\ board # None /\ board.full
      /\ board.basis = ctx.response /\ board.signoff = (ctx.tier = 2)
  <2> DEFINE full == ctx.mediation # None
             signoff == ctx.tier = 2
  <2>1. board = [basis |-> ctx.response, full |-> full, signoff |-> signoff]
    BY <1>1, <1>2, AlikeReduced, ReducedOf
  <2>2. full = TRUE /\ signoff \in BOOLEAN /\ ctx.response \in Responses \cup {None}
    BY DraftStep DEF Context
  <2> HIDE DEF full, signoff, board
  <2>3. board \in Reduction /\ board.full = TRUE /\ board.basis = ctx.response
           /\ board.signoff = signoff
    BY <2>1, <2>2 DEF Reduction
  <2>4. board # None
    BY <2>3, NoneAssumption
  <2> QED BY <2>3, <2>4 DEF signoff
<1>5. /\ record'.resolution.basis = board.basis /\ record'.resolution.via = ctx.via
      /\ record'.resolution.signoff = board.signoff
  <2> HIDE DEF board
  <2> QED BY <1>4, DraftStep
<1> HIDE DEF board
<1>6. Outcomes' = [Outcomes EXCEPT ![Case].resolution = order]
  <2>1. Outcome'.resolution = order
    BY <1>1, <1>5 DEF Outcome
  <2>2. /\ Outcome'.ctx = Outcome.ctx /\ Outcome'.mediation = Outcome.mediation
        /\ Outcome'.escalation = Outcome.escalation
    BY <1>1, <1>3 DEF Outcome, board
  <2> HIDE DEF order
  <2>3. Outcome' = [Outcome EXCEPT !.resolution = order]
    BY <2>1, <2>2 DEF Outcome
  <2> QED BY <2>3 DEF Outcomes
<1>7. Outcomes[Case].ctx = board
  BY DEF Outcomes, Outcome, board
<1>8. Runs!Resolve(Case, ctx.via)
  BY <1>1, <1>4, <1>6, <1>7 DEF Runs!Resolve, Active, Outcomes
<1> QED BY <1>1, <1>8 DEF Runs!Next

LEMMA StepRuns ==
    ASSUME Inv, Inv', RunInv, [Next]_vars
    PROVE  Runs!Next \/ UNCHANGED <<Active, Outcomes>>
<1>1. CASE CheckpointA
  BY <1>1, GateRuns
<1>2. CASE Await
  BY <1>2, AwaitRuns
<1>3. CASE Resolve
  BY <1>3, ResolveRuns
<1>4. CASE Draft
  BY <1>4, DraftRuns
<1>5. CASE StartPipeline \/ \E accept \in BOOLEAN : Decide(accept)
  BY <1>5, StartRuns
<1>6. CASE Release
  <2>1. Outcomes' = Outcomes
    BY <1>6, SameOutcome DEF Release
  <2>2. Runs!Stop(Case)
    BY <1>6, <2>1 DEF Release, Work, Runs!Stop, Active, Outcomes
  <2> QED BY <2>2 DEF Runs!Next
<1>7. CASE \/ \E submission \in Responses \cup {None} : Respond(submission)
           \/ Raise
  <2>1. record \in Record /\ phase' = phase
    BY <1>7 DEF Respond, Raise, Inv, TypeOK
  <2>2. PICK status \in {"ready", "error"} : record' = [record EXCEPT !.status = status]
    BY <1>7 DEF Respond, Raise
  <2>3. Outcomes' = Outcomes
    BY <2>1, <2>2, SameOutcome DEF Record
  <2> QED BY <2>1, <2>3 DEF Active
<1>8. CASE Ingest \/ Route \/ Research \/ Analyze \/ Mediate
  <2>1. record' = record /\ phase' = phase
    BY <1>8 DEF Ingest, Route, Research, Analyze, Mediate
  <2> QED BY <2>1, SameOutcome DEF Active
<1>9. CASE UNCHANGED vars
  BY <1>9, SameOutcome DEF vars, Active
<1> QED BY <1>1, <1>2, <1>3, <1>4, <1>5, <1>6, <1>7, <1>8, <1>9 DEF Next, Agents

(* The graph keeps the promise CaseLifecycle makes of the agents: whatever they
   read and the model answers, one phase at a time works on the case, and an
   order repeats the blackboard that was on record when it was drafted.     *)
THEOREM AgentRunsImplemented == Spec => ImplementsAgentRuns
<1>1. Init => Runs!Init
  BY DEF Init, Runs!Init, Runs!Nothing, Outcome, Reduced
<1>2. Init => RunInv
  BY DEF Init, RunInv, Early
<1>3. Inv /\ Inv' /\ RunInv /\ [Next]_vars => [Runs!Next]_(Runs!runs)
  BY StepRuns DEF Runs!runs, Active, Outcomes
<1> QED BY <1>1, <1>2, <1>3, RunInvStep, InvCorrect, PTL
        DEF Spec, ImplementsAgentRuns, Runs!Spec
=============================================================================
