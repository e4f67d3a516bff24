-------------------------------- MODULE Pleadings --------------------------------
(***************************************************************************)
(* What the agents read in the parties' texts (app/agents/nlp.py) and how  *)
(* strong they find each side (app/agents/analysis.py).  A text is the set *)
(* of phrases it contains that one of the lexicons knows; scores are in    *)
(* hundredths.  AgentGraph takes the strengths as they come; here they are *)
(* computed, and two cases are compared.                                   *)
(***************************************************************************)
EXTENDS Integers, Sequences, FiniteSets

CONSTANTS
    Merits, Procedural, \* phrases of a defence: on the merits, bare objections
    Claims,             \* claims that may be filed, see Claim
    Replies,            \* replies a respondent may give, see Reply
    Readings,           \* what the model may say of a defence, None if nothing usable
    MaxCases,           \* bound on the cases handled
    None

BoundAssumption == MaxCases \in Nat

(* What a claim may ask for, in the order in which the words are looked     *)
(* for; "void" and "heirs" are found ahead of the list.                     *)
Lexicon == <<"arbitration_referral", "partition", "specific_performance", "reinstatement",
             "possession", "injunction", "declaration", "replacement">>

Phrases == {Lexicon[i] : i \in DOMAIN Lexicon} \cup {"void", "heirs", "partition of", "partition wall"}

(* Domain signals and the phrases that trigger them, as whole words. *)
Signals == [loan_default |-> {"promissory note"}, cheque_dishonour |-> {"cheque bounced"},
            non_delivery |-> {"never delivered"}]

Instruments == {"promissory note", "cheque bounced"}

Claim == [asks : SUBSET Phrases, says : SUBSET {"promissory note", "cheque bounced", "never delivered"},
          evidence : Nat, amount : Nat]
Reply == [accepts : BOOLEAN, absent : BOOLEAN, terms : SUBSET (Merits \cup Procedural),
          unsupported : BOOLEAN, counter : Nat \cup {None}]

ClaimsAssumption == Claims \subseteq Claim
RepliesAssumption == Replies \subseteq Reply \cup {None}
ReadingsAssumption == Readings \subseteq (0 .. 100) \cup {None}
PhrasesAssumption == IsFiniteSet(Merits \cup Procedural)

VARIABLES
    handled, \* cases analysed so far
    last,    \* the case analysed before the latest, with what came of it
    latest

vars == <<handled, last, latest>>

-----------------------------------------------------------------------------
AtMost(a, b) == IF a <= b THEN a ELSE b
AtLeast(a, b) == IF a >= b THEN a ELSE b

(* detect_relief_type *)
ReliefType(asks) ==
    LET hits == {i \in DOMAIN Lexicon : Lexicon[i] \in asks} IN
    CASE "arbitration_referral" \in asks -> "arbitration_referral"
      [] "arbitration_referral" \notin asks /\ "heirs" \in asks -> "heirship_declaration"
      [] asks \cap {"arbitration_referral", "heirs"} = {} /\ "void" \in asks -> "declaration"
      [] asks \cap {"arbitration_referral", "heirs", "void"} = {} /\ "partition of" \in asks -> "partition"
      [] OTHER -> IF hits = {} THEN "monetary"
                  ELSE Lexicon[CHOOSE i \in hits : \A j \in hits : i <= j]

ExtractSignals(says) == {s \in DOMAIN Signals : Signals[s] \cap says # {}}

HasDocumentaryInstrument(says) == says \cap Instruments # {}

DefendantDefaulted(reply) == ~reply.accepts /\ reply.absent

(* Mutant of ScoreDefense: one bare objection caps the whole defence. *)
ScoreDefenseCapped(reply) ==
    LET n == Cardinality(reply.terms)
        score == IF n = 1 THEN 50 ELSE IF n = 2 THEN 75 ELSE 90
    IN IF n = 0 THEN 0 ELSE IF reply.unsupported THEN 20
       ELSE IF reply.terms \cap Procedural # {} THEN AtMost(score, 30) ELSE score

(* score_defense_substance *)
ScoreDefense(reply) ==
    LET n == Cardinality(reply.terms)
        score == IF n = 1 THEN 50 ELSE IF n = 2 THEN 75 ELSE 90
    IN IF n = 0 THEN 0 ELSE IF reply.unsupported THEN 20
       ELSE IF reply.terms \subseteq Procedural THEN AtMost(score, 30) ELSE score

-----------------------------------------------------------------------------
Counted(claim) == AtMost(claim.evidence, 3)

ClaimantStrength(claim, reply) ==
    AtLeast(10, AtMost(97,
        CASE reply = None -> AtMost(55 + Counted(claim) * 13, 97)
          [] reply # None /\ reply.accepts -> AtMost(60 + Counted(claim) * 12, 97)
          [] reply # None /\ ~reply.accepts /\ DefendantDefaulted(reply) ->
                 AtMost(55 + Counted(claim) * 13, 97)
          [] OTHER ->
                 AtMost(AtMost(20 + Counted(claim) * 13, 85)
                        + (IF HasDocumentaryInstrument(claim.says) THEN 15 ELSE 0), 85)))

(* How much of the claim a counter-offer concedes, in per cent. *)
Concession(claim, reply) ==
    IF reply.counter = None \/ claim.amount = 0 THEN 0
    ELSE AtMost((100 * reply.counter) \div claim.amount, 100)

(* The model's reading of the defence, where it gave one. *)
RespondentStrength(claim, reply, reading) ==
    IF reply = None \/ reply.accepts \/ DefendantDefaulted(reply) THEN 15
    ELSE LET defence == IF reading # None THEN reading ELSE ScoreDefense(reply)
         IN AtLeast(20, AtMost(85,
                45 + (40 * defence) \div 100 - (35 * Concession(claim, reply)) \div 100))

Label(score, strong, moderate) ==
    IF score >= strong THEN "strong" ELSE IF score >= moderate THEN "moderate" ELSE "weak"

Points(claim) ==
    LET known == ExtractSignals(claim.says) IN IF known = {} THEN {"grievance"} ELSE known

(* run: the model is asked once; without a usable answer the script speaks. *)
Analysis(claim, reply, reading) ==
    LET c == ClaimantStrength(claim, reply)
        r == RespondentStrength(claim, reply, reading)
    IN [claim |-> claim, reply |-> reply, reading |-> reading,
        relief |-> ReliefType(claim.asks), points |-> Points(claim),
        claimant |-> c, respondent |-> r,
        strength |-> <<Label(c, 75, 50), Label(r, 60, 35)>>,
        contradiction |-> reply # None /\ reply.counter # None /\ reply.counter < claim.amount]

Init == handled = 0 /\ last = None /\ latest = None

Analyse(claim, reply, reading) ==
    /\ handled < MaxCases
    /\ handled' = handled + 1
    /\ last' = latest
    /\ latest' = Analysis(claim, reply, reading)

Next == \E claim \in Claims, reply \in Replies, reading \in Readings :
            Analyse(claim, reply, reading)

Spec == Init /\ [][Next]_vars

-----------------------------------------------------------------------------
(* The type invariant. *)
TypeOK ==
    /\ handled \in 0 .. MaxCases
    /\ latest # None => /\ latest.claimant \in 10 .. 97 /\ latest.respondent \in 15 .. 85
                        /\ latest.points # {}

Net(a) == a.claimant - a.respondent

(* b is the same case as a with nothing better for the respondent and       *)
(* nothing worse for the claimant.                                          *)
MoreForClaimant(a, b) ==
    /\ a.reading = b.reading /\ a.claim.amount = b.claim.amount
    /\ a.claim.says \subseteq b.claim.says /\ a.claim.evidence <= b.claim.evidence
    /\ \/ a.reply = b.reply
       \/ b.reply = None /\ a.reply # None /\ ~a.reply.accepts
       \/ /\ a.reply # None /\ b.reply # None
          /\ b.reply.accepts = a.reply.accepts /\ b.reply.absent = a.reply.absent
          /\ b.reply.terms \subseteq a.reply.terms
          /\ a.reply.unsupported => b.reply.unsupported
          /\ Concession(a.claim, a.reply) <= Concession(b.claim, b.reply)

(* "A system giving different outcomes for identical facts is a correctness *)
(* problem in itself": of two cases read alike, the one with more for the   *)
(* claimant, in evidence, in instruments, in what the respondent concedes,  *)
(* leaves unsaid or does not answer at all, is never found weaker.          *)
LikeCasesAlike ==
    last # None /\ latest # None =>
        /\ MoreForClaimant(last, latest) => Net(last) <= Net(latest)
        /\ MoreForClaimant(latest, last) => Net(latest) <= Net(last)

(* The specific ask is not masked by a generic one that comes with it: a    *)
(* claim that a deed is void, or who the heirs are, is never read as one    *)
(* for an injunction or for possession.                                     *)
SpecificReliefWins ==
    latest # None =>
        /\ "void" \in latest.claim.asks =>
               latest.relief \in {"arbitration_referral", "heirship_declaration", "declaration"}
        /\ "heirs" \in latest.claim.asks =>
               latest.relief \in {"arbitration_referral", "heirship_declaration"}
        /\ latest.relief = "partition" => latest.claim.asks # {"partition wall"}
=============================================================================
