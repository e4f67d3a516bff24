---------------------------- MODULE MCAgentGraph ----------------------------
(* Instances of AgentGraph for TLC. *)
EXTENDS AgentGraph

Claim(type, evidence, flags) ==
    [type |-> type, quantified |-> TRUE, evidence |-> evidence,
     instrument |-> FALSE, flags |-> flags]

SomeFilings ==
    {Claim("consumer_dispute", 1, {}), Claim("consumer_dispute", 3, {}),
     Claim("money_recovery", 1, {}),
     Claim("cheque_bounce", 3, {"criminal_matter"}),
     [Claim("consumer_dispute", 2, {}) EXCEPT !.instrument = TRUE,
                                              !.quantified = FALSE]}

Answer(stance, counter, flags) ==
    [stance |-> stance, counter |-> counter, flags |-> flags]

SomeResponses ==
    {Answer("accepts", 0, {}), Answer("disputes", 40, {}),
     Answer("disputes", 0, {"criminal_matter"})}

Read(subtype, signals, relevant, irrelevant, relief) ==
    [subtype |-> subtype, signals |-> signals, relevant |-> relevant,
     irrelevant |-> irrelevant, relief |-> relief]

SomeReadings ==
    {Read(TRUE, TRUE, 2, FALSE, "monetary"), Read(TRUE, FALSE, 1, TRUE, "possession"),
     Read(TRUE, FALSE, 1, FALSE, "reinstatement"),
     Read(FALSE, FALSE, 0, TRUE, "monetary"),
     Read(FALSE, TRUE, 0, FALSE, "arbitration_referral")}

Find(found, best, mean, coverage, thin) ==
    [found |-> found, best |-> best, mean |-> mean, coverage |-> coverage,
     thin |-> thin]

SomeRetrievals ==
    {Find(0, 0, 0, 1000, FALSE), Find(1, 700, 700, 500, FALSE),
     Find(3, 20, 10, 250, TRUE), Find(5, 600, 300, 400, TRUE),
     Find(5, 1000, 750, 600, FALSE)}

SomeReplies ==
    {[ratio |-> 0, oddDays |-> FALSE], [ratio |-> 30, oddDays |-> FALSE],
     [ratio |-> 650, oddDays |-> TRUE], [ratio |-> 1500, oddDays |-> FALSE],
     [ratio |-> None, oddDays |-> FALSE]}

SomeSelections ==
    {[proposed |-> 3, verified |-> 0], [proposed |-> 3, verified |-> 2]}

(* The smaller data of the run with three jobs. *)
OneFiling == {Claim("consumer_dispute", 1, {})}
OneResponse == {Answer("accepts", 0, {})}
OneReading == {Read(FALSE, FALSE, 0, TRUE, "monetary")}
OneRetrieval == {Find(3, 600, 400, 300, TRUE)}
OneReply == {[ratio |-> 700, oddDays |-> FALSE]}
=============================================================================
