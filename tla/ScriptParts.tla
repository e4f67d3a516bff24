------------------------------ MODULE ScriptParts ------------------------------
(***************************************************************************)
(* The offline scripts and the analysis of a case, which share no state,   *)
(* side by side: `part` says which one a behaviour is about, and the       *)
(* others stay as they begin.                                              *)
(***************************************************************************)
EXTENDS Integers, Sequences, FiniteSets

CONSTANTS
    A, B,                \* whatever a part has two of: processes, cases, phrases
    None, Missing, Torn,
    MaxStarts, MaxKills, MaxEdits,                                   \* bounds of several parts
    Judgments, Mirror, Orders, Complex, Categories, PerCategory,     \* sourcing
    FactWorkers, Every,                                              \* facts
    CaseIds, Facts, Codes, Rests, Outputs, Scripted, JudgeWorkers,   \* verdicts
    JudgeAnswers, Decided, MaxVersions,                              \* sheets
    Keys, EnTexts,                                                   \* strings
    Papers, Contents, Words, ModelAnswers, MaxChecks,                \* findings
    Claims, Replies, Readings, MaxCases                              \* pleadings

VARIABLES
    part,
    dataset, corpus, documents, blocked, archives, bad, run, starts, kills,
    paid, wasted, leftover,                               \* sourcing
    judgments, out, partial, amounts, sig, amt, factStarts, factKills, \* facts
    store, facts, code, rest, judging, finished, judgeStarts, edits, judgeKills, \* verdicts
    version, day, judged, sheet, key, labels, session, builds, \* sheets
    en, enEdits, strings, making, checking, report,       \* strings
    content, complete, stored, valued, check, rows, checks, \* findings
    handled, last, latest                                 \* pleadings

sVars == <<dataset, corpus, documents, blocked, archives, bad, run, starts, kills,
           paid, wasted, leftover>>
cVars == <<judgments, out, partial, amounts, sig, amt, factStarts, factKills>>
jVars == <<store, facts, code, rest, judging, finished, judgeStarts, edits, judgeKills>>
lVars == <<version, day, judged, sheet, key, labels, session, builds>>
uVars == <<en, enEdits, strings, making, checking, report>>
fVars == <<content, complete, stored, valued, check, rows, checks>>
pVars == <<handled, last, latest>>

-----------------------------------------------------------------------------
S == INSTANCE Sourcing WITH Processes <- A
C == INSTANCE CaseFacts WITH
    Cases <- A, Workers <- FactWorkers,
    dataset <- judgments, starts <- factStarts, kills <- factKills
J == INSTANCE Verdicts WITH
    Cases <- CaseIds, Workers <- JudgeWorkers, run <- judging, starts <- judgeStarts, kills <- judgeKills
L == INSTANCE LabelSheets WITH
    Cases <- CaseIds, Judgements <- JudgeAnswers, Decisions <- Outputs, Days <- Rests,
    code <- version, file <- labels
U == INSTANCE UiStrings WITH edits <- enEdits, file <- strings
F == INSTANCE Findings WITH Docs <- Papers, Answers <- ModelAnswers, claimed <- valued
P == INSTANCE Pleadings WITH Merits <- A, Procedural <- B

PartsAssumption ==
    /\ S!DocumentsAssumption /\ S!BoundsAssumption /\ S!TornAssumption
    /\ C!WorkersAssumption /\ C!BoundsAssumption /\ C!CasesAssumption
    /\ C!FilesAssumption
    /\ J!ScriptedAssumption /\ J!WorkersAssumption /\ J!BoundsAssumption
    /\ J!OutputsAssumption /\ J!FilesAssumption
    /\ L!DecidedAssumption /\ L!JudgementsAssumption /\ L!BoundAssumption /\ L!CasesAssumption /\ L!NoneAssumption
    /\ U!EnTextsAssumption /\ U!EditsAssumption
    /\ F!AnswersAssumption /\ F!ContentsAssumption /\ F!BoundAssumption
    /\ P!BoundAssumption /\ P!ClaimsAssumption /\ P!RepliesAssumption
    /\ P!ReadingsAssumption /\ P!PhrasesAssumption

-----------------------------------------------------------------------------
Parts == {"sourcing", "facts", "verdicts", "labels", "strings", "findings", "pleadings"}

Init ==
    /\ part \in Parts
    /\ S!Init /\ C!Init /\ J!Init /\ L!Init /\ U!Init /\ F!Init /\ P!Init

Next ==
    /\ UNCHANGED part
    /\ \/ /\ part = "sourcing" /\ S!Next
          /\ UNCHANGED <<cVars, jVars, lVars, uVars, fVars, pVars>>
       \/ /\ part = "facts" /\ C!Next
          /\ UNCHANGED <<sVars, jVars, lVars, uVars, fVars, pVars>>
       \/ /\ part = "verdicts" /\ J!Next
          /\ UNCHANGED <<sVars, cVars, lVars, uVars, fVars, pVars>>
       \/ /\ part = "labels" /\ L!Next
          /\ UNCHANGED <<sVars, cVars, jVars, uVars, fVars, pVars>>
       \/ /\ part = "strings" /\ U!Next
          /\ UNCHANGED <<sVars, cVars, jVars, lVars, fVars, pVars>>
       \/ /\ part = "findings" /\ F!Next
          /\ UNCHANGED <<sVars, cVars, jVars, lVars, uVars, pVars>>
       \/ /\ part = "pleadings" /\ P!Next
          /\ UNCHANGED <<sVars, cVars, jVars, lVars, uVars, fVars>>

vars == <<part, sVars, cVars, jVars, lVars, uVars, fVars, pVars>>

Spec == Init /\ [][Next]_vars

-----------------------------------------------------------------------------
(* The sourcing scripts (scripts/source_eval_judgments.py and its two free  *)
(* companions): a judgment is paid for once unless two runs overlap or one  *)
(* is killed, a nameless id is a document left over from another script, a  *)
(* judgment is one case, and cases in the dataset survive the runs that do  *)
(* not overlap.                                                             *)
SourcingIsSound ==
    /\ [](part = "sourcing" => S!TypeOK /\ S!PaidOnce /\ S!NamelessIsLeftover /\ S!OneCaseEach)
    /\ S!CasesSurvive

(* The extraction of facts (scripts/extract_case_signals.py and             *)
(* extract_claim_amounts.py): kills and second runs included, no case of    *)
(* the enriched file, no signals that were extracted and no amount is lost, *)
(* but where the scripts overlap, a run starts over or extracts again.      *)
FactsAreKept ==
    /\ [](part = "facts" => C!TypeOK)
    /\ C!OutIsComplete /\ C!SignalsSurvive /\ C!AmountsSurvive

(* The comparison with real outcomes (scripts/judge_real_outcomes.py): a    *)
(* scripted verdict is of what the scripted pipeline once made of its case, *)
(* after a scripted run with that run's fingerprint and on its facts unless *)
(* the case was skipped; a failure left behind is of that run; and a        *)
(* verdict is lost only to a run that has yet to come to its case or        *)
(* resolves it otherwise.                                                   *)
VerdictsAreCurrent ==
    /\ [](part = "verdicts" => J!TypeOK /\ J!ScriptedIsCurrent /\ J!FailedIsOfThisRun
                               /\ J!ZeroCallsMeansScripted)
    /\ J!VerdictsSurvive

(* The human labels (scripts/label_cases.py, judge_human_agreement.py):     *)
(* where person and judge are compared, the person was shown a decision of  *)
(* that case and the judge answered of the one it was shown; no answer that *)
(* was undone counts; and a label stays until the case is labelled anew.    *)
LabelsAreComparable ==
    /\ [](part = "labels" => L!TypeOK /\ L!ComparedLikeWithLike)
    /\ L!LabelsSurvive

(* The labels of the web client (scripts/translate_ui_strings.py and        *)
(* verify_translations.py): a label that lost a placeholder is reported.    *)
StringsAreChecked == part = "strings" => U!TypeOK /\ U!BrokenLabelsAreFound

(* The findings of a check (agents/discrepancy.py): each rests on documents *)
(* that were extracted, what it quotes is in one of them, and a check that  *)
(* ends has written all it found.                                           *)
FindingsRestOnDocuments ==
    part = "findings" => F!TypeOK /\ F!FindingsAreFounded /\ F!ReportIsWhole

(* The analysis of claim and defence (agents/nlp.py, analysis.py): cases    *)
(* that are alike are scored alike, one with more for the claimant is never *)
(* found weaker, and that a deed is void or the heirs are to have the       *)
(* estate is found whatever else is asked for.                              *)
PleadingsAreReadAlike ==
    part = "pleadings" => P!TypeOK /\ P!LikeCasesAlike /\ P!SpecificReliefWins

(* "re-executing it would produce byte-identical output" (scripts/          *)
(* judge_real_outcomes.py, _pipeline_fingerprint): a scripted run skips a   *)
(* case only if it would be resolved alike.                                 *)
SkippingLosesNothing == J!SkippedIsReproducible

(* "byte-identical to what the judge saw provided the verdict file was      *)
(* produced by this same code" (scripts/build_human_label_sheet.py).        *)
SheetsRepeatTheJudged == part = "labels" => L!SheetShowsWhatWasJudged
=============================================================================
