------------------------------ MODULE DocumentText ------------------------------
(***************************************************************************)
(* The text of an uploaded document (app/documents/extraction.py): the     *)
(* text layer of a PDF, the Document AI service with Tesseract behind it   *)
(* for scans and images, and the speech service, with nothing behind it,   *)
(* for audio.  Job threads extract at once; each service has a breaker of  *)
(* its own.  A call may raise or run out of time whenever it is made: the  *)
(* service is down, refuses this document, sends what cannot be read, or   *)
(* the disk is full.  A breaker's cooldown ends at any time after it       *)
(* opened.                                                                 *)
(***************************************************************************)
EXTENDS Naturals, FiniteSets

CONSTANTS
    Docs, Threads,
    Kinds,       \* subset of {"native", "scanned", "long", "image", "audio"}
    Configured,  \* whether the services' key is set
    Tesseract,   \* whether Tesseract is installed
    Threshold,   \* failures that open a breaker
    None

SettingsAssumption == {Configured, Tesseract} \subseteq BOOLEAN
ThresholdAssumption == Threshold \in Nat \ {0}
DocsAssumption == IsFiniteSet(Docs)

VARIABLES
    file,     \* what each document is and holds
    breaker,  \* _ocr_breaker and _stt_breaker
    job,      \* what each thread is at
    result,   \* the ExtractionResult of each document
    raised    \* history: documents whose call to a service raised since its last answer

vars == <<file, breaker, job, result, raised>>

Services == {"ocr", "stt"}

(* Text, characters that normalize_text drops, or nothing. *)
Reading == {"words", "noise", "nothing"}

(* A PDF with a text layer is whole, and has words in it. *)
File == {f \in [kind : Kinds, holds : Reading, broken : BOOLEAN] :
            f.kind = "native" => f.holds = "words" /\ ~f.broken}

NoneAssumption == None \notin Docs \cup File

Closed == [failures |-> 0, open |-> FALSE]
Idle == [doc |-> None, at |-> "idle"]

Init ==
    /\ file = [d \in Docs |-> None]
    /\ breaker = [s \in Services |-> Closed]
    /\ job = [t \in Threads |-> Idle]
    /\ result = [d \in Docs |-> None]
    /\ raised = [s \in Services |-> {}]

-----------------------------------------------------------------------------
(* Mutant of BreakerOf: one breaker for both services. *)
BreakerOfAll(s) == "ocr"

BreakerOf(s) == s

Succeed(s) ==
    /\ breaker' = [breaker EXCEPT ![BreakerOf(s)] = Closed]
    /\ raised' = [raised EXCEPT ![s] = {}]

Fail(s, d) ==
    LET b == BreakerOf(s)
        failures == IF breaker[b].failures = Threshold THEN Threshold
                    ELSE breaker[b].failures + 1 IN
    /\ breaker' = [breaker EXCEPT ![b] =
           [failures |-> failures, open |-> @.open \/ failures = Threshold]]
    /\ raised' = [raised EXCEPT ![s] = @ \cup {d}]

Asks(s) == Configured /\ ~breaker[BreakerOf(s)].open

NormalizeText(text) == IF text = "words" THEN "words" ELSE "nothing"

Extracted(text, engine, confidence) ==
    [error |-> FALSE, raw |-> text, cleaned |-> NormalizeText(text),
     engine |-> engine, confidence |-> confidence]

Failed == [error |-> TRUE, raw |-> "nothing", cleaned |-> "nothing",
           engine |-> None, confidence |-> None]

Return(t, d, extracted) ==
    /\ result' = [result EXCEPT ![d] = extracted]
    /\ job' = [job EXCEPT ![t] = Idle]

Goto(t, d, at) ==
    /\ job' = [job EXCEPT ![t] = [doc |-> d, at |-> at]]
    /\ UNCHANGED result

(* The start of extract_document: which engine is asked first. *)
Start(t, d, f) ==
    /\ job[t].at = "idle" /\ file[d] = None
    /\ file' = [file EXCEPT ![d] = f]
    /\ \/ f.kind = "audio" /\ Asks("stt") /\ Goto(t, d, "stt")
       \/ f.kind = "audio" /\ ~Asks("stt") /\ Return(t, d, Failed)
       \/ f.kind = "native" /\ Return(t, d, Extracted(f.holds, "native", None))
       \/ f.kind \in {"scanned", "long"} /\ f.broken /\ Return(t, d, Failed)
       \/ f.kind = "long" /\ ~f.broken /\ Goto(t, d, "local")
       \/ /\ f.kind \in {"image", "scanned"} /\ (f.kind = "scanned" => ~f.broken)
          /\ Goto(t, d, IF Asks("ocr") THEN "ocr" ELSE "local")
    /\ UNCHANGED <<breaker, raised>>

At(t, at) == job[t].at = at

(* The job of Document AI ends within the poll timeout: read whole or in    *)
(* part; or failed, rejected or without text, and then Tesseract tries.     *)
OcrAnswers(t) ==
    LET d == job[t].doc IN
    /\ At(t, "ocr")
    /\ Succeed("ocr")
    /\ \/ Goto(t, d, "local")
       \/ /\ file[d].holds # "nothing" /\ ~file[d].broken
          /\ \E confidence \in {"whole", "partial"} :
                 Return(t, d, Extracted(file[d].holds, "sarvam_doc_ai", confidence))
    /\ UNCHANGED file

(* No end of the job before the timeout, or anything that raises: a failure *)
(* of the service, whoever's it was.                                        *)
OcrRaises(t) ==
    /\ At(t, "ocr")
    /\ Fail("ocr", job[t].doc)
    /\ Goto(t, job[t].doc, "local")
    /\ UNCHANGED file

(* Tesseract reads what it can, and nothing in a language it has no pack    *)
(* for.                                                                     *)
OcrImage(t) ==
    LET d == job[t].doc IN
    /\ At(t, "local")
    /\ IF Tesseract /\ ~file[d].broken
       THEN \E text \in {file[d].holds, "noise", "nothing"} :
                Return(t, d, Extracted(text, "tesseract", "measured"))
       ELSE Return(t, d, Failed)
    /\ UNCHANGED <<file, breaker, raised>>

(* The transcript, or no successful file, or nothing said. *)
SttAnswers(t) ==
    LET d == job[t].doc IN
    /\ At(t, "stt")
    /\ Succeed("stt")
    /\ \/ Return(t, d, Failed)
       \/ /\ file[d].holds # "nothing" /\ ~file[d].broken
          /\ Return(t, d, Extracted(file[d].holds, "sarvam_stt", "fixed"))
    /\ UNCHANGED file

SttRaises(t) ==
    /\ At(t, "stt")
    /\ Fail("stt", job[t].doc)
    /\ Return(t, job[t].doc, Failed)
    /\ UNCHANGED file

(* The cooldown ends; the failures counted stay. *)
CoolDown(s) ==
    /\ breaker[s].open
    /\ breaker' = [breaker EXCEPT ![s].open = FALSE]
    /\ UNCHANGED <<file, job, result, raised>>

Next ==
    \/ \E t \in Threads :
           \/ OcrAnswers(t) \/ OcrRaises(t) \/ OcrImage(t) \/ SttAnswers(t) \/ SttRaises(t)
           \/ \E d \in Docs, f \in File : Start(t, d, f)
    \/ \E s \in Services : CoolDown(s)

Spec == Init /\ [][Next]_vars

-----------------------------------------------------------------------------
Result == [error : BOOLEAN, raw : Reading, cleaned : Reading \ {"noise"},
           engine : {None, "native", "sarvam_doc_ai", "tesseract", "sarvam_stt"},
           confidence : {None, "whole", "partial", "measured", "fixed"}]

(* The type invariant; a document is extracted by one thread, once. *)
TypeOK ==
    /\ breaker \in [Services -> [failures : 0 .. Threshold, open : BOOLEAN]]
    /\ \A d \in Docs : result[d] # None => result[d] \in Result /\ file[d] \in File
    /\ \A t \in Threads :
           /\ At(t, "idle") <=> job[t].doc = None
           /\ ~At(t, "idle") => /\ result[job[t].doc] = None
                                /\ \A u \in Threads \ {t} : job[u].doc # job[t].doc

(* "a Sarvam outage degrades rather than fails outright": a document fails  *)
(* only if it is broken, if nothing local can read it, or if it is audio;   *)
(* and audio never ends as an empty transcript.                             *)
FailuresAreExplained ==
    \A d \in Docs : result[d] # None =>
        /\ result[d].error => \/ file[d].broken \/ file[d].kind = "audio"
                              \/ file[d].kind # "native" /\ ~Tesseract
        /\ file[d].kind = "audio" /\ ~result[d].error => result[d].raw # "nothing"

(* A breaker counts the calls to its own service that raised since that     *)
(* last answered, and opens for no fewer than the threshold: a document the *)
(* service answered about, failed or empty as it may be, counts for nothing,*)
(* nor do one that was read without it and the calls of the other service.  *)
(* Whose fault a call that raised was, it does not tell.                    *)
BreakersBlameTheirService ==
    \A s \in Services :
        /\ breaker[s].failures <= Cardinality(raised[s])
        /\ breaker[s].open => breaker[s].failures = Threshold
        /\ \A d \in raised[s] : file[d].kind \in IF s = "stt" THEN {"audio"} ELSE {"image", "scanned"}
=============================================================================
