---------------------------- MODULE PreliminaryReview ----------------------------
(***************************************************************************)
(* The look at a draft's evidence before it is filed                       *)
(* (app/agents/preliminary_review.py, POST /preliminary-review) and the    *)
(* live suggestion of another dispute type (POST /classify-dispute-type).  *)
(* A review reads the case's documents once and then asks the model about  *)
(* each, while uploads and extraction jobs go on; the model may stop or    *)
(* start to answer at any time.                                            *)
(***************************************************************************)
EXTENDS Integers, FiniteSets

CONSTANTS
    Docs,
    Types, Active,  \* dispute types; those that can be filed under
    None,
    Unread          \* of a document nobody has been asked about

TypesAssumption == Active \subseteq Types
DocsAssumption == IsFiniteSet(Docs)
NoneAssumption == None \notin BOOLEAN \cup {Unread} /\ Unread \notin BOOLEAN

VARIABLES
    type,        \* the case's dispute_type
    description, \* what there is of its description
    document,    \* extraction_status and text of each document of the case
    model,       \* llm.is_available, and whether it answers
    review,      \* the review under way: what it listed and what it was told
    result,      \* the answer of the last review, None while one is under way
    suggestion   \* the last answer of /classify-dispute-type

vars == <<type, description, document, model, review, result, suggestion>>

Model == {"off", "silent", "answers"}
(* Fewer than 60 characters or no digit; 60 or more with a digit; 120 or    *)
(* more without one; 120 or more with one.                                  *)
Description == {"empty", "thin", "fair", "wordy", "full"}
Status == {"pending", "processing", "complete", "failed"}
Document == [status : Status, text : BOOLEAN]

Init ==
    /\ type \in Active /\ description \in Description
    /\ document = [d \in Docs |-> None]
    /\ model \in Model
    /\ review = None /\ result = None /\ suggestion = None

Has(docs, status) == {d \in Docs : docs[d] # None /\ docs[d].status = status}

-----------------------------------------------------------------------------
Upload(d) ==
    /\ document[d] = None
    /\ document' = [document EXCEPT ![d] = [status |-> "pending", text |-> FALSE]]
    /\ UNCHANGED <<type, description, model, review, result, suggestion>>

(* An extraction job begins; it ends, a complete one perhaps without text;  *)
(* and it may raise at any step, the last one included.                     *)
Extract(d) ==
    /\ \/ /\ d \in Has(document, "pending")
          /\ document' = [document EXCEPT ![d].status = "processing"]
       \/ /\ d \in Has(document, "processing")
          /\ \E text \in BOOLEAN :
                document' = [document EXCEPT ![d] = [status |-> "complete", text |-> text]]
       \/ /\ document[d] # None /\ document[d].status # "failed"
          /\ document' = [document EXCEPT ![d].status = "failed"]
    /\ UNCHANGED <<type, description, model, review, result, suggestion>>

Change ==
    /\ model' \in Model \ {model}
    /\ UNCHANGED <<type, description, document, review, result, suggestion>>

-----------------------------------------------------------------------------
(* The list of documents, read once at the start. *)
Begin ==
    /\ review = None
    /\ review' = [docs |-> document, relevant |-> [d \in Docs |-> Unread]]
    /\ result' = None
    /\ UNCHANGED <<type, description, document, model, suggestion>>

(* Mutant of Told: without an answer the document is not relevant. *)
ToldNothing(doc) ==
    IF ~doc.text THEN {None} ELSE IF model = "answers" THEN BOOLEAN ELSE {FALSE}

(* document_relevance: None without text; without an answer, relevant. *)
Told(doc) ==
    IF ~doc.text THEN {None} ELSE IF model = "answers" THEN BOOLEAN ELSE {TRUE}

Unasked == {d \in Has(review.docs, "complete") : review.relevant[d] = Unread}

DocumentRelevance(d) ==
    /\ review # None
    /\ d \in Unasked
    /\ \E told \in Told(review.docs[d]) :
           review' = [review EXCEPT !.relevant[d] = told]
    /\ UNCHANGED <<type, description, document, model, result, suggestion>>

Least(m, n) == IF m < n THEN m ELSE n
Label(score) == IF score < 40 THEN "weak" ELSE IF score < 70 THEN "moderate" ELSE "strong"

ScriptedWinnability(relevant, count) ==
    LET score == 20 + (IF description \in {"wordy", "full"} THEN 15 ELSE 0) + 20 * Least(relevant, 3) IN
    IF count = 0 THEN Least(score, 25) ELSE score

(* What may be said of the claim's strength: the model's score and label,   *)
(* or the scripted ones, also when its score is not a number.               *)
Winnability(relevant, count) ==
    LET score == ScriptedWinnability(relevant, count)
        scripted == [score |-> score, label |-> Label(score), scripted |-> TRUE] IN
    {scripted} \cup
    (IF model = "answers"
     THEN {[score |-> n, label |-> label, scripted |-> FALSE] :
               n \in {0, 40, 100}, label \in {"weak", "moderate", "strong"}}
     ELSE {})

(* The branches of strength_note. *)
Note(listed, relevant, pending, failed) ==
    IF listed = 0 THEN "none"
    ELSE IF failed > 0 /\ relevant = 0 /\ pending = 0 THEN "unreadable"
    ELSE IF relevant = 0 /\ pending = 0 /\ failed = 0 THEN "irrelevant"
    ELSE IF pending > 0 THEN "processing"
    ELSE "relevant"

Count(status) == Cardinality(Has(review.docs, status))

(* _assess_description: nothing to read, the model's opinion, or its length *)
(* and a digit.                                                             *)
DetailedEnough ==
    IF description = "empty" THEN {FALSE}
    ELSE {description \in {"fair", "full"}} \cup (IF model = "answers" THEN BOOLEAN ELSE {})

(* Then the description and the claim as a whole.                           *)
Finish ==
    /\ review # None /\ Unasked = {}
    /\ LET listed == Cardinality({d \in Docs : review.docs[d] # None})
           relevant == Cardinality({d \in Docs : review.relevant[d] = TRUE}) IN
       \E winnability \in Winnability(relevant, listed), detailed \in DetailedEnough :
           /\ result' = [docs |-> review.docs, relevant |-> review.relevant,
                         note |-> Note(listed, relevant, Count("pending"), Count("failed")),
                         detailed |-> detailed, winnability |-> winnability]
    /\ review' = None
    /\ UNCHANGED <<type, description, document, model, suggestion>>

(* The server stops; the extraction jobs under way are lost with it. *)
Restart ==
    /\ review # None
    /\ review' = None
    /\ UNCHANGED <<type, description, document, model, result, suggestion>>

(* Another type that can be filed under, or nothing: the text is too short, *)
(* the model is off, silent or finds no mismatch, or names none of those    *)
(* it was given.                                                            *)
SuggestDisputeType(long) ==
    /\ suggestion' \in {None} \cup
           (IF long /\ model = "answers" THEN Active \ {type} ELSE {})
    /\ UNCHANGED <<type, description, document, model, review, result>>

Next ==
    \/ \E d \in Docs : Upload(d) \/ Extract(d) \/ DocumentRelevance(d)
    \/ Change \/ Begin \/ Finish \/ Restart
    \/ \E long \in BOOLEAN : SuggestDisputeType(long)

Spec == Init /\ [][Next]_vars

-----------------------------------------------------------------------------
Relevance == [Docs -> BOOLEAN \cup {None, Unread}]

(* The type invariant; what is suggested is another type, and one in use. *)
TypeOK ==
    /\ type \in Active /\ description \in Description /\ model \in Model
    /\ document \in [Docs -> Document \cup {None}]
    /\ review = None \/ review \in [docs : [Docs -> Document \cup {None}], relevant : Relevance]
    /\ suggestion \in (Active \ {type}) \cup {None}

(* What the claimant is told is of one moment and of the documents listed:  *)
(* that nothing is attached, only when nothing was; that files are waiting  *)
(* to be processed, only when some are; that files could not be, only when  *)
(* some could not and none else supports the claim; that nothing supports   *)
(* it, only when each file that was read was judged, and none to do so;     *)
(* that some do, when some do.  Files an extraction job has begun with are  *)
(* in the list and in none of the counts.                                   *)
NoteIsTrue ==
    result # None =>
        LET listed == {d \in Docs : result.docs[d] # None}
            pending == Has(result.docs, "pending")
            failed == Has(result.docs, "failed")
            relevant == {d \in Docs : result.relevant[d] = TRUE} IN
        /\ result.note = "none" <=> listed = {}
        /\ result.note = "processing" => pending # {}
        /\ result.note = "unreadable" => failed # {} /\ pending = {} /\ relevant = {}
        /\ result.note = "irrelevant" =>
               \A d \in listed \ Has(result.docs, "processing") : result.relevant[d] \in {FALSE, None}
        /\ result.note = "relevant" => relevant # {} /\ pending = {}
        /\ relevant \subseteq {d \in Has(result.docs, "complete") : result.docs[d].text}

(* "(still processing, will resolve on its own)": a claimant is not told of *)
(* files that support nothing while one of them is still being processed.   *)
NothingToldTooEarly ==
    result # None /\ result.note \in {"irrelevant", "unreadable"} =>
        Has(result.docs, "processing") = {}

(* An outage is not held against the claimant: while the model gives no     *)
(* answer each readable document counts.  A scripted score without evidence *)
(* stays at 25, is weak, and no score leaves 0 to 100.                      *)
ScoreIsFounded ==
    result # None =>
        LET win == result.winnability IN
        /\ win.score \in 0 .. 100
        /\ win.scripted /\ (\A d \in Docs : result.docs[d] = None) => win.score <= 25
        /\ win.scripted => win.label = Label(win.score)
        /\ win.scripted /\ win.label = "strong" => result.note \in {"relevant", "processing"}

NoneCondemnedInOutage ==
    \A d \in Docs :
        /\ review # None /\ review' # None /\ model # "answers"
        /\ review'.relevant[d] = FALSE
        => review.relevant[d] = FALSE

OutageCondemnsNoDocument == [][NoneCondemnedInOutage]_vars
=============================================================================
