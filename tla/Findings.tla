-------------------------------- MODULE Findings --------------------------------
(***************************************************************************)
(* One case's discrepancy checks (app/agents/discrepancy.py,               *)
(* app/documents/grounding.py, app/documents/image_forensics.py): what a   *)
(* check finds, mechanically and with the model's help, what of the        *)
(* model's answer is kept, and what reaches the table.  When checks start  *)
(* is Evidence's subject.  Scores are in thousandths.                      *)
(***************************************************************************)
EXTENDS Naturals, FiniteSets, FiniteSetsExt

CONSTANTS
    Docs,
    Contents,  \* what a document may hold, see Content
    Words,     \* snippets of text
    Answers,   \* the lists of items the model may answer with
    MaxChecks, \* bound on the checks
    None

Editors == {"photoshop", "gimp"}
Image == [cv : Nat, exif : BOOLEAN, software : Editors \cup {"camera", None},
          backdated : BOOLEAN]
Content == [blank : BOOLEAN, agreement : BOOLEAN, signed : BOOLEAN, dated : BOOLEAN,
            words : SUBSET Words, scanned : BOOLEAN, ocr : 0 .. 1000,
            isImage : BOOLEAN, image : Image \cup {None}]
Item == [type : {"date_conflict", "amount_mismatch", "name_inconsistency", "missing_element",
                 "image_authenticity", "other"},
         docs : SUBSET (Docs \cup {None}), snippet : Words \cup {None},
         values : {"same", "near", "far", "number", None}]

AnswersAssumption == \A answer \in Answers : answer \subseteq Item
ContentsAssumption == Contents \subseteq Content
BoundAssumption == MaxChecks \in Nat

VARIABLES
    content,  \* of each document, once it is extracted
    complete, \* documents whose extraction is complete
    stored,   \* documents whose file can be read
    claimed,  \* whether the claim has an amount
    check,    \* the check under way
    rows,     \* the table of discrepancies
    checks    \* checks started so far

vars == <<content, complete, stored, claimed, check, rows, checks>>

Idle == [at |-> "idle"]

Init ==
    /\ content \in [Docs -> Contents]
    /\ complete = {} /\ stored = Docs
    /\ claimed \in BOOLEAN
    /\ check = Idle
    /\ rows = {} /\ checks = 0

-----------------------------------------------------------------------------
(* Image forensics: how concentrated the recompression error is, at most 1, *)
(* and what the metadata says.  None is not an image at all.                *)
Ela(i) == IF i.cv >= 1500 THEN 1000 ELSE (i.cv * 1000) \div 1500

Exif(i) ==
    IF ~i.exif THEN 150
    ELSE (IF i.software \in Editors THEN 500 ELSE 0) + (IF i.backdated THEN 500 ELSE 0)

Combined(i) == (6 * Ela(i) + 4 * Exif(i)) \div 10

ImageThreshold == 300
HighSuspicion == 700
ConfidenceFloor == 400

Mechanical(d, what, severity) ==
    [by |-> "script", type |-> what, docs |-> {d}, snippet |-> None,
     values |-> None, severity |-> severity]

ScriptedCandidates(read) ==
    {Mechanical(d, "blank", "medium") : d \in {e \in read : content[e].blank}}
    \cup {Mechanical(d, "unsigned", "medium") :
            d \in {e \in read : ~content[e].blank /\ content[e].agreement /\ ~content[e].signed}}
    \cup {Mechanical(d, "undated", "low") : d \in {e \in read : ~content[e].blank /\ ~content[e].dated}}

(* A file that cannot be read is skipped. *)
ImageCandidates(read) ==
    {Mechanical(d, "image_authenticity",
                IF Combined(content[d].image) >= HighSuspicion THEN "high" ELSE "medium") :
        d \in {e \in read \cap stored :
                  /\ content[e].isImage /\ content[e].image # None
                  /\ Combined(content[e].image) >= ImageThreshold}}

(* Mutant of VerifySources: the documents of the case, not those read. *)
VerifySourcesAny(items, read) ==
    {i \in items : i.snippet # None => \E d \in i.docs \ {None} : i.snippet \in content[d].words}

(* verify_discrepancy_sources: every document cited was read, and a snippet *)
(* that is given is in one of them.                                         *)
VerifySources(items, read) ==
    {i \in items :
        /\ i.docs # {} /\ i.docs \subseteq read
        /\ i.snippet # None => \E d \in i.docs : i.snippet \in content[d].words}

(* Severities of the model's candidates. *)
Severity(i) ==
    CASE i.type = "name_inconsistency" -> IF i.values \in {"same", "near"} THEN "low" ELSE "medium"
      [] i.type = "date_conflict" -> "medium"
      [] i.type = "amount_mismatch" ->
             CASE i.values = "number" -> "medium"
               [] i.values = "far" /\ claimed -> "high"
               [] i.values = "near" /\ claimed -> "medium"
               [] OTHER -> "low"
      [] OTHER -> "low"

ModelCandidate(i) ==
    [by |-> "model", type |-> i.type, docs |-> i.docs, snippet |-> i.snippet,
     values |-> i.values, severity |-> Severity(i)]

(* The name guard takes the length of the values; a number has none. *)
Raises(items) == \E i \in items : i.type = "name_inconsistency" /\ i.values = "number"

(* 0.6 of how well the documents were read, 0.4 of who says so; the         *)
(* confidence of a finding of the image checks is its score.                *)
Confidence(c) ==
    LET Read(d) == IF content[d].scanned THEN content[d].ocr ELSE 1000
        ocr == MapThenSumSet(Read, c.docs) \div Cardinality(c.docs)
    IN IF c.by = "script" /\ c.type = "image_authenticity"
       THEN Combined(content[CHOOSE d \in c.docs : TRUE].image)
       ELSE (6 * ocr + 4 * (IF c.by = "script" THEN 800 ELSE 600)) \div 10

Row(c) ==
    [check |-> checks, finding |-> c,
     flagged |-> c.severity = "high" \/ Confidence(c) < ConfidenceFloor]

-----------------------------------------------------------------------------
Extract(d) ==
    /\ d \notin complete
    /\ complete' = complete \cup {d}
    /\ UNCHANGED <<content, stored, claimed, check, rows, checks>>

LoseFile(d) ==
    /\ d \in stored
    /\ stored' = stored \ {d}
    /\ UNCHANGED <<content, complete, claimed, check, rows, checks>>

(* A check reads the documents that are complete and looks at each; without *)
(* one it is over at once.                                                  *)
Start ==
    /\ check.at \in {"idle", "done", "failed"} /\ checks < MaxChecks
    /\ checks' = checks + 1
    /\ check' = [at |-> IF complete = {} THEN "done" ELSE "asking", read |-> complete,
                 mechanical |-> ScriptedCandidates(complete) \cup ImageCandidates(complete),
                 todo |-> {}, kept |-> {}]
    /\ UNCHANGED <<content, complete, stored, claimed, rows>>

(* The model answers with items, or not at all; a candidate without         *)
(* documents is not considered, one that cannot be compared ends the check. *)
Answer(items) ==
    LET kept == IF items = None THEN {} ELSE VerifySources(items, check.read) IN
    /\ check.at = "asking"
    /\ check' = IF Raises(kept) THEN [check EXCEPT !.at = "failed"]
                ELSE [check EXCEPT !.at = "writing", !.kept = kept,
                                   !.todo = check.mechanical
                                            \cup {ModelCandidate(i) : i \in kept}]
    /\ UNCHANGED <<content, complete, stored, claimed, rows, checks>>

(* Row by row, the mechanical findings first. *)
Insert(c) ==
    /\ check.at = "writing" /\ c \in check.todo
    /\ c.by = "model" => \A o \in check.todo : o.by = "model"
    /\ rows' = rows \cup {Row(c)}
    /\ check' = [check EXCEPT !.todo = @ \ {c}]
    /\ UNCHANGED <<content, complete, stored, claimed, checks>>

Finish ==
    /\ check.at = "writing" /\ check.todo = {}
    /\ check' = [check EXCEPT !.at = "done"]
    /\ UNCHANGED <<content, complete, stored, claimed, rows, checks>>

(* The server stops: the rows written so far stay. *)
Stop ==
    /\ check.at \in {"asking", "writing"}
    /\ check' = Idle
    /\ UNCHANGED <<content, complete, stored, claimed, rows, checks>>

Next ==
    \/ \E d \in Docs : Extract(d) \/ LoseFile(d)
    \/ Start \/ Finish \/ Stop
    \/ \E items \in Answers \cup {None} : Answer(items)
    \/ check.at = "writing" /\ \E c \in check.todo : Insert(c)

Spec == Init /\ [][Next]_vars

-----------------------------------------------------------------------------
Reported == {r.finding : r \in {s \in rows : s.check = checks}}

(* The type invariant. *)
TypeOK ==
    /\ content \in [Docs -> Contents]
    /\ complete \subseteq Docs /\ stored \subseteq Docs /\ claimed \in BOOLEAN
    /\ check.at \in {"idle", "asking", "writing", "done", "failed"}
    /\ checks \in 0 .. MaxChecks
    /\ \A r \in rows : r.check \in 1 .. checks /\ r.flagged \in BOOLEAN

(* "Grounding drops any candidate not backed by real extracted text":       *)
(* every finding in the table is about documents that are extracted, and    *)
(* what it quotes is in one of them; and what the script says is so.        *)
FindingsAreFounded ==
    \A r \in rows :
        LET f == r.finding IN
        /\ f.docs # {} /\ f.docs \subseteq complete
        /\ f.snippet # None => \E d \in f.docs : f.snippet \in content[d].words
        /\ f.type = "undated" => \A d \in f.docs : ~content[d].dated /\ ~content[d].blank
        /\ f.severity = "high" => r.flagged

(* A check that runs to its end reports every mechanical finding, whatever  *)
(* the model answered or did not; one that fails reports none, and only a   *)
(* stopped one some.                                                        *)
ReportIsWhole ==
    /\ check.at = "done" => Reported = check.mechanical \cup {ModelCandidate(i) : i \in check.kept}
    /\ check.at \in {"asking", "failed"} => Reported = {}
=============================================================================
