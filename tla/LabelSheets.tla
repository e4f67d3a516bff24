------------------------------- MODULE LabelSheets -------------------------------
(***************************************************************************)
(* Checking the judge against people: a blind sheet is drawn from the      *)
(* judge's verdicts (scripts/build_human_label_sheet.py), a person labels  *)
(* it case by case, with undo, pauses and interruptions                    *)
(* (scripts/label_cases.py), and the labels are compared with the judge's  *)
(* answers (scripts/judge_human_agreement.py).  A sheet may be rebuilt     *)
(* while the labels of an older one exist.  The sheet shows what the       *)
(* scripted pipeline makes of a case when the sheet is built; the judge    *)
(* was shown what it, or a model, had made of it before.                   *)
(***************************************************************************)
EXTENDS Naturals, Sequences, FiniteSets, SequencesExt

CONSTANTS
    Cases,
    Decisions,   \* what may be decided in a case
    Decided,     \* what the scripted pipeline decides, by its sources and the day
    Days,        \* days, with the retrieval there is on them
    Judgements,  \* what the judge may have answered of the cases
    MaxVersions, \* bound on the versions of the pipeline's sources
    None         \* no answer; no decision: the case is escalated

(* `of` is the decision the judge was shown, of a live run of the pipeline  *)
(* or a scripted one.                                                       *)
JudgeAnswer == [ai : BOOLEAN, real : BOOLEAN, sim : BOOLEAN, of : Decisions, live : BOOLEAN]

DecidedAssumption == Decided \in [Cases \X (1 .. MaxVersions) \X Days -> Decisions \cup {None}]
JudgementsAssumption ==
    /\ Judgements \subseteq [Cases -> JudgeAnswer]
    /\ \A answers \in Judgements, c \in Cases :
           answers[c].live \/ \E d \in Days : answers[c].of = Decided[c, 1, d]
BoundAssumption == MaxVersions \in Nat \ {0}
CasesAssumption == IsFiniteSet(Cases)

VARIABLES
    code,    \* version of the pipeline's sources; the verdicts are of the first
    day,     \* the day, and what retrieval there is
    judged,  \* the judge's answer on each case
    sheet,   \* the cases on the sheet, in order, with what they show
    key,     \* the judge's answers kept aside
    file,    \* the labels saved so far
    session, \* the labelling session
    builds   \* sheets built so far

vars == <<code, day, judged, sheet, key, file, session, builds>>

Yes == "y"
No == "n"
Unsure == "?"
Answers == {Yes, No, Unsure}
NoneAssumption == None \notin Answers \cup Decisions

Closed == [at |-> "closed"]

(* `of` is what was on the screen, for the properties only. *)
Blank == [ai |-> None, real |-> None, sim |-> None, of |-> None]

Init ==
    /\ code = 1 /\ day \in Days
    /\ judged \in Judgements
    /\ sheet = <<>> /\ key = [c \in Cases |-> None]
    /\ file = [c \in Cases |-> Blank]
    /\ session = Closed
    /\ builds = 0

IsDone(label) == label.ai # None /\ label.real # None

-----------------------------------------------------------------------------
ChangeCode ==
    /\ code < MaxVersions
    /\ code' = code + 1
    /\ UNCHANGED <<day, judged, sheet, key, file, session, builds>>

(* Another day, or the embedding service comes or goes. *)
Turn ==
    /\ day' \in Days \ {day}
    /\ UNCHANGED <<code, judged, sheet, key, file, session, builds>>

(* The sheet is written, and the key after it.  What a row shows is decided *)
(* anew, in a scripted run; a case that is escalated now is on neither.     *)
Build(chosen) ==
    /\ builds < MaxVersions
    /\ chosen # <<>>
    /\ \A i \in DOMAIN chosen : Decided[chosen[i], code, day] # None
    /\ builds' = builds + 1
    /\ sheet' = [i \in DOMAIN chosen |->
                    [case |-> chosen[i], shows |-> Decided[chosen[i], code, day]]]
    /\ UNCHANGED <<code, day, judged, key, file, session>>

KeyOf(c) == [ai |-> judged[c].ai, real |-> judged[c].real, sim |-> judged[c].sim,
             of |-> judged[c].of]

BuildKey ==
    /\ sheet # <<>>
    /\ key' = [c \in Cases |->
                  IF \E i \in DOMAIN sheet : sheet[i].case = c THEN KeyOf(c) ELSE None]
    /\ key' # key
    /\ UNCHANGED <<code, day, judged, sheet, file, session, builds>>

-----------------------------------------------------------------------------
(* The sheet is read, the labels saved so far are put back by case, and the *)
(* session starts at the first case without one, or where the person asks.  *)
Open(goto) ==
    LET labels == [i \in DOMAIN sheet |-> file[sheet[i].case]]
        undone == {i \in DOMAIN sheet : ~IsDone(labels[i])}
    IN /\ session = Closed /\ sheet # <<>>
       /\ goto = None => undone # {}
       /\ session' = [at |-> "first", rows |-> sheet, labels |-> labels,
                      i |-> IF goto # None THEN goto
                            ELSE CHOOSE i \in undone : \A j \in undone : i <= j,
                      ai |-> None, real |-> None]
       /\ UNCHANGED <<code, day, judged, sheet, key, file, builds>>

(* The file as it is saved: the rows of the sheet that was read. *)
Saved(s) ==
    [c \in Cases |-> IF \E i \in DOMAIN s.rows : s.rows[i].case = c
                     THEN s.labels[CHOOSE i \in DOMAIN s.rows : s.rows[i].case = c]
                     ELSE Blank]

(* Mutant of Record: an undone case keeps its third answer. *)
RecordKept(sim) ==
    LET s == session
        label == [ai |-> s.ai, real |-> s.real, of |-> s.rows[s.i].shows,
                  sim |-> IF sim = None THEN s.labels[s.i].sim ELSE sim]
        done == [s EXCEPT !.labels[s.i] = label, !.at = "first", !.i = @ + 1]
    IN /\ session' = IF done.i > Len(s.rows) THEN Closed ELSE done
       /\ file' = Saved(done)

(* The answers on a case replace what it had; the file is saved and the     *)
(* next case is shown.                                                      *)
Record(sim) ==
    LET s == session
        label == [ai |-> s.ai, real |-> s.real, sim |-> sim, of |-> s.rows[s.i].shows]
        done == [s EXCEPT !.labels[s.i] = label, !.at = "first", !.i = @ + 1]
    IN /\ session' = IF done.i > Len(s.rows) THEN Closed ELSE done
       /\ file' = Saved(done)

Answer1(a) ==
    /\ session.at = "first"
    /\ session' = [session EXCEPT !.at = "second", !.ai = a]
    /\ UNCHANGED <<code, day, judged, sheet, key, file, builds>>

Answer2(a) ==
    /\ session.at = "second" /\ ~(session.ai = Yes /\ a = Yes)
    /\ session' = [session EXCEPT !.at = "noting", !.real = a]
    /\ UNCHANGED <<code, day, judged, sheet, key, file, builds>>

AskSimilar ==
    /\ session.at = "second" /\ session.ai = Yes
    /\ session' = [session EXCEPT !.at = "third", !.real = Yes]
    /\ UNCHANGED <<code, day, judged, sheet, key, file, builds>>

Answer3(a) ==
    /\ session.at = "third"
    /\ Record(a)
    /\ UNCHANGED <<code, day, judged, sheet, key, builds>>

Note ==
    /\ session.at = "noting"
    /\ Record(None)
    /\ UNCHANGED <<code, day, judged, sheet, key, builds>>

(* "b": this case again, or at its first question the one before. *)
Back ==
    /\ session.at \in {"first", "second", "third"}
    /\ session' = [session EXCEPT !.at = "first", !.ai = None, !.real = None,
                                  !.i = IF session.at = "first" /\ @ > 1 THEN @ - 1 ELSE @]
    /\ UNCHANGED <<code, day, judged, sheet, key, file, builds>>

(* "q", or an interruption: what is complete is saved once more. *)
Quit ==
    /\ session.at # "closed"
    /\ session' = Closed
    /\ file' = Saved(session)
    /\ UNCHANGED <<code, day, judged, sheet, key, builds>>

(* The terminal is gone. *)
Kill ==
    /\ session.at # "closed"
    /\ session' = Closed
    /\ UNCHANGED <<code, day, judged, sheet, key, file, builds>>

Next ==
    \/ ChangeCode \/ Turn \/ BuildKey
    \/ \E chosen \in SetToSeqs(Cases) \cup {<<c>> : c \in Cases} : Build(chosen)
    \/ \E goto \in DOMAIN sheet \cup {None} : Open(goto)
    \/ \E a \in Answers : Answer1(a) \/ Answer2(a) \/ Answer3(a)
    \/ AskSimilar \/ Note \/ Back \/ Quit \/ Kill

Spec == Init /\ [][Next]_vars

-----------------------------------------------------------------------------
(* judge_human_agreement: what is read of the labels and of the key, and    *)
(* which cases are compared on which question.                              *)
Truth(a) == CASE a = Yes -> TRUE [] a = No -> FALSE [] OTHER -> None

VerdictOf(ai, real, sim) ==
    IF None \in {ai, real} THEN None
    ELSE IF ai # real THEN "mismatch"
    ELSE IF ~ai \/ sim = None THEN None
    ELSE IF sim THEN "match" ELSE "partial"

ReadLabel(c) ==
    LET ai == Truth(file[c].ai)
        real == Truth(file[c].real)
        sim == IF ai = TRUE /\ real = TRUE THEN Truth(file[c].sim) ELSE None
    IN [ai |-> ai, real |-> real, sim |-> sim, verdict |-> VerdictOf(ai, real, sim)]

JudgeVerdict(k) == IF k.ai # k.real THEN "mismatch" ELSE IF k.sim THEN "match" ELSE "partial"

Pairs(question) ==
    {c \in Cases :
        /\ key[c] # None
        /\ CASE question \in {"ai", "real"} -> ReadLabel(c)[question] # None
             [] question = "sim" -> ReadLabel(c).sim # None /\ key[c].ai /\ key[c].real
             [] OTHER -> ReadLabel(c).verdict # None}

(* Agreement within each of the judge's verdicts. *)
Stratum(v) == {c \in Pairs("verdict") : JudgeVerdict(key[c]) = v}
Agreed(v) == {c \in Stratum(v) : ReadLabel(c).verdict = v}

Disagreements == {c \in Pairs("verdict") : ReadLabel(c).verdict # JudgeVerdict(key[c])}

-----------------------------------------------------------------------------
(* The type invariant; every case compared either agrees, in one of the     *)
(* strata, or disagrees.                                                    *)
TypeOK ==
    /\ Pairs("verdict") \ Disagreements = UNION {Agreed(v) : v \in {"match", "partial", "mismatch"}}
    /\ code \in 1 .. MaxVersions /\ day \in Days /\ builds \in 0 .. MaxVersions
    /\ judged \in Judgements
    /\ \A c \in Cases : {file[c].ai, file[c].real, file[c].sim} \subseteq Answers \cup {None}
    /\ session.at # "closed" => session.i \in DOMAIN session.rows

(* Answers that were undone leave nothing behind, so that comparable relief *)
(* is only ever recorded where the claimant prevailed twice; and where      *)
(* person and judge are compared, the person was shown a decision of that   *)
(* very case, by sources no newer than now, and the judge answered of the   *)
(* one it was shown.  They are the same decision only where the pipeline    *)
(* still decides the case as it, or a model, did then.                      *)
ComparedLikeWithLike ==
    /\ \A c \in Cases : file[c].sim # None => file[c].ai = Yes /\ file[c].real = Yes
    /\ \A c \in Pairs("verdict") :
           /\ key[c].of = judged[c].of
           /\ \E v \in 1 .. code, d \in Days : file[c].of = Decided[c, v, d]
           /\ file[c].of # None

(* "byte-identical to what the judge saw provided the verdict file was      *)
(* produced by this same code": so a sheet by the code of a scripted        *)
(* verdict would show what was judged.                                      *)
SheetShowsWhatWasJudged ==
    code = 1 => \A i \in DOMAIN sheet :
        LET c == sheet[i].case IN judged[c].live \/ sheet[i].shows = judged[c].of

(* "Every answer is saved immediately": a case that is labelled stays so,   *)
(* with the same answers, until it is labelled anew, whatever interrupts a  *)
(* session, as long as the sheet is not rebuilt.                            *)
LabelsSurvive ==
    [][\A c \in Cases :
           IsDone(file[c]) /\ file'[c] # file[c] =>
               builds > 1 \/ /\ session.at \in {"third", "noting"}
                             /\ session.rows[session.i].case = c]_vars
=============================================================================
