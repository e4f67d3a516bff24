--------------------------- MODULE ScriptParts_proofs ---------------------------
(* Theorems about the scripts and the analysis in ScriptParts, for every     *)
(* value of their constants.                                                 *)
EXTENDS ScriptParts, FiniteSetTheorems, WellFoundedInduction, TLAPS

-----------------------------------------------------------------------------
(* Whichever part a behaviour is about, it is one of each of them.           *)
LEMMA StepsOfScripts ==
    ASSUME [Next]_vars
    PROVE  /\ [S!Next]_(S!vars)
           /\ [C!Next]_(C!vars)
           /\ [J!Next]_(J!vars)
           /\ [L!Next]_(L!vars)
           /\ [U!Next]_(U!vars)
           /\ [F!Next]_(F!vars)
           /\ [P!Next]_(P!vars)
BY Zenon DEF Next, vars, sVars, cVars, jVars, lVars, uVars, fVars, pVars,
       S!vars, C!vars, J!vars, L!vars, U!vars, F!vars, P!vars

-----------------------------------------------------------------------------
(* What the table may say of a finding. *)
Founded(f) ==
    /\ f.docs # {} /\ f.docs \subseteq complete
    /\ f.snippet # None => \E d \in f.docs : f.snippet \in content[d].words
    /\ f.type = "undated" => \A d \in f.docs : ~content[d].dated /\ ~content[d].blank

OfModel(kept) == {F!ModelCandidate(i) : i \in kept}
Candidates == check.mechanical \cup OfModel(check.kept)

Shaped == check = [at |-> check.at, read |-> check.read, mechanical |-> check.mechanical,
                   todo |-> check.todo, kept |-> check.kept]

RowsInv == \A r \in rows : Founded(r.finding) /\ (r.finding.severity = "high" => r.flagged)

CandidatesInv == \A c \in Candidates : Founded(c)

AskingInv == check.at = "asking" => check.todo = {} /\ check.kept = {}

(* What is found is in the table or still to be written to it. *)
WholeInv ==
    /\ check.at \in {"asking", "failed"} => F!Reported = {}
    /\ check.at = "writing" => F!Reported \cup check.todo = Candidates
    /\ check.at = "done" => F!Reported = Candidates

CheckInv ==
    check.at # "idle" =>
        /\ checks # 0 /\ Shaped /\ check.read \subseteq complete
        /\ CandidatesInv /\ AskingInv /\ WholeInv

FindingsInv == F!TypeOK /\ RowsInv /\ CheckInv

(* An item that is kept cites documents that were read; none is of a type   *)
(* the script alone reports.                                                *)
LEMMA KeptIsFounded ==
    ASSUME NEW items, NEW read, items \subseteq F!Item, read \subseteq complete,
           NEW i \in F!VerifySources(items, read)
    PROVE  Founded(F!ModelCandidate(i))
<1>1. /\ i \in F!Item /\ i.docs # {} /\ i.docs \subseteq read
      /\ i.snippet # None => \E d \in i.docs : i.snippet \in content[d].words
  BY DEF F!VerifySources
<1>2. i.type # "undated"
  BY <1>1 DEF F!Item
<1>3. /\ F!ModelCandidate(i).docs = i.docs /\ F!ModelCandidate(i).snippet = i.snippet
      /\ F!ModelCandidate(i).type = i.type
  BY DEF F!ModelCandidate
<1> QED
  BY <1>1, <1>2, <1>3 DEF Founded

LEMMA MechanicalIs ==
    ASSUME NEW d, NEW what, NEW severity
    PROVE  LET c == F!Mechanical(d, what, severity)
           IN c.docs = {d} /\ c.snippet = None /\ c.type = what
BY DEF F!Mechanical

LEMMA MechanicalIsFounded ==
    ASSUME NEW c \in F!ScriptedCandidates(complete) \cup F!ImageCandidates(complete)
    PROVE  Founded(c)
<1>1. CASE \E d \in complete : \E s : c = F!Mechanical(d, "blank", s)
  BY <1>1, MechanicalIs DEF Founded
<1>2. CASE \E d \in complete : \E s : c = F!Mechanical(d, "unsigned", s)
  BY <1>2, MechanicalIs DEF Founded
<1>3. CASE \E d \in complete : \E s : /\ ~content[d].blank /\ ~content[d].dated
                                     /\ c = F!Mechanical(d, "undated", s)
  BY <1>3, MechanicalIs DEF Founded
<1>4. CASE \E d \in complete : \E s : c = F!Mechanical(d, "image_authenticity", s)
  BY <1>4, MechanicalIs DEF Founded
<1> QED
  BY <1>1, <1>2, <1>3, <1>4 DEF F!ScriptedCandidates, F!ImageCandidates

LEMMA NothingRead == F!ScriptedCandidates({}) \cup F!ImageCandidates({}) = {}
BY DEF F!ScriptedCandidates, F!ImageCandidates

LEMMA FoundedGrows ==
    ASSUME content' = content, complete \subseteq complete', NEW f, Founded(f)
    PROVE  Founded(f)'
BY DEF Founded

LEMMA FindingsInit == F!BoundAssumption /\ F!Init => FindingsInv
BY DEF F!Init, F!BoundAssumption, FindingsInv, F!TypeOK, RowsInv, CheckInv, F!Idle

(* A document more, or a file less, changes nothing that was found. *)
LEMMA CheckUntouched ==
    ASSUME FindingsInv, UNCHANGED <<content, valued, check, rows, checks>>,
           complete \subseteq complete', complete' \subseteq Papers, stored' \subseteq Papers
    PROVE  FindingsInv'
<1>1. F!TypeOK'
  BY DEF FindingsInv, F!TypeOK
<1>2. RowsInv'
  BY FoundedGrows DEF FindingsInv, RowsInv
<1>3. OfModel(check.kept)' = OfModel(check.kept)
  BY DEF OfModel, F!ModelCandidate, F!Severity
<1>4. Candidates' = Candidates /\ F!Reported' = F!Reported
  BY <1>3 DEF Candidates, F!Reported
<1>5. CheckInv'
  BY <1>4, FoundedGrows DEF FindingsInv, CheckInv, Shaped, CandidatesInv, AskingInv, WholeInv
<1> QED
  BY <1>1, <1>2, <1>5 DEF FindingsInv

LEMMA StartKeeps == FindingsInv /\ F!BoundAssumption /\ F!Start => FindingsInv'
<1> SUFFICES ASSUME FindingsInv, F!BoundAssumption, F!Start PROVE FindingsInv'
  OBVIOUS
<1> DEFINE found == F!ScriptedCandidates(complete) \cup F!ImageCandidates(complete)
           at == IF complete = {} THEN "done" ELSE "asking"
<1>1. /\ checks' = checks + 1 /\ checks < MaxChecks /\ checks \in 0 .. MaxChecks
      /\ check' = [at |-> at, read |-> complete, mechanical |-> found, todo |-> {}, kept |-> {}]
      /\ UNCHANGED <<content, complete, stored, valued, rows>>
  BY DEF F!Start, FindingsInv, F!TypeOK
<1>2. F!TypeOK'
  BY <1>1 DEF FindingsInv, F!TypeOK, F!BoundAssumption
<1>3. RowsInv'
  BY <1>1, FoundedGrows DEF FindingsInv, RowsInv
<1>4. Candidates' = found
  BY <1>1 DEF Candidates, OfModel
<1>5. F!Reported' = {}
  <2>1. \A r \in rows : r.check # checks + 1
    BY <1>1 DEF FindingsInv, F!TypeOK
  <2> QED BY <2>1, <1>1 DEF F!Reported
<1>6. CandidatesInv'
  <2>1. \A c \in found : Founded(c)
    BY MechanicalIsFounded
  <2> QED BY <2>1, <1>1, <1>4, FoundedGrows DEF CandidatesInv
<1>7. check'.at = "done" => found = {}
  BY <1>1, NothingRead
<1>8. WholeInv'
  BY <1>1, <1>4, <1>5, <1>7 DEF WholeInv
<1>9. Shaped' /\ check'.read \subseteq complete' /\ AskingInv'
  BY <1>1 DEF Shaped, AskingInv
<1>10. checks' # 0
  BY <1>1
<1> QED
  BY <1>2, <1>3, <1>6, <1>8, <1>9, <1>10 DEF FindingsInv, CheckInv

LEMMA AnswerKeeps ==
    ASSUME FindingsInv, F!AnswersAssumption, NEW items \in ModelAnswers \cup {None},
           items # None => items \subseteq F!Item, F!Answer(items)
    PROVE  FindingsInv'
<1> DEFINE kept == IF items = None THEN {} ELSE F!VerifySources(items, check.read)
<1>1. check.at = "asking" /\ UNCHANGED <<content, complete, stored, valued, rows, checks>>
  BY DEF F!Answer
<1>2. Shaped /\ check.read \subseteq complete /\ CandidatesInv /\ check.todo = {} /\ check.kept = {}
      /\ F!Reported = {}
  BY <1>1 DEF FindingsInv, CheckInv, AskingInv, WholeInv
<1>3. F!TypeOK' /\ RowsInv' /\ F!Reported' = F!Reported /\ checks' # 0
  <2>1. check'.at \in {"idle", "asking", "writing", "done", "failed"}
    BY <1>2 DEF F!Answer, Shaped
  <2>2. F!TypeOK'
    BY <1>1, <2>1 DEF FindingsInv, F!TypeOK
  <2>3. RowsInv'
    BY <1>1, FoundedGrows DEF FindingsInv, RowsInv
  <2> QED BY <1>1, <2>2, <2>3 DEF F!Reported, FindingsInv, CheckInv
<1>4. CASE F!Raises(kept)
  <2>1. check' = [at |-> "failed", read |-> check.read, mechanical |-> check.mechanical,
                  todo |-> check.todo, kept |-> check.kept]
    BY <1>2, <1>4 DEF F!Answer, Shaped
  <2>2. Candidates' = Candidates
    BY <2>1, <1>1 DEF Candidates, OfModel, F!ModelCandidate, F!Severity
  <2> QED
    BY <1>1, <1>2, <1>3, <2>1, <2>2, FoundedGrows
    DEF FindingsInv, CheckInv, Shaped, CandidatesInv, AskingInv, WholeInv
<1>5. CASE ~F!Raises(kept)
  <2>1. check' = [at |-> "writing", read |-> check.read, mechanical |-> check.mechanical,
                  todo |-> check.mechanical \cup OfModel(kept), kept |-> kept]
    BY <1>2, <1>5 DEF F!Answer, Shaped, OfModel
  <2>2. OfModel(check.kept)' = OfModel(kept)
    <3>1. check'.kept = kept
      BY <2>1
    <3>2. \A i : F!ModelCandidate(i)' = F!ModelCandidate(i)
      BY <1>1 DEF F!ModelCandidate, F!Severity
    <3> QED BY <3>1, <3>2 DEF OfModel
  <2>3. Candidates' = check.mechanical \cup OfModel(kept)
    BY <2>1, <2>2 DEF Candidates
  <2>4. \A c \in OfModel(kept) : Founded(c)
    BY <1>2, KeptIsFounded DEF OfModel
  <2>5. \A c \in check.mechanical : Founded(c)
    BY <1>2 DEF CandidatesInv, Candidates
  <2>6. CandidatesInv'
    BY <2>3, <2>4, <2>5, <1>1, FoundedGrows DEF CandidatesInv
  <2>7. WholeInv'
    BY <2>1, <2>3, <1>2, <1>3 DEF WholeInv
  <2>8. Shaped' /\ check'.read \subseteq complete' /\ AskingInv'
    BY <2>1, <1>1, <1>2 DEF Shaped, AskingInv
  <2> QED
    BY <1>3, <2>6, <2>7, <2>8 DEF FindingsInv, CheckInv
<1> QED
  BY <1>4, <1>5

LEMMA InsertKeeps ==
    ASSUME FindingsInv, NEW c \in check.todo, F!Insert(c)
    PROVE  FindingsInv'
<1>1. /\ check.at = "writing" /\ rows' = rows \cup {F!Row(c)}
      /\ UNCHANGED <<content, complete, stored, valued, checks>>
  BY DEF F!Insert
<1>2. Shaped /\ check.read \subseteq complete /\ CandidatesInv /\ F!Reported \cup check.todo = Candidates
  BY <1>1 DEF FindingsInv, CheckInv, WholeInv
<1>13. checks # 0
  BY <1>1 DEF FindingsInv, CheckInv
<1>3. check' = [at |-> "writing", read |-> check.read, mechanical |-> check.mechanical,
                todo |-> check.todo \ {c}, kept |-> check.kept]
  BY <1>1, <1>2 DEF F!Insert, Shaped
<1>4. /\ F!Row(c).check = checks /\ F!Row(c).finding = c /\ F!Row(c).flagged \in BOOLEAN
      /\ c.severity = "high" => F!Row(c).flagged
  BY DEF F!Row
<1>5. F!TypeOK'
  <2>1. checks \in 1 .. checks
    BY <1>13 DEF FindingsInv, F!TypeOK
  <2>2. \A r \in rows' : r.check \in 1 .. checks /\ r.flagged \in BOOLEAN
    BY <1>1, <1>4, <2>1, <1>13 DEF FindingsInv, F!TypeOK
  <2> QED BY <1>1, <1>3, <2>2 DEF FindingsInv, F!TypeOK
<1>6. Founded(c)
  BY <1>2 DEF CandidatesInv
<1>7. RowsInv'
  BY <1>1, <1>4, <1>6, FoundedGrows DEF FindingsInv, RowsInv
<1>8. Candidates' = Candidates
  <2>1. OfModel(check.kept)' = OfModel(check.kept)
    <3>1. \A i : F!ModelCandidate(i)' = F!ModelCandidate(i)
      BY <1>1 DEF F!ModelCandidate, F!Severity
    <3> QED BY <1>3, <3>1 DEF OfModel
  <2> QED BY <1>3, <2>1 DEF Candidates
<1>9. F!Reported' = F!Reported \cup {c}
  BY <1>1, <1>4 DEF F!Reported
<1>10. WholeInv'
  BY <1>2, <1>3, <1>8, <1>9 DEF WholeInv
<1>11. CandidatesInv'
  BY <1>1, <1>2, <1>8, FoundedGrows DEF CandidatesInv
<1>12. Shaped' /\ check'.read \subseteq complete' /\ AskingInv'
  BY <1>1, <1>2, <1>3 DEF Shaped, AskingInv
<1> QED
  BY <1>1, <1>5, <1>7, <1>10, <1>11, <1>12, <1>13 DEF FindingsInv, CheckInv

LEMMA FinishKeeps == FindingsInv /\ F!Finish => FindingsInv'
<1> SUFFICES ASSUME FindingsInv, F!Finish PROVE FindingsInv'
  OBVIOUS
<1>1. /\ check.at = "writing" /\ check.todo = {}
      /\ UNCHANGED <<content, complete, stored, valued, rows, checks>>
  BY DEF F!Finish
<1>2. Shaped /\ check.read \subseteq complete /\ CandidatesInv /\ F!Reported = Candidates
  BY <1>1 DEF FindingsInv, CheckInv, WholeInv
<1>3. check' = [at |-> "done", read |-> check.read, mechanical |-> check.mechanical,
                todo |-> check.todo, kept |-> check.kept]
  BY <1>1, <1>2 DEF F!Finish, Shaped
<1>4. F!TypeOK'
  BY <1>1, <1>3 DEF FindingsInv, F!TypeOK
<1>5. RowsInv'
  BY <1>1, FoundedGrows DEF FindingsInv, RowsInv
<1>6. Candidates' = Candidates /\ F!Reported' = F!Reported
  BY <1>1, <1>3 DEF Candidates, OfModel, F!ModelCandidate, F!Severity, F!Reported
<1>7. CandidatesInv'
  BY <1>1, <1>2, <1>6, FoundedGrows DEF CandidatesInv
<1>8. WholeInv' /\ Shaped' /\ check'.read \subseteq complete' /\ AskingInv'
  BY <1>1, <1>2, <1>3, <1>6 DEF WholeInv, Shaped, AskingInv
<1> QED
  BY <1>1, <1>4, <1>5, <1>7, <1>8 DEF FindingsInv, CheckInv

LEMMA StopKeeps == FindingsInv /\ F!Stop => FindingsInv'
<1> SUFFICES ASSUME FindingsInv, F!Stop PROVE FindingsInv'
  OBVIOUS
<1>1. check' = F!Idle /\ UNCHANGED <<content, complete, stored, valued, rows, checks>>
  BY DEF F!Stop
<1>2. RowsInv'
  BY <1>1, FoundedGrows DEF FindingsInv, RowsInv
<1> QED
  BY <1>1, <1>2 DEF FindingsInv, F!TypeOK, CheckInv, F!Idle

LEMMA FindingsStep ==
    ASSUME FindingsInv, F!AnswersAssumption, F!BoundAssumption, F!Next
    PROVE  FindingsInv'
<1>1. ASSUME NEW d \in Papers, F!Extract(d) PROVE FindingsInv'
  BY <1>1, CheckUntouched DEF F!Extract, FindingsInv, F!TypeOK
<1>2. ASSUME NEW d \in Papers, F!LoseFile(d) PROVE FindingsInv'
  BY <1>2, CheckUntouched DEF F!LoseFile, FindingsInv, F!TypeOK
<1>3. ASSUME NEW items \in ModelAnswers \cup {None}, F!Answer(items) PROVE FindingsInv'
  BY <1>3, AnswerKeeps DEF F!AnswersAssumption
<1>4. ASSUME NEW c \in check.todo, F!Insert(c) PROVE FindingsInv'
  BY <1>4, InsertKeeps
<1> QED
  BY <1>1, <1>2, <1>3, <1>4, StartKeeps, FinishKeeps, StopKeeps DEF F!Next

LEMMA FindingsStutter == FindingsInv /\ UNCHANGED F!vars => FindingsInv'
BY CheckUntouched DEF FindingsInv, F!TypeOK, F!vars

LEMMA FindingsKnow == FindingsInv => F!TypeOK /\ F!FindingsAreFounded /\ F!ReportIsWhole
<1> SUFFICES ASSUME FindingsInv PROVE F!TypeOK /\ F!FindingsAreFounded /\ F!ReportIsWhole
  OBVIOUS
<1>1. F!FindingsAreFounded
  BY DEF FindingsInv, RowsInv, Founded, F!FindingsAreFounded
<1>2. check.at \in {"asking", "failed"} => F!Reported = {}
  BY DEF FindingsInv, CheckInv, WholeInv
<1>3. check.at = "done" => F!Reported = Candidates
  BY DEF FindingsInv, CheckInv, WholeInv
<1> QED BY <1>1, <1>2, <1>3 DEF FindingsInv, F!ReportIsWhole, Candidates, OfModel
(* Every finding of a check rests on documents that were extracted, quotes   *)
(* one of them, and a check that ends has written all it found               *)
(* (agents/discrepancy.py), for any documents, answers and checks.           *)
THEOREM FindingsCorrect ==
    ASSUME PartsAssumption
    PROVE  Spec => []FindingsRestOnDocuments
<1>1. Init => FindingsInv
  BY FindingsInit DEF Init, PartsAssumption
<1>2. FindingsInv /\ [Next]_vars => FindingsInv'
  BY StepsOfScripts, FindingsStep, FindingsStutter DEF PartsAssumption
<1>3. FindingsInv => FindingsRestOnDocuments
  BY FindingsKnow DEF FindingsRestOnDocuments
<1> QED BY <1>1, <1>2, <1>3, PTL DEF Spec

-----------------------------------------------------------------------------
(* An entry has every placeholder of the text it was made of, and none of   *)
(* the numbers that stood for them.                                         *)
EntryOK(entry) == entry.text.tokens = {} /\ U!CheckPlaceholders(entry.of, entry.text)

EntriesOK(entries) == \A k \in Keys : entries[k] # None => EntryOK(entries[k])

MakingInv ==
    making # U!Idle =>
        /\ making = [at |-> "run", en |-> making.en, todo |-> making.todo, out |-> making.out]
        /\ making.todo \subseteq {k \in Keys : making.en[k] # None}
        /\ making.out = [k \in Keys |-> making.out[k]]
        /\ EntriesOK(making.out)

FileInv == strings # None => EntriesOK(strings)

(* What is noted of a label is what a comparison of the two makes of it. *)
FlagOK(english, entries, flags, k) ==
    \E similar \in BOOLEAN : flags[k] = U!Finding(english[k], entries[k], similar)

CheckingInv ==
    checking # U!Idle =>
        /\ checking = [at |-> "run", en |-> checking.en, file |-> checking.file,
                       flags |-> checking.flags, todo |-> checking.todo]
        /\ checking.flags = [k \in Keys |-> checking.flags[k]]
        /\ checking.file # None =>
               \A k \in Keys : checking.en[k] # None /\ k \notin checking.todo =>
                   FlagOK(checking.en, checking.file, checking.flags, k)

ReportInv ==
    report # None /\ report.file # None =>
        \A k \in Keys : report.en[k] # None =>
            FlagOK(report.en, report.file, report.flags, k)

StringsInv == U!TypeOK /\ MakingInv /\ FileInv /\ CheckingInv /\ ReportInv

LEMMA TranslationOK ==
    ASSUME NEW original, NEW answer \in U!Answers(U!Protect(original)),
           NEW raw \in U!Answers(U!Plain(original))
    PROVE  EntryOK(U!TranslateKey(original, answer, raw))
<1>1. /\ U!Plain(original).tokens = {}
      /\ U!CheckPlaceholders(original, U!Plain(original))
  BY DEF U!Plain, U!CheckPlaceholders
<1>2. raw # None => raw.tokens = {}
  BY <1>1 DEF U!Answers
<1>3. U!Restore(answer, U!Originals(original)).tokens = {}
  BY DEF U!Restore
<1>4. \A text, english : /\ U!Entry(text, original, english).text = text
                         /\ U!Entry(text, original, english).of = original
  BY DEF U!Entry
<1> QED
  BY <1>1, <1>2, <1>3, <1>4 DEF EntryOK, U!TranslateKey

(* A step of a run changes two fields of it. *)
LEMMA RunStep ==
    ASSUME NEW e, NEW todo, NEW made, NEW k, NEW left, NEW entry, NEW m, NEW n,
           m = [at |-> "run", en |-> e, todo |-> todo, out |-> made],
           n = [m EXCEPT !.todo = left, !.out[k] = entry]
    PROVE  /\ n = [at |-> "run", en |-> e, todo |-> left, out |-> n.out]
           /\ n.out = [made EXCEPT ![k] = entry]
OBVIOUS

LEMMA CheckStep ==
    ASSUME NEW e, NEW entries, NEW flags, NEW todo, NEW k, NEW left, NEW flag, NEW c, NEW n,
           c = [at |-> "run", en |-> e, file |-> entries, flags |-> flags, todo |-> todo],
           n = [c EXCEPT !.todo = left, !.flags[k] = flag]
    PROVE  /\ n = [at |-> "run", en |-> e, file |-> entries, flags |-> n.flags, todo |-> left]
           /\ n.flags = [flags EXCEPT ![k] = flag]
OBVIOUS

LEMMA StringsInit == U!EditsAssumption /\ U!Init => StringsInv
BY DEF U!EditsAssumption, U!Init, StringsInv, U!TypeOK, MakingInv, FileInv, CheckingInv, ReportInv

LEMMA EditKeeps ==
    ASSUME StringsInv, U!EditsAssumption, NEW k \in Keys, NEW text \in EnTexts \cup {None},
           U!EditEnglish(k, text)
    PROVE  StringsInv'
<1>1. en \in [Keys -> EnTexts \cup {None}] /\ enEdits \in 0 .. MaxEdits
  BY DEF StringsInv, U!TypeOK
<1>2. /\ enEdits' = enEdits + 1 /\ enEdits < MaxEdits /\ en' = [en EXCEPT ![k] = text]
      /\ UNCHANGED <<strings, making, checking, report>>
  BY DEF U!EditEnglish
<1>3. enEdits' \in 0 .. MaxEdits /\ en' \in [Keys -> EnTexts \cup {None}]
  BY <1>1, <1>2 DEF U!EditsAssumption
<1>4. U!TypeOK'
  BY <1>2, <1>3 DEF StringsInv, U!TypeOK
<1>5. MakingInv' /\ FileInv'
  BY <1>2 DEF StringsInv, MakingInv, FileInv, EntriesOK, EntryOK, U!CheckPlaceholders
<1>6. CheckingInv' /\ ReportInv'
  BY <1>2 DEF StringsInv, CheckingInv, ReportInv, FlagOK, U!Finding, U!CheckPlaceholders
<1> QED
  BY <1>4, <1>5, <1>6 DEF StringsInv

LEMMA StartTranslatingKeeps == StringsInv /\ U!StartTranslating => StringsInv'
<1> SUFFICES ASSUME StringsInv, U!StartTranslating PROVE StringsInv'
  OBVIOUS
<1>1. /\ making' = [at |-> "run", en |-> en, todo |-> U!Texts, out |-> [k \in Keys |-> None]]
      /\ UNCHANGED <<en, enEdits, strings, checking, report>>
  BY DEF U!StartTranslating
<1>2. U!TypeOK'
  BY <1>1 DEF StringsInv, U!TypeOK, U!Texts
<1>3. MakingInv'
  BY <1>1 DEF MakingInv, EntriesOK, U!Texts
<1>4. FileInv' /\ CheckingInv' /\ ReportInv'
  BY <1>1 DEF StringsInv, FileInv, CheckingInv, ReportInv
<1> QED
  BY <1>2, <1>3, <1>4 DEF StringsInv

LEMMA TranslateNextKeeps ==
    ASSUME StringsInv, NEW k \in Keys, U!TranslateNext(k) PROVE StringsInv'
<1>1. /\ making.at = "run" /\ UNCHANGED <<en, enEdits, strings, checking, report>>
  BY DEF U!TranslateNext
<1>2. /\ making # U!Idle
      /\ making = [at |-> "run", en |-> making.en, todo |-> making.todo, out |-> making.out]
      /\ making.todo \subseteq {j \in Keys : making.en[j] # None}
      /\ making.out = [j \in Keys |-> making.out[j]]
      /\ EntriesOK(making.out)
  BY <1>1 DEF StringsInv, MakingInv, U!Idle
<1>3. FileInv' /\ CheckingInv' /\ ReportInv'
  BY <1>1 DEF StringsInv, FileInv, CheckingInv, ReportInv
<1>4. MakingInv' => U!TypeOK'
  BY <1>1 DEF StringsInv, U!TypeOK, MakingInv
<1>5. CASE making' = U!Idle
  BY <1>3, <1>4, <1>5 DEF StringsInv, MakingInv
<1>6. CASE making' # U!Idle
  <2>1. PICK answer \in U!Answers(U!Protect(making.en[k])), raw \in U!Answers(U!Plain(making.en[k])) :
            making' = [making EXCEPT !.todo = @ \ {k},
                                     !.out[k] = U!TranslateKey(making.en[k], answer, raw)]
    BY <1>6 DEF U!TranslateNext
  <2> DEFINE entry == U!TranslateKey(making.en[k], answer, raw)
             made == [making.out EXCEPT ![k] = entry]
  <2>2. making' = [at |-> "run", en |-> making.en, todo |-> making.todo \ {k}, out |-> made]
    <3>1. PICK m : m = making
      OBVIOUS
    <3>2. PICK e, todo, done : m = [at |-> "run", en |-> e, todo |-> todo, out |-> done]
      BY <1>2, <3>1
    <3>3. making' = [m EXCEPT !.todo = todo \ {k}, !.out[k] = entry]
      BY <2>1, <3>1, <3>2
    <3>4. PICK n : n = making'
      OBVIOUS
    <3> HIDE DEF entry
    <3>5. n = [m EXCEPT !.todo = todo \ {k}, !.out[k] = entry]
      BY <3>3, <3>4
    <3>6. /\ n = [at |-> "run", en |-> e, todo |-> todo \ {k}, out |-> n.out]
          /\ n.out = [done EXCEPT ![k] = entry]
      BY <3>2, <3>5, RunStep
    <3>7. making.out = done /\ making.en = e /\ making.todo = todo
      BY <3>1, <3>2
    <3> QED BY <3>4, <3>6, <3>7
  <2>3. EntryOK(entry)
    BY TranslationOK
  <2> HIDE DEF entry
  <2>4. made = [j \in Keys |-> IF j = k THEN entry ELSE making.out[j]]
    BY <1>2
  <2>5. EntriesOK(made)
    BY <1>2, <2>3, <2>4 DEF EntriesOK
  <2>6. made = [j \in Keys |-> made[j]]
    BY <2>4
  <2> HIDE DEF made
  <2>7. MakingInv'
    BY <1>2, <2>2, <2>5, <2>6 DEF MakingInv
  <2> QED
    BY <2>7, <1>3, <1>4 DEF StringsInv
<1> QED
  BY <1>5, <1>6

LEMMA WriteDictionaryKeeps == StringsInv /\ U!WriteDictionary => StringsInv'
<1> SUFFICES ASSUME StringsInv, U!WriteDictionary PROVE StringsInv'
  OBVIOUS
<1>1. /\ making.at = "run" /\ strings' = making.out /\ making' = U!Idle
      /\ UNCHANGED <<en, enEdits, checking, report>>
  BY DEF U!WriteDictionary
<1>2. EntriesOK(making.out)
  BY <1>1 DEF StringsInv, MakingInv, U!Idle
<1>3. FileInv' /\ MakingInv'
  BY <1>1, <1>2 DEF FileInv, MakingInv
<1>4. U!TypeOK'
  BY <1>1, <1>2 DEF StringsInv, U!TypeOK, EntriesOK, EntryOK
<1>5. CheckingInv' /\ ReportInv'
  BY <1>1 DEF StringsInv, CheckingInv, ReportInv
<1> QED
  BY <1>3, <1>4, <1>5 DEF StringsInv

LEMMA StartCheckingKeeps == StringsInv /\ U!StartChecking => StringsInv'
<1> SUFFICES ASSUME StringsInv, U!StartChecking PROVE StringsInv'
  OBVIOUS
<1>1. /\ checking' = [at |-> "run", en |-> en, file |-> strings, flags |-> [k \in Keys |-> None],
                      todo |-> IF strings = None THEN {} ELSE U!Texts]
      /\ UNCHANGED <<en, enEdits, strings, making, report>>
  BY DEF U!StartChecking
<1>2. CheckingInv'
  BY <1>1 DEF CheckingInv, U!Texts
<1>3. U!TypeOK' /\ MakingInv' /\ FileInv' /\ ReportInv'
  BY <1>1 DEF StringsInv, U!TypeOK, MakingInv, FileInv, ReportInv
<1> QED
  BY <1>2, <1>3 DEF StringsInv

LEMMA CheckNextKeeps ==
    ASSUME StringsInv, NEW k \in Keys, U!CheckNext(k) PROVE StringsInv'
<1>1. /\ checking.at = "run" /\ k \in checking.todo
      /\ UNCHANGED <<en, enEdits, strings, making, report>>
  BY DEF U!CheckNext
<1>2. /\ checking = [at |-> "run", en |-> checking.en, file |-> checking.file,
                     flags |-> checking.flags, todo |-> checking.todo]
      /\ checking.flags = [j \in Keys |-> checking.flags[j]]
      /\ checking.file # None =>
             \A j \in Keys : checking.en[j] # None /\ j \notin checking.todo =>
                 FlagOK(checking.en, checking.file, checking.flags, j)
  BY <1>1 DEF StringsInv, CheckingInv, U!Idle
<1>3. PICK similar \in BOOLEAN :
          checking' = [checking EXCEPT
              !.todo = @ \ {k},
              !.flags[k] = U!Finding(checking.en[k], checking.file[k], similar)]
  BY DEF U!CheckNext
<1> DEFINE found == U!Finding(checking.en[k], checking.file[k], similar)
           flags == [checking.flags EXCEPT ![k] = found]
<1>4. checking' = [at |-> "run", en |-> checking.en, file |-> checking.file, flags |-> flags,
                   todo |-> checking.todo \ {k}]
  <2>1. PICK c : c = checking
    OBVIOUS
  <2>2. PICK e, entries, noted, todo :
            c = [at |-> "run", en |-> e, file |-> entries, flags |-> noted, todo |-> todo]
    BY <1>2, <2>1
  <2>3. checking' = [c EXCEPT !.todo = todo \ {k}, !.flags[k] = found]
    BY <1>3, <2>1, <2>2
  <2>4. PICK n : n = checking'
    OBVIOUS
  <2> HIDE DEF found
  <2>5. n = [c EXCEPT !.todo = todo \ {k}, !.flags[k] = found]
    BY <2>3, <2>4
  <2>6. /\ n = [at |-> "run", en |-> e, file |-> entries, flags |-> n.flags, todo |-> todo \ {k}]
        /\ n.flags = [noted EXCEPT ![k] = found]
    BY <2>2, <2>5, CheckStep
  <2>7. /\ checking.en = e /\ checking.file = entries
        /\ checking.flags = noted /\ checking.todo = todo
    BY <2>1, <2>2
  <2> QED BY <2>4, <2>6, <2>7
<1>5. flags = [j \in Keys |-> IF j = k THEN found ELSE checking.flags[j]]
  BY <1>2
<1>6. flags = [j \in Keys |-> flags[j]]
  BY <1>5
<1>7. ASSUME checking.file # None, NEW j \in Keys, checking.en[j] # None,
             j \notin checking.todo \ {k}
      PROVE  FlagOK(checking.en, checking.file, flags, j)
  <2>1. CASE j = k
    BY <2>1, <1>5 DEF FlagOK
  <2>2. CASE j # k
    <3>1. FlagOK(checking.en, checking.file, checking.flags, j)
      BY <2>2, <1>2, <1>7
    <3>2. flags[j] = checking.flags[j]
      BY <2>2, <1>5
    <3> QED BY <3>1, <3>2 DEF FlagOK
  <2> QED BY <2>1, <2>2
<1> HIDE DEF flags, found
<1>8. CheckingInv'
  <2>1. \A j \in Keys : FlagOK(checking.en, checking.file, checking.flags, j)' <=>
                            FlagOK(checking.en, checking.file, flags, j)
    BY <1>4 DEF FlagOK, U!Finding, U!CheckPlaceholders
  <2> QED
    BY <1>4, <1>6, <1>7, <2>1 DEF CheckingInv
<1>9. U!TypeOK' /\ MakingInv' /\ FileInv' /\ ReportInv'
  BY <1>1 DEF StringsInv, U!TypeOK, MakingInv, FileInv, ReportInv
<1> QED
  BY <1>8, <1>9 DEF StringsInv

LEMMA WriteReportKeeps == StringsInv /\ U!WriteReport => StringsInv'
<1> SUFFICES ASSUME StringsInv, U!WriteReport PROVE StringsInv'
  OBVIOUS
<1>1. /\ checking.at = "run" /\ checking.todo = {}
      /\ report' = [en |-> checking.en, file |-> checking.file, flags |-> checking.flags]
      /\ checking' = U!Idle
      /\ UNCHANGED <<en, enEdits, strings, making>>
  BY DEF U!WriteReport
<1>2. checking.file # None =>
          \A k \in Keys : checking.en[k] # None =>
              FlagOK(checking.en, checking.file, checking.flags, k)
  BY <1>1 DEF StringsInv, CheckingInv, U!Idle
<1>3. CheckingInv'
  BY <1>1 DEF CheckingInv
<1>4. ReportInv'
  <2>1. \A k \in Keys : FlagOK(checking.en, checking.file, checking.flags, k)
                        => FlagOK(report.en, report.file, report.flags, k)'
    BY <1>1 DEF FlagOK, U!Finding, U!CheckPlaceholders
  <2> QED BY <1>1, <1>2, <2>1 DEF ReportInv
<1>5. U!TypeOK' /\ MakingInv' /\ FileInv'
  BY <1>1 DEF StringsInv, U!TypeOK, MakingInv, FileInv
<1> QED
  BY <1>3, <1>4, <1>5 DEF StringsInv

LEMMA StringsStep == StringsInv /\ U!EditsAssumption /\ [U!Next]_(U!vars) => StringsInv'
<1> SUFFICES ASSUME StringsInv, U!EditsAssumption, [U!Next]_(U!vars) PROVE StringsInv'
  OBVIOUS
<1>1. CASE UNCHANGED U!vars
  BY <1>1 DEF U!vars, StringsInv, U!TypeOK, MakingInv, FileInv, CheckingInv, ReportInv
<1>2. CASE U!Next
  BY <1>2, EditKeeps, StartTranslatingKeeps, TranslateNextKeeps, WriteDictionaryKeeps,
     StartCheckingKeeps, CheckNextKeeps, WriteReportKeeps DEF U!Next
<1> QED
  BY <1>1, <1>2

(* What is shown without an entry is the English text. *)
LEMMA StringsKnow == StringsInv => U!TypeOK /\ U!BrokenLabelsAreFound
<1> SUFFICES ASSUME StringsInv, NEW k \in U!Texts, ~U!CheckPlaceholders(en[k], U!Shown(k))
             PROVE  /\ strings[k].of # en[k]
                    /\ report # None /\ report.en = en /\ report.file = strings =>
                           report.flags[k] = "placeholder_mismatch"
  BY DEF U!BrokenLabelsAreFound, StringsInv
<1>1. U!CheckPlaceholders(en[k], U!Plain(en[k]))
  BY DEF U!CheckPlaceholders, U!Plain
<1>2. strings # None /\ strings[k] # None /\ U!Shown(k) = strings[k].text
  BY <1>1 DEF U!Shown
<1>3. k \in Keys /\ en[k] # None
  BY DEF U!Texts
<1>4. EntryOK(strings[k])
  BY <1>2, <1>3 DEF StringsInv, FileInv, EntriesOK
<1>5. strings[k].of # en[k]
  BY <1>2, <1>4 DEF EntryOK
<1>6. ASSUME report # None, report.en = en, report.file = strings
      PROVE  report.flags[k] = "placeholder_mismatch"
  <2>1. FlagOK(report.en, report.file, report.flags, k)
    BY <1>2, <1>3, <1>6 DEF StringsInv, ReportInv
  <2> QED
    BY <2>1, <1>2, <1>6 DEF FlagOK, U!Finding
<1> QED
  BY <1>5, <1>6
(* A label that lost a placeholder is reported by any verification that read *)
(* it, whatever the service made of the texts, the edits and the two scripts *)
(* in any order (translate_ui_strings.py, verify_translations.py), for any   *)
(* number of labels.                                                         *)
THEOREM StringsCorrect ==
    ASSUME PartsAssumption
    PROVE  Spec => []StringsAreChecked
<1>1. Init => StringsInv
  BY StringsInit DEF Init, PartsAssumption
<1>2. StringsInv /\ [Next]_vars => StringsInv'
  BY StepsOfScripts, StringsStep DEF PartsAssumption
<1>3. StringsInv => StringsAreChecked
  BY StringsKnow DEF StringsAreChecked
<1> QED BY <1>1, <1>2, <1>3, PTL DEF Spec

-----------------------------------------------------------------------------
Pleadable ==
    /\ P!BoundAssumption /\ P!ClaimsAssumption /\ P!RepliesAssumption
    /\ P!ReadingsAssumption /\ P!PhrasesAssumption

Analysed(a) ==
    \E claim \in Claims, reply \in Replies, reading \in Readings :
        a = P!Analysis(claim, reply, reading)

PleadingsInv ==
    /\ handled \in 0 .. MaxCases
    /\ last # None => Analysed(last)
    /\ latest # None => Analysed(latest)

LEMMA PleadingsInit == P!BoundAssumption /\ P!Init => PleadingsInv
BY DEF P!BoundAssumption, P!Init, PleadingsInv

LEMMA PleadingsStep == PleadingsInv /\ P!BoundAssumption /\ [P!Next]_(P!vars) => PleadingsInv'
<1> SUFFICES ASSUME PleadingsInv, P!BoundAssumption, [P!Next]_(P!vars) PROVE PleadingsInv'
  OBVIOUS
<1>1. CASE UNCHANGED P!vars
  BY <1>1 DEF P!vars, PleadingsInv, Analysed
<1>2. ASSUME NEW claim \in Claims, NEW reply \in Replies, NEW reading \in Readings,
             P!Analyse(claim, reply, reading)
      PROVE  PleadingsInv'
  <2>1. handled' = handled + 1 /\ handled < MaxCases /\ last' = latest
        /\ latest' = P!Analysis(claim, reply, reading)
    BY <1>2 DEF P!Analyse
  <2>2. Analysed(latest')
    BY <2>1 DEF Analysed
  <2> QED
    BY <2>1, <2>2 DEF PleadingsInv, P!BoundAssumption, Analysed
<1> QED
  BY <1>1, <1>2 DEF P!Next

LEMMA ClaimIs ==
    ASSUME NEW claim \in P!Claim PROVE claim.evidence \in Nat /\ claim.amount \in Nat
BY DEF P!Claim

LEMMA ReplyIs ==
    ASSUME NEW reply \in P!Reply
    PROVE  /\ reply.counter \in Nat \cup {None} /\ reply.accepts \in BOOLEAN
           /\ reply.absent \in BOOLEAN /\ reply.unsupported \in BOOLEAN
BY DEF P!Reply

LEMMA CountedIs ==
    ASSUME NEW claim \in P!Claim PROVE P!Counted(claim) \in 0 .. 3
BY ClaimIs DEF P!Counted, P!AtMost

(* Scores of the claimant. *)
LEMMA ClaimantIs ==
    ASSUME NEW claim \in P!Claim, NEW reply \in P!Reply \cup {None}
    PROVE  P!ClaimantStrength(claim, reply) \in 10 .. 97
<1> DEFINE raw ==
        CASE reply = None -> P!AtMost(55 + P!Counted(claim) * 13, 97)
          [] reply # None /\ reply.accepts -> P!AtMost(60 + P!Counted(claim) * 12, 97)
          [] reply # None /\ ~reply.accepts /\ P!DefendantDefaulted(reply) ->
                 P!AtMost(55 + P!Counted(claim) * 13, 97)
          [] OTHER ->
                 P!AtMost(P!AtMost(20 + P!Counted(claim) * 13, 85)
                          + (IF P!HasDocumentaryInstrument(claim.says) THEN 15 ELSE 0), 85)
<1>1. raw \in Int
  <2>1. CASE reply = None
    BY <2>1, CountedIs DEF P!AtMost
  <2>2. CASE reply # None /\ reply.accepts
    BY <2>2, CountedIs DEF P!AtMost
  <2>3. CASE reply # None /\ ~reply.accepts /\ P!DefendantDefaulted(reply)
    BY <2>3, CountedIs DEF P!AtMost
  <2>4. CASE reply # None /\ ~reply.accepts /\ ~P!DefendantDefaulted(reply)
    BY <2>4, CountedIs DEF P!AtMost
  <2> QED BY <2>1, <2>2, <2>3, <2>4
<1> HIDE DEF raw
<1>2. P!AtLeast(10, P!AtMost(97, raw)) \in 10 .. 97
  BY <1>1 DEF P!AtLeast, P!AtMost
<1> QED
  BY <1>2 DEF P!ClaimantStrength, raw

(* More evidence or an instrument more never lowers it, and neither does a  *)
(* respondent who stays silent instead of contesting.                       *)
LEMMA ClaimantGrows ==
    ASSUME NEW c \in P!Claim, NEW d \in P!Claim, NEW r \in P!Reply \cup {None},
           NEW s \in P!Reply \cup {None},
           c.says \subseteq d.says, c.evidence <= d.evidence,
           \/ r = s
           \/ s = None /\ r # None /\ ~r.accepts
           \/ r # None /\ s # None /\ s.accepts = r.accepts /\ s.absent = r.absent
    PROVE  P!ClaimantStrength(c, r) <= P!ClaimantStrength(d, s)
<1>1. P!Counted(c) \in 0 .. 3 /\ P!Counted(d) \in 0 .. 3 /\ P!Counted(c) <= P!Counted(d)
  BY CountedIs, ClaimIs DEF P!Counted, P!AtMost
<1>2. P!HasDocumentaryInstrument(c.says) => P!HasDocumentaryInstrument(d.says)
  BY DEF P!HasDocumentaryInstrument
<1>3. CASE r = None
  BY <1>1, <1>3 DEF P!ClaimantStrength, P!AtMost, P!AtLeast
<1>4. CASE s = None /\ r # None /\ ~r.accepts
  <2>1. CASE P!DefendantDefaulted(r)
    BY <1>1, <1>4, <2>1 DEF P!ClaimantStrength, P!AtMost, P!AtLeast
  <2>2. CASE ~P!DefendantDefaulted(r)
    BY <1>1, <1>4, <2>2 DEF P!ClaimantStrength, P!AtMost, P!AtLeast
  <2> QED BY <2>1, <2>2
<1>5. CASE r # None /\ s # None /\ s.accepts = r.accepts /\ s.absent = r.absent
  <2>1. P!DefendantDefaulted(r) <=> P!DefendantDefaulted(s)
    BY <1>5 DEF P!DefendantDefaulted
  <2>2. CASE r.accepts
    BY <1>1, <1>5, <2>2 DEF P!ClaimantStrength, P!AtMost, P!AtLeast
  <2>3. CASE ~r.accepts /\ P!DefendantDefaulted(r)
    BY <1>1, <1>5, <2>1, <2>3 DEF P!ClaimantStrength, P!AtMost, P!AtLeast
  <2>4. CASE ~r.accepts /\ ~P!DefendantDefaulted(r)
    BY <1>1, <1>2, <1>5, <2>1, <2>4 DEF P!ClaimantStrength, P!AtMost, P!AtLeast
  <2> QED BY <2>2, <2>3, <2>4
<1> QED
  BY <1>3, <1>4, <1>5

-----------------------------------------------------------------------------
(* Scores of the respondent. *)
LEMMA SameSize == \A set : P!Cardinality(set) = Cardinality(set)
BY Zenon DEF P!Cardinality, Cardinality

LEMMA DefenceIs ==
    ASSUME NEW r \in P!Reply, P!PhrasesAssumption
    PROVE  IsFiniteSet(r.terms) /\ Cardinality(r.terms) \in Nat /\ P!ScoreDefense(r) \in 0 .. 100
<1>1. IsFiniteSet(A \cup B)
  BY Zenon DEF P!PhrasesAssumption, P!IsFiniteSet, IsFiniteSet
<1>2. IsFiniteSet(r.terms)
  BY <1>1, FS_Subset DEF P!Reply
<1>3. Cardinality(r.terms) \in Nat
  BY <1>2, FS_CardinalityType
<1> QED
  BY <1>2, <1>3, SameSize DEF P!ScoreDefense, P!AtMost

(* A defence that says less scores no more. *)
LEMMA DefenceGrows ==
    ASSUME NEW r \in P!Reply, NEW s \in P!Reply, P!PhrasesAssumption,
           s.terms \subseteq r.terms, r.unsupported => s.unsupported
    PROVE  P!ScoreDefense(s) <= P!ScoreDefense(r)
<1>1. /\ Cardinality(r.terms) \in Nat /\ Cardinality(s.terms) \in Nat
      /\ Cardinality(s.terms) <= Cardinality(r.terms)
  BY DefenceIs, FS_Subset
<1>2. r.unsupported \in BOOLEAN /\ s.unsupported \in BOOLEAN
  BY DEF P!Reply
<1>3. r.terms \subseteq B => s.terms \subseteq B
  OBVIOUS
<1> QED
  BY <1>1, <1>2, <1>3, SameSize DEF P!ScoreDefense, P!AtMost

LEMMA ConcessionIs ==
    ASSUME NEW claim \in P!Claim, NEW reply \in P!Reply
    PROVE  P!Concession(claim, reply) \in Int
<1>1. CASE reply.counter = None \/ claim.amount = 0
  BY <1>1 DEF P!Concession
<1>2. CASE ~(reply.counter = None \/ claim.amount = 0)
  <2>1. 100 * reply.counter \in Nat /\ claim.amount \in Nat \ {0}
    BY <1>2, ClaimIs, ReplyIs
  <2>2. \A x \in Nat, y \in Nat \ {0} : x \div y \in Int
    OBVIOUS
  <2>3. (100 * reply.counter) \div claim.amount \in Int
    BY <2>1, <2>2
  <2> QED BY <1>2, <2>3 DEF P!Concession, P!AtMost
<1> QED
  BY <1>1, <1>2

Defence(reply, reading) == IF reading # None THEN reading ELSE P!ScoreDefense(reply)

Contested(reply) == reply # None /\ ~reply.accepts /\ ~P!DefendantDefaulted(reply)

(* How the score comes of the defence and of what it concedes. *)
Contest(defence, concession) ==
    P!AtLeast(20, P!AtMost(85, 45 + (40 * defence) \div 100 - (35 * concession) \div 100))

LEMMA RespondentDef ==
    ASSUME NEW claim, NEW reply, NEW reading
    PROVE  P!RespondentStrength(claim, reply, reading)
               = IF Contested(reply)
                 THEN Contest(Defence(reply, reading), P!Concession(claim, reply)) ELSE 15
BY DEF P!RespondentStrength, Contested, Contest, Defence

LEMMA ContestIs ==
    ASSUME NEW defence \in Int, NEW concession \in Int
    PROVE  Contest(defence, concession) \in 20 .. 85
<1>1. (40 * defence) \div 100 \in Int /\ (35 * concession) \div 100 \in Int
  OBVIOUS
<1> QED BY <1>1 DEF Contest, P!AtLeast, P!AtMost

LEMMA ContestGrows ==
    ASSUME NEW d \in Int, NEW e \in Int, NEW c \in Int, NEW f \in Int, d <= e, f <= c
    PROVE  Contest(d, c) <= Contest(e, f)
<1>1. (40 * d) \div 100 <= (40 * e) \div 100 /\ (40 * d) \div 100 \in Int /\ (40 * e) \div 100 \in Int
  OBVIOUS
<1>2. (35 * f) \div 100 <= (35 * c) \div 100 /\ (35 * f) \div 100 \in Int /\ (35 * c) \div 100 \in Int
  OBVIOUS
<1> QED BY <1>1, <1>2 DEF Contest, P!AtLeast, P!AtMost

LEMMA DefenceOf ==
    ASSUME NEW reply \in P!Reply, NEW reading \in (0 .. 100) \cup {None}, P!PhrasesAssumption
    PROVE  Defence(reply, reading) \in 0 .. 100
BY DefenceIs DEF Defence

LEMMA RespondentIs ==
    ASSUME NEW claim \in P!Claim, NEW reply \in P!Reply \cup {None},
           NEW reading \in (0 .. 100) \cup {None}, P!PhrasesAssumption
    PROVE  P!RespondentStrength(claim, reply, reading) \in 15 .. 85
<1>1. CASE ~Contested(reply)
  BY <1>1, RespondentDef
<1>2. CASE Contested(reply)
  <2>1. reply \in P!Reply
    BY <1>2 DEF Contested
  <2>2. Defence(reply, reading) \in Int /\ P!Concession(claim, reply) \in Int
    BY <2>1, DefenceOf, ConcessionIs
  <2>3. Contest(Defence(reply, reading), P!Concession(claim, reply)) \in 20 .. 85
    BY <2>2, ContestIs
  <2> QED BY <1>2, <2>3, RespondentDef
<1> QED BY <1>1, <1>2

LEMMA RespondentShrinks ==
    ASSUME NEW c \in P!Claim, NEW d \in P!Claim, NEW r \in P!Reply \cup {None},
           NEW s \in P!Reply \cup {None},
           NEW reading \in (0 .. 100) \cup {None}, P!PhrasesAssumption,
           c.amount = d.amount,
           \/ r = s
           \/ s = None /\ r # None /\ ~r.accepts
           \/ /\ r # None /\ s # None
              /\ s.accepts = r.accepts /\ s.absent = r.absent
              /\ s.terms \subseteq r.terms
              /\ r.unsupported => s.unsupported
              /\ P!Concession(c, r) <= P!Concession(d, s)
    PROVE  P!RespondentStrength(d, s, reading) <= P!RespondentStrength(c, r, reading)
<1>1. CASE ~Contested(s)
  <2>1. P!RespondentStrength(d, s, reading) = 15
    BY <1>1, RespondentDef
  <2>2. P!RespondentStrength(c, r, reading) \in 15 .. 85
    BY RespondentIs
  <2> QED BY <2>1, <2>2
<1>2. CASE Contested(s)
  <2>1. s \in P!Reply /\ s # None
    BY <1>2 DEF Contested
  <2>2. r \in P!Reply /\ Contested(r)
    BY <1>2, <2>1 DEF Contested, P!DefendantDefaulted
  <2>3. Defence(s, reading) <= Defence(r, reading)
    <3>1. CASE r = s
      <4>1. Defence(s, reading) \in 0 .. 100
        BY <2>1, DefenceOf
      <4> QED BY <3>1, <4>1
    <3>2. CASE r # s
      <4>1. s.terms \subseteq r.terms /\ (r.unsupported => s.unsupported)
        BY <3>2, <2>1
      <4>2. P!ScoreDefense(s) <= P!ScoreDefense(r)
        BY <4>1, <2>1, <2>2, DefenceGrows
      <4> QED BY <4>2 DEF Defence
    <3> QED BY <3>1, <3>2
  <2>4. P!Concession(c, r) <= P!Concession(d, s)
    <3>1. CASE r = s
      <4>1. P!Concession(c, r) = P!Concession(d, s)
        BY <3>1 DEF P!Concession
      <4> QED BY <4>1, <2>1, ConcessionIs
    <3>2. CASE r # s
      BY <3>2, <2>1
    <3> QED BY <3>1, <3>2
  <2>5. /\ Defence(s, reading) \in Int /\ Defence(r, reading) \in Int
        /\ P!Concession(c, r) \in Int /\ P!Concession(d, s) \in Int
    <3>1. Defence(s, reading) \in 0 .. 100 /\ Defence(r, reading) \in 0 .. 100
      BY <2>1, <2>2, DefenceOf
    <3> QED BY <2>1, <2>2, <3>1, ConcessionIs
  <2>6. Contest(Defence(s, reading), P!Concession(d, s)) <= Contest(Defence(r, reading), P!Concession(c, r))
    BY <2>3, <2>4, <2>5, ContestGrows
  <2> QED BY <1>2, <2>2, <2>6, RespondentDef
<1> QED BY <1>1, <1>2

-----------------------------------------------------------------------------
LEMMA AnalysisIs ==
    ASSUME Pleadable, NEW a, Analysed(a)
    PROVE  /\ a.claim \in P!Claim /\ a.reply \in P!Reply \cup {None}
           /\ a.reading \in (0 .. 100) \cup {None}
           /\ a.relief = P!ReliefType(a.claim.asks) /\ a.points = P!Points(a.claim)
           /\ a.claimant = P!ClaimantStrength(a.claim, a.reply)
           /\ a.respondent = P!RespondentStrength(a.claim, a.reply, a.reading)
<1>1. PICK claim \in Claims, reply \in Replies, reading \in Readings :
          a = P!Analysis(claim, reply, reading)
  BY DEF Analysed
<1>2. claim \in P!Claim /\ reply \in P!Reply \cup {None} /\ reading \in (0 .. 100) \cup {None}
  BY DEF Pleadable, P!ClaimsAssumption, P!RepliesAssumption, P!ReadingsAssumption
<1> QED
  BY <1>1, <1>2 DEF P!Analysis

LEMMA ScoresAre ==
    ASSUME Pleadable, NEW a, Analysed(a)
    PROVE  a.claimant \in 10 .. 97 /\ a.respondent \in 15 .. 85 /\ a.points # {}
<1>1. a.claimant \in 10 .. 97
  BY AnalysisIs, ClaimantIs
<1>2. a.respondent \in 15 .. 85
  BY AnalysisIs, RespondentIs DEF Pleadable
<1>3. a.points # {}
  BY AnalysisIs DEF P!Points
<1> QED BY <1>1, <1>2, <1>3

(* The one with more for the claimant is never found weaker. *)
LEMMA NeverWeaker ==
    ASSUME Pleadable, NEW a, NEW b, Analysed(a), Analysed(b), P!MoreForClaimant(a, b)
    PROVE  P!Net(a) <= P!Net(b)
<1>1. a.claimant <= b.claimant
  BY AnalysisIs, ClaimantGrows DEF P!MoreForClaimant
<1>2. b.respondent <= a.respondent
  <2>1. P!RespondentStrength(b.claim, b.reply, a.reading) <= P!RespondentStrength(a.claim, a.reply, a.reading)
    BY AnalysisIs, RespondentShrinks DEF P!MoreForClaimant, Pleadable
  <2> QED BY <2>1, AnalysisIs DEF P!MoreForClaimant
<1> QED
  <2>1. /\ a.claimant \in 10 .. 97 /\ a.respondent \in 15 .. 85
        /\ b.claimant \in 10 .. 97 /\ b.respondent \in 15 .. 85
    BY ScoresAre
  <2>2. /\ a.claimant \in Int /\ a.respondent \in Int
        /\ b.claimant \in Int /\ b.respondent \in Int
    BY <2>1
  <2>3. a.claimant - a.respondent <= b.claimant - b.respondent
    BY <1>1, <1>2, <2>2
  <2> QED BY <2>3 DEF P!Net

LEMMA ReliefIsSpecific ==
    ASSUME NEW asks
    PROVE  /\ "void" \in asks => P!ReliefType(asks) \in {"arbitration_referral", "heirship_declaration", "declaration"}
           /\ "heirs" \in asks => P!ReliefType(asks) \in {"arbitration_referral", "heirship_declaration"}
           /\ P!ReliefType(asks) = "partition" => asks # {"partition wall"}
<1>1. CASE "arbitration_referral" \in asks
  BY <1>1 DEF P!ReliefType
<1>2. CASE "arbitration_referral" \notin asks /\ "heirs" \in asks
  BY <1>2 DEF P!ReliefType
<1>3. CASE asks \cap {"arbitration_referral", "heirs"} = {} /\ "void" \in asks
  BY <1>3 DEF P!ReliefType
<1>4. CASE asks \cap {"arbitration_referral", "heirs", "void"} = {} /\ "partition of" \in asks
  <2>1. "arbitration_referral" \notin asks /\ "heirs" \notin asks /\ "void" \notin asks
    BY <1>4
  <2>2. "partition of" \in asks /\ asks # {"partition wall"}
    <3>1. "partition of" \in asks
      BY <1>4
    <3>2. ASSUME asks = {"partition wall"} PROVE FALSE
      <4>1. "partition of" = "partition wall"
        BY <3>1, <3>2, Zenon
      <4> QED BY <4>1
    <3> QED BY <3>1, <3>2
  <2>3. P!ReliefType(asks) = "partition"
    BY <1>4, <2>1 DEF P!ReliefType
  <2> QED BY <2>1, <2>2, <2>3
<1>5. CASE asks \cap {"arbitration_referral", "heirs", "void", "partition of"} = {}
  <2>1. ASSUME asks = {"partition wall"} PROVE P!ReliefType(asks) = "monetary"
    <3>1. \A i \in DOMAIN P!Lexicon : P!Lexicon[i] # "partition wall"
      <4>1. DOMAIN P!Lexicon = 1 .. 8
        BY DEF P!Lexicon
      <4>2. \A i \in 1 .. 8 : i = 1 \/ i = 2 \/ i = 3 \/ i = 4 \/ i = 5 \/ i = 6 \/ i = 7 \/ i = 8
        OBVIOUS
      <4>3. P!Lexicon[1] # "partition wall" /\ P!Lexicon[2] # "partition wall"
        BY DEF P!Lexicon
      <4>4. P!Lexicon[3] # "partition wall" /\ P!Lexicon[4] # "partition wall"
        BY DEF P!Lexicon
      <4>5. P!Lexicon[5] # "partition wall" /\ P!Lexicon[6] # "partition wall"
        BY DEF P!Lexicon
      <4>6. P!Lexicon[7] # "partition wall" /\ P!Lexicon[8] # "partition wall"
        BY DEF P!Lexicon
      <4> QED BY <4>1, <4>2, <4>3, <4>4, <4>5, <4>6
    <3>2. {i \in DOMAIN P!Lexicon : P!Lexicon[i] \in asks} = {}
      BY <2>1, <3>1
    <3> QED BY <1>5, <3>2 DEF P!ReliefType
  <2> QED BY <1>5, <2>1
<1> QED
  BY <1>1, <1>2, <1>3, <1>4, <1>5

LEMMA PleadingsKnow ==
    PleadingsInv /\ Pleadable => P!TypeOK /\ P!LikeCasesAlike /\ P!SpecificReliefWins
<1> SUFFICES ASSUME PleadingsInv, Pleadable PROVE P!TypeOK /\ P!LikeCasesAlike /\ P!SpecificReliefWins
  OBVIOUS
<1>1. P!TypeOK
  BY ScoresAre DEF PleadingsInv, P!TypeOK
<1>2. P!LikeCasesAlike
  BY NeverWeaker DEF PleadingsInv, P!LikeCasesAlike
<1>3. P!SpecificReliefWins
  <2> SUFFICES ASSUME latest # None PROVE P!SpecificReliefWins
    BY DEF P!SpecificReliefWins
  <2>1. latest.relief = P!ReliefType(latest.claim.asks)
    BY AnalysisIs DEF PleadingsInv
  <2> QED BY <2>1, ReliefIsSpecific DEF P!SpecificReliefWins
<1> QED BY <1>1, <1>2, <1>3
(* Of two cases read alike the one with more for the claimant is never found *)
(* weaker, and a specific relief is found whatever else is asked for         *)
(* (agents/nlp.py, analysis.py), for any claims, replies and readings.       *)
THEOREM PleadingsCorrect ==
    ASSUME PartsAssumption
    PROVE  Spec => []PleadingsAreReadAlike
<1>1. Pleadable
  BY DEF Pleadable, PartsAssumption
<1>2. Init => PleadingsInv
  BY <1>1, PleadingsInit DEF Init, Pleadable
<1>3. PleadingsInv /\ [Next]_vars => PleadingsInv'
  BY <1>1, StepsOfScripts, PleadingsStep DEF Pleadable
<1>4. PleadingsInv => PleadingsAreReadAlike
  BY <1>1, PleadingsKnow DEF PleadingsAreReadAlike
<1> QED BY <1>2, <1>3, <1>4, PTL DEF Spec

-----------------------------------------------------------------------------
SigRuns == [at : {"work", "unlink"}, cases : SUBSET A, signals : SUBSET A,
            amounts : SUBSET A, from : SUBSET A, todo : SUBSET A,
            asking : SUBSET A, done : SUBSET A, failed : SUBSET A,
            fresh : BOOLEAN, met : BOOLEAN]
AmtRuns == [at : {"work"}, cases : SUBSET A, signals : SUBSET A,
            amounts : SUBSET A, kept : SUBSET A, todo : SUBSET A,
            asking : SUBSET A, done : SUBSET A, failed : SUBSET A, met : BOOLEAN]

(* The runs have their fields; what a run adds amounts to is its file's. *)
RunsInv ==
    /\ C!On(sig) => sig \in SigRuns
    /\ C!On(amt) => /\ amt \in AmtRuns
                    /\ amt.signals \cup amt.amounts \cup amt.todo \cup amt.asking \subseteq amt.cases

(* Two runs at once know that they overlapped. *)
MetInv == C!On(sig) /\ C!On(amt) => sig.met /\ amt.met

(* What an undisturbed run will write keeps what the files have. *)
SigInv ==
    C!On(sig) /\ ~sig.met =>
          /\ sig.at = "work" /\ ~sig.fresh =>
                 C!Signals(out) \cup C!Signals(partial) \subseteq sig.signals \cup sig.done
          /\ sig.at = "unlink" /\ ~sig.fresh =>
                 (C!Signals(out) \cup C!Signals(partial)) \cap sig.cases \subseteq C!Signals(out)
          /\ sig.at = "work" =>
                 C!Amounts(out) \cap sig.cases \subseteq
                     sig.amounts \cup sig.from \cup sig.todo \cup sig.asking
                     \cup sig.done \cup sig.failed
AmtInv ==
    C!On(amt) /\ ~amt.met =>
          /\ C!Whole(out) /\ out.cases = amt.cases /\ out.signals = amt.signals
          /\ out.amounts \subseteq amt.amounts

FactsInv == C!TypeOK /\ RunsInv /\ MetInv /\ SigInv /\ AmtInv

FactsKnown == /\ C!WorkersAssumption /\ C!BoundsAssumption /\ C!CasesAssumption /\ C!FilesAssumption

LEMMA SameSizes ==
    /\ \A set : C!Cardinality(set) = Cardinality(set)
    /\ \A set : C!IsFiniteSet(set) = IsFiniteSet(set)
BY Zenon DEF C!Cardinality, Cardinality, C!IsFiniteSet, IsFiniteSet

LEMMA CasesAreFew ==
    ASSUME C!CasesAssumption, NEW T \in SUBSET A
    PROVE  C!IsFiniteSet(T) /\ C!Cardinality(T) \in Nat
BY FS_Subset, FS_CardinalityType, SameSizes DEF C!CasesAssumption

LEMMA WrittenIsWhole ==
    ASSUME C!FilesAssumption, NEW cs \in SUBSET A, NEW ss \in SUBSET A, NEW as \in SUBSET A
    PROVE  LET file == [cases |-> cs, signals |-> ss, amounts |-> as] IN
           /\ file \in C!Files /\ C!Whole(file)
           /\ C!Signals(file) = ss /\ C!Amounts(file) = as
           /\ file.cases = cs /\ file.signals = ss /\ file.amounts = as
<1> DEFINE file == [cases |-> cs, signals |-> ss, amounts |-> as]
<1>1. file \in [cases : SUBSET A, signals : SUBSET A, amounts : SUBSET A]
  OBVIOUS
<1>2. file.cases = cs /\ file.signals = ss /\ file.amounts = as
  OBVIOUS
<1> HIDE DEF file
<1>3. file \in C!Files /\ C!Whole(file)
  BY <1>1, Zenon DEF C!FilesAssumption, C!Files, C!Whole
<1>4. C!Signals(file) = ss /\ C!Amounts(file) = as
  BY <1>2, <1>3 DEF C!Signals, C!Amounts
<1> QED
  BY <1>2, <1>3, <1>4 DEF file

LEMMA FileParts ==
    ASSUME NEW file \in C!Files
    PROVE  /\ C!Signals(file) \subseteq A /\ C!Amounts(file) \subseteq A
           /\ C!Whole(file) => /\ file.cases \subseteq A /\ C!Signals(file) = file.signals
                               /\ C!Amounts(file) = file.amounts
BY DEF C!Files, C!Whole, C!Signals, C!Amounts

LEMMA Torned == {Missing, Torn} \subseteq C!Files /\ ~C!Whole(Torn) /\ ~C!Whole(Missing)
BY DEF C!Files, C!Whole

LEMMA Offline == ~C!On(C!Off)
BY DEF C!On, C!Off

LEMMA FactsInit == FactsKnown /\ C!Init => FactsInv
<1> SUFFICES ASSUME FactsKnown, C!Init PROVE FactsInv
  OBVIOUS
<1>1. ~C!On(sig) /\ ~C!On(amt) /\ ~C!Whole(out) /\ {out, partial} \subseteq C!Files
  BY Offline, Torned DEF C!Init
<1>2. C!TypeOK
  <2>1. factStarts \in [{"signals", "amounts"} -> 0 .. MaxStarts] /\ factKills \in 0 .. MaxKills
    BY DEF C!Init, FactsKnown, C!BoundsAssumption
  <2>2. \A r \in {sig, amt} : ~C!On(r)
    BY <1>1
  <2> QED
    BY <1>1, <2>1, <2>2 DEF C!Init, C!TypeOK
<1> QED
  BY <1>1, <1>2 DEF FactsInv, RunsInv, MetInv, SigInv, AmtInv

LEMMA FactsStutter == FactsInv /\ UNCHANGED C!vars => FactsInv'
<1> SUFFICES ASSUME FactsInv, UNCHANGED C!vars PROVE FactsInv'
  OBVIOUS
<1>1. C!TypeOK'
  BY DEF FactsInv, C!TypeOK, C!vars, C!On, C!Whole
<1>2. RunsInv' /\ MetInv'
  BY DEF FactsInv, RunsInv, MetInv, C!vars, C!On
<1>3. SigInv' /\ AmtInv'
  BY DEF FactsInv, SigInv, AmtInv, C!vars, C!On, C!Whole, C!Signals, C!Amounts
<1> QED
  BY <1>1, <1>2, <1>3 DEF FactsInv

LEMMA SourceKeeps ==
    ASSUME FactsInv, NEW c \in A, C!Source(c) PROVE FactsInv'
<1>1. C!TypeOK'
  BY DEF FactsInv, C!TypeOK, C!Source, C!On, C!Whole
<1>2. RunsInv' /\ MetInv'
  BY DEF FactsInv, RunsInv, MetInv, C!Source, C!On
<1>3. SigInv' /\ AmtInv'
  BY DEF FactsInv, SigInv, AmtInv, C!Source, C!On, C!Whole, C!Signals, C!Amounts
<1> QED
  BY <1>1, <1>2, <1>3 DEF FactsInv

(* A run that meets another is the run it was, and knows it. *)
LEMMA MetRuns ==
    /\ \A r : C!On(C!Met(r)) <=> C!On(r)
    /\ \A r : ~C!On(r) => C!Met(r) = r
    /\ \A r \in SigRuns : C!Met(r) \in SigRuns /\ (C!On(r) => C!Met(r).met)
                          /\ C!Met(r).asking = r.asking /\ C!Met(r).todo = r.todo
    /\ \A r \in AmtRuns :
          /\ C!Met(r) \in AmtRuns /\ (C!On(r) => C!Met(r).met)
          /\ C!Met(r).asking = r.asking /\ C!Met(r).todo = r.todo /\ C!Met(r).cases = r.cases
          /\ C!Met(r).signals = r.signals /\ C!Met(r).amounts = r.amounts
<1>1. \A r : C!On(r) => C!On(C!Met(r))
  <2> SUFFICES ASSUME NEW r, C!On(r) PROVE C!On(C!Met(r))
    OBVIOUS
  <2>1. C!Met(r).at = r.at
    BY DEF C!Met
  <2> QED
    BY <2>1 DEF C!On
<1>2. \A r : ~C!On(r) => C!Met(r) = r
  BY DEF C!Met
<1>3. \A r \in SigRuns : C!Met(r) \in SigRuns /\ (C!On(r) => C!Met(r).met)
                          /\ C!Met(r).asking = r.asking /\ C!Met(r).todo = r.todo
  BY DEF C!Met, SigRuns, C!On
<1>4. \A r \in AmtRuns :
          /\ C!Met(r) \in AmtRuns /\ (C!On(r) => C!Met(r).met)
          /\ C!Met(r).asking = r.asking /\ C!Met(r).todo = r.todo /\ C!Met(r).cases = r.cases
          /\ C!Met(r).signals = r.signals /\ C!Met(r).amounts = r.amounts
  BY DEF C!Met, AmtRuns, C!On
<1> QED
  BY <1>1, <1>2, <1>3, <1>4

LEMMA BeginSignalsKeeps ==
    ASSUME FactsKnown, FactsInv, NEW fresh \in BOOLEAN, C!BeginSignals(fresh) PROVE FactsInv'
<1> DEFINE known == IF fresh THEN [signals |-> {}, amounts |-> {}, from |-> {}] ELSE C!Loaded
<1>1. /\ judgments \subseteq A /\ out \in C!Files /\ partial \in C!Files
  BY DEF FactsInv, C!TypeOK
<1>2. /\ known.signals = IF fresh THEN {} ELSE C!Signals(out) \cup C!Signals(partial)
      /\ known.amounts = IF fresh THEN {} ELSE (C!Amounts(out) \ C!Signals(partial)) \cup C!Amounts(partial)
      /\ known.from = IF fresh THEN {} ELSE C!Signals(partial)
  BY DEF C!Loaded
<1>3. /\ known.signals \subseteq A /\ known.amounts \subseteq A /\ known.from \subseteq A
  BY <1>1, <1>2, FileParts
<1> HIDE DEF known
<1>4. /\ sig' = [at |-> "work", cases |-> judgments, signals |-> known.signals,
               amounts |-> known.amounts \cap known.signals, from |-> known.from,
               todo |-> judgments \ known.signals, asking |-> {}, done |-> {},
               failed |-> {}, fresh |-> fresh, met |-> C!On(amt)]
      /\ amt' = C!Met(amt) /\ UNCHANGED <<judgments, out, partial, amounts, factKills>>
      /\ factStarts["signals"] < MaxStarts /\ factStarts' = [factStarts EXCEPT !["signals"] = @ + 1]
  BY DEF C!BeginSignals, known
<1>5. sig' \in SigRuns
  BY <1>1, <1>3, <1>4 DEF SigRuns, C!On
<1>6. C!On(amt') <=> C!On(amt)
  BY <1>4, MetRuns
<1>7. C!On(amt) => /\ amt' \in AmtRuns /\ amt'.met /\ amt'.asking = amt.asking
                   /\ amt'.todo = amt.todo /\ amt'.cases = amt.cases
                   /\ amt'.signals = amt.signals /\ amt'.amounts = amt.amounts
  BY <1>4, MetRuns DEF FactsInv, RunsInv
<1>8. C!TypeOK'
  <2>1. sig'.asking = {} /\ C!Cardinality(sig'.asking) = 0
    BY <1>4, FS_EmptySet, SameSizes
  <2>2. factStarts' \in [{"signals", "amounts"} -> 0 .. MaxStarts] /\ factKills' \in 0 .. MaxKills
    BY <1>4 DEF FactsInv, C!TypeOK, FactsKnown, C!BoundsAssumption
  <2> QED
    BY <1>4, <1>6, <1>7, <2>1, <2>2 DEF FactsInv, C!TypeOK, C!Whole, C!On, FactsKnown,
       C!WorkersAssumption
<1>9. RunsInv' /\ MetInv'
  BY <1>4, <1>5, <1>6, <1>7 DEF FactsInv, RunsInv, MetInv, C!On
<1>10. SigInv'
  <2>1. /\ sig'.at = "work" /\ sig'.cases = judgments /\ sig'.signals = known.signals
        /\ sig'.amounts = known.amounts \cap known.signals /\ sig'.from = known.from
        /\ sig'.todo = judgments \ known.signals /\ sig'.fresh = fresh
    BY <1>4
  <2>2. ~fresh => C!Signals(out) \cup C!Signals(partial) \subseteq sig'.signals
    BY <1>2, <2>1
  <2>3. C!Amounts(out) \cap sig'.cases \subseteq sig'.amounts \cup sig'.from \cup sig'.todo
    BY <1>2, <2>1
  <2>4. UNCHANGED <<C!Signals(out), C!Signals(partial), C!Amounts(out)>>
    BY <1>4 DEF C!Signals, C!Amounts, C!Whole
  <2> QED
    BY <2>1, <2>2, <2>3, <2>4 DEF SigInv
<1>11. AmtInv'
  BY <1>6, <1>7 DEF AmtInv
<1> QED
  BY <1>8, <1>9, <1>10, <1>11 DEF FactsInv

LEMMA SmallerAsks ==
    ASSUME C!CasesAssumption, NEW T \in SUBSET A, NEW c \in T
    PROVE  C!Cardinality(T \ {c}) < C!Cardinality(T) /\ C!Cardinality(T \ {c}) \in Nat
BY FS_RemoveElement, SameSizes, CasesAreFew

LEMMA AsksMore ==
    ASSUME C!CasesAssumption, NEW T \in SUBSET A, NEW c \in A, c \notin T
    PROVE  C!Cardinality(T \cup {c}) = C!Cardinality(T) + 1
BY FS_AddElement, SameSizes, CasesAreFew

(* What depends on neither run. *)
LEMMA FilesUntouched ==
    ASSUME UNCHANGED <<out, partial>>
    PROVE  UNCHANGED <<C!Signals(out), C!Signals(partial), C!Amounts(out), C!Whole(out)>>
BY DEF C!Signals, C!Amounts, C!Whole

LEMMA AskSignalsKeeps ==
    ASSUME FactsKnown, FactsInv, NEW c \in A, C!AskSignals(c) PROVE FactsInv'
<1>1. /\ sig \in SigRuns /\ sig.at = "work" /\ c \in sig.todo /\ c \notin sig.asking
      /\ C!Cardinality(sig.asking) < FactWorkers
      /\ sig' = [sig EXCEPT !.todo = @ \ {c}, !.asking = @ \cup {c}]
      /\ UNCHANGED <<judgments, out, partial, amounts, amt, factStarts, factKills>>
  BY DEF C!AskSignals, FactsInv, C!TypeOK, RunsInv, C!On
<1>2. /\ sig' \in SigRuns /\ sig'.at = "work" /\ sig'.todo = sig.todo \ {c}
      /\ sig'.asking = sig.asking \cup {c} /\ sig'.cases = sig.cases
      /\ sig'.signals = sig.signals /\ sig'.amounts = sig.amounts /\ sig'.from = sig.from
      /\ sig'.done = sig.done /\ sig'.failed = sig.failed /\ sig'.fresh = sig.fresh
      /\ sig'.met = sig.met
  BY <1>1 DEF SigRuns
<1>3. C!Cardinality(sig'.asking) <= FactWorkers /\ sig'.asking \cap sig'.todo = {}
  <2>1. sig.asking \subseteq A /\ sig.asking \cap sig.todo = {}
    BY <1>1 DEF SigRuns, FactsInv, C!TypeOK, C!On
  <2>2. C!Cardinality(sig'.asking) = C!Cardinality(sig.asking) + 1 /\ C!Cardinality(sig.asking) \in Nat
    BY <1>1, <1>2, <2>1, AsksMore, CasesAreFew DEF FactsKnown
  <2> QED
    BY <1>1, <1>2, <2>1, <2>2 DEF FactsKnown, C!WorkersAssumption
<1>4. C!TypeOK'
  BY <1>1, <1>3 DEF FactsInv, C!TypeOK, C!Whole, C!On
<1>5. RunsInv' /\ MetInv'
  BY <1>1, <1>2 DEF FactsInv, RunsInv, MetInv, C!On
<1>6. SigInv'
  BY <1>1, <1>2, FilesUntouched DEF FactsInv, SigInv, C!On
<1>7. AmtInv'
  BY <1>1, FilesUntouched DEF FactsInv, AmtInv
<1> QED
  BY <1>4, <1>5, <1>6, <1>7 DEF FactsInv

LEMMA GetSignalsKeeps ==
    ASSUME FactsKnown, FactsInv, NEW c \in A, C!GetSignals(c) PROVE FactsInv'
<1>1. /\ sig \in SigRuns /\ sig.at = "work" /\ c \in sig.asking
      /\ \/ sig' = [sig EXCEPT !.asking = @ \ {c}, !.done = @ \cup {c}]
         \/ sig' = [sig EXCEPT !.asking = @ \ {c}, !.failed = @ \cup {c}]
      /\ UNCHANGED <<judgments, amounts, amt, factStarts, factKills>>
      /\ UNCHANGED out /\ (C!Checkpoint \/ UNCHANGED partial)
  BY DEF C!GetSignals, C!Checkpoint, FactsInv, RunsInv, C!On
<1>2. /\ sig' \in SigRuns /\ sig'.at = "work" /\ sig'.todo = sig.todo
      /\ sig'.asking = sig.asking \ {c} /\ sig'.cases = sig.cases
      /\ sig'.signals = sig.signals /\ sig'.amounts = sig.amounts /\ sig'.from = sig.from
      /\ sig'.done \cup sig'.failed = sig.done \cup sig.failed \cup {c}
      /\ sig.done \subseteq sig'.done /\ sig'.fresh = sig.fresh /\ sig'.met = sig.met
  <2>1. CASE sig' = [sig EXCEPT !.asking = @ \ {c}, !.done = @ \cup {c}]
    BY <1>1, <2>1 DEF SigRuns
  <2>2. CASE sig' = [sig EXCEPT !.asking = @ \ {c}, !.failed = @ \cup {c}]
    BY <1>1, <2>2 DEF SigRuns
  <2> QED
    BY <1>1, <2>1, <2>2
<1>3. C!Cardinality(sig'.asking) <= FactWorkers /\ sig'.asking \cap sig'.todo = {}
  <2>1. /\ sig.asking \subseteq A /\ sig.asking \cap sig.todo = {}
        /\ C!Cardinality(sig.asking) <= FactWorkers
    BY <1>1 DEF SigRuns, FactsInv, C!TypeOK, C!On
  <2>2. C!Cardinality(sig'.asking) < C!Cardinality(sig.asking) /\ C!Cardinality(sig'.asking) \in Nat
        /\ C!Cardinality(sig.asking) \in Nat
    BY <1>1, <1>2, <2>1, SmallerAsks, CasesAreFew DEF FactsKnown
  <2> QED
    BY <1>2, <2>1, <2>2 DEF FactsKnown, C!WorkersAssumption
<1>4. /\ partial' \in C!Files
      /\ \/ C!Signals(partial') = sig'.signals \cup sig'.done
         \/ partial' = partial
  <2>1. CASE UNCHANGED partial
    BY <2>1 DEF FactsInv, C!TypeOK
  <2>2. CASE C!Checkpoint
    <3>1. partial' = [cases |-> sig'.signals \cup sig'.done \cup sig'.failed,
                      signals |-> sig'.signals \cup sig'.done, amounts |-> sig'.amounts]
      BY <2>2 DEF C!Checkpoint
    <3>2. /\ sig'.signals \cup sig'.done \cup sig'.failed \in SUBSET A
          /\ sig'.signals \cup sig'.done \in SUBSET A /\ sig'.amounts \in SUBSET A
      BY <1>2 DEF SigRuns
    <3> QED
      BY <3>1, <3>2, WrittenIsWhole DEF FactsKnown
  <2> QED
    BY <1>1, <2>1, <2>2
<1>5. C!TypeOK'
  BY <1>1, <1>3, <1>4 DEF FactsInv, C!TypeOK, C!Whole, C!On
<1>6. RunsInv' /\ MetInv'
  BY <1>1, <1>2 DEF FactsInv, RunsInv, MetInv, C!On
<1>7. /\ C!Signals(out)' = C!Signals(out) /\ C!Amounts(out)' = C!Amounts(out)
      /\ C!Whole(out)' = C!Whole(out)
      /\ C!Signals(partial)' = C!Signals(partial')
  BY <1>1 DEF C!Signals, C!Amounts, C!Whole
<1>8. SigInv'
  BY <1>1, <1>2, <1>4, <1>7 DEF FactsInv, SigInv, C!On
<1>9. AmtInv'
  BY <1>1, <1>7 DEF FactsInv, AmtInv
<1> QED
  BY <1>5, <1>6, <1>8, <1>9 DEF FactsInv

LEMMA WriteOutKeeps ==
    ASSUME FactsKnown, FactsInv, C!WriteOut PROVE FactsInv'
<1>1. /\ sig \in SigRuns /\ sig.at = "work" /\ sig.todo = {} /\ sig.asking = {}
      /\ out' = [cases |-> sig.cases, signals |-> (sig.signals \cup sig.done) \cap sig.cases,
                 amounts |-> sig.amounts \cap sig.cases]
      /\ sig' = [sig EXCEPT !.at = "unlink"]
      /\ UNCHANGED <<judgments, partial, amounts, amt, factStarts, factKills>>
  BY DEF C!WriteOut, C!Through, FactsInv, RunsInv, C!On
<1>2. /\ sig' \in SigRuns /\ sig'.at = "unlink" /\ sig'.cases = sig.cases /\ sig'.fresh = sig.fresh
      /\ sig'.met = sig.met /\ sig'.todo = {} /\ sig'.asking = {}
  BY <1>1 DEF SigRuns
<1>3. /\ sig.cases \in SUBSET A /\ (sig.signals \cup sig.done) \cap sig.cases \in SUBSET A
      /\ sig.amounts \cap sig.cases \in SUBSET A
  BY <1>1 DEF SigRuns
<1>4. /\ out' \in C!Files /\ C!Whole(out') /\ out'.cases = sig.cases
      /\ C!Signals(out') = (sig.signals \cup sig.done) \cap sig.cases
      /\ out'.signals = (sig.signals \cup sig.done) \cap sig.cases
      /\ out'.amounts = sig.amounts \cap sig.cases
  BY <1>1, <1>3, WrittenIsWhole DEF FactsKnown
<1>5. C!TypeOK'
  <2>1. C!Cardinality(sig'.asking) <= FactWorkers
    BY <1>2, FS_EmptySet, SameSizes DEF FactsKnown, C!WorkersAssumption
  <2>2. out'.signals \cup out'.amounts \subseteq out'.cases
    BY <1>4
  <2> QED
    BY <1>1, <1>2, <1>4, <2>1, <2>2 DEF FactsInv, C!TypeOK, C!On
<1>6. RunsInv' /\ MetInv'
  BY <1>1, <1>2 DEF FactsInv, RunsInv, MetInv, C!On
<1>7. SigInv'
  <2>1. C!Signals(partial)' = C!Signals(partial) /\ C!Signals(out)' = C!Signals(out')
    BY <1>1 DEF C!Signals, C!Whole
  <2>2. C!On(sig) /\ ~sig.met /\ ~sig.fresh => C!Signals(partial) \subseteq sig.signals \cup sig.done
    BY <1>1 DEF FactsInv, SigInv
  <2> QED
    BY <1>1, <1>2, <1>4, <2>1, <2>2 DEF SigInv, C!On
<1>8. AmtInv'
  BY <1>1 DEF FactsInv, MetInv, AmtInv, C!On
<1> QED
  BY <1>5, <1>6, <1>7, <1>8 DEF FactsInv

(* A run that ends, or is killed, leaves the other alone. *)
LEMMA UnlinkKeeps ==
    ASSUME FactsKnown, FactsInv, C!Unlink PROVE FactsInv'
<1>1. /\ C!On(sig) /\ ~C!On(sig') /\ partial' = Missing
      /\ UNCHANGED <<judgments, out, amounts, amt, factStarts, factKills>>
  BY Offline DEF C!Unlink, C!On
<1>2. C!TypeOK'
  BY <1>1, Torned DEF FactsInv, C!TypeOK, C!Whole, C!On
<1>3. RunsInv' /\ MetInv' /\ SigInv'
  BY <1>1 DEF FactsInv, RunsInv, MetInv, SigInv, C!On
<1>4. AmtInv'
  BY <1>1 DEF FactsInv, AmtInv, MetInv, C!Whole, C!On
<1> QED
  BY <1>2, <1>3, <1>4 DEF FactsInv

LEMMA KillSignalsKeeps ==
    ASSUME FactsKnown, FactsInv, C!KillSignals PROVE FactsInv'
<1>1. /\ C!On(sig) /\ ~C!On(sig') /\ out' \in {out, Torn} /\ partial' \in {partial, Torn}
      /\ UNCHANGED <<judgments, amounts, amt, factStarts>> /\ factKills < MaxKills
      /\ factKills' = factKills + 1
  BY Offline DEF C!KillSignals, C!Killed
<1>2. C!TypeOK'
  <2>1. out' \in C!Files /\ partial' \in C!Files
    BY <1>1, Torned DEF FactsInv, C!TypeOK
  <2>2. C!Whole(out') => out' = out
    BY <1>1, Torned
  <2>3. factKills' \in 0 .. MaxKills
    BY <1>1 DEF FactsInv, C!TypeOK, FactsKnown, C!BoundsAssumption
  <2> QED
    BY <1>1, <2>1, <2>2, <2>3 DEF FactsInv, C!TypeOK, C!Whole, C!On
<1>3. RunsInv' /\ MetInv' /\ SigInv'
  BY <1>1 DEF FactsInv, RunsInv, MetInv, SigInv, C!On
<1>4. AmtInv'
  BY <1>1 DEF FactsInv, AmtInv, MetInv, C!On
<1> QED
  BY <1>2, <1>3, <1>4 DEF FactsInv

LEMMA BeginAmountsKeeps ==
    ASSUME FactsKnown, FactsInv, C!BeginAmounts PROVE FactsInv'
<1> DEFINE kept == IF amounts = Missing THEN {} ELSE amounts
<1>1. kept \subseteq A
  BY DEF C!BeginAmounts, FactsInv, C!TypeOK
<1> HIDE DEF kept
<1>2. /\ C!Whole(out) /\ ~C!On(amt)
      /\ amt' = [at |-> "work", cases |-> out.cases, signals |-> out.signals,
               amounts |-> out.amounts \cup (kept \cap out.cases),
               kept |-> kept, todo |-> out.cases \ (out.amounts \cup kept),
               asking |-> {}, done |-> {}, failed |-> {}, met |-> C!On(sig)]
      /\ sig' = C!Met(sig)
      /\ factStarts["amounts"] < MaxStarts /\ factStarts' = [factStarts EXCEPT !["amounts"] = @ + 1]
      /\ UNCHANGED <<judgments, out, partial, amounts, factKills>>
  BY DEF C!BeginAmounts, kept
<1>3. /\ out.cases \subseteq A /\ out.signals \cup out.amounts \subseteq out.cases
  BY <1>2, FileParts DEF FactsInv, C!TypeOK
<1>4. /\ amt' \in AmtRuns /\ amt'.at = "work" /\ amt'.cases = out.cases
      /\ amt'.signals = out.signals /\ out.amounts \subseteq amt'.amounts
      /\ amt'.amounts \subseteq out.cases /\ amt'.todo \subseteq out.cases /\ amt'.asking = {}
      /\ amt'.met = C!On(sig)
  BY <1>1, <1>2, <1>3 DEF AmtRuns, C!On
<1>5. C!On(sig') <=> C!On(sig)
  BY <1>2, MetRuns
<1>6. C!On(sig) => /\ sig' \in SigRuns /\ sig'.met /\ sig'.asking = sig.asking
                   /\ sig'.todo = sig.todo
  BY <1>2, MetRuns DEF FactsInv, RunsInv
<1>7. C!TypeOK'
  <2>1. C!Cardinality(amt'.asking) = 0
    BY <1>4, FS_EmptySet, SameSizes
  <2>2. factStarts' \in [{"signals", "amounts"} -> 0 .. MaxStarts]
    BY <1>2 DEF FactsInv, C!TypeOK, FactsKnown, C!BoundsAssumption
  <2>3. \A r \in {sig', amt'} :
            C!On(r) => C!Cardinality(r.asking) <= FactWorkers /\ r.asking \cap r.todo = {}
    BY <1>4, <1>5, <1>6, <2>1 DEF FactsInv, C!TypeOK, FactsKnown, C!WorkersAssumption
  <2> QED
    BY <1>2, <2>2, <2>3 DEF FactsInv, C!TypeOK, C!Whole
<1>8. RunsInv' /\ MetInv'
  BY <1>3, <1>4, <1>5, <1>6 DEF FactsInv, RunsInv, MetInv
<1>9. SigInv'
  BY <1>5, <1>6 DEF SigInv
<1>10. AmtInv'
  BY <1>2, <1>4 DEF AmtInv, C!Whole
<1> QED
  BY <1>7, <1>8, <1>9, <1>10 DEF FactsInv

LEMMA AskAmountKeeps ==
    ASSUME FactsKnown, FactsInv, NEW c \in A, C!AskAmount(c) PROVE FactsInv'
<1>1. /\ amt \in AmtRuns /\ amt.at = "work" /\ c \in amt.todo /\ c \notin amt.asking
      /\ C!Cardinality(amt.asking) < FactWorkers
      /\ amt' = [amt EXCEPT !.todo = @ \ {c}, !.asking = @ \cup {c}]
      /\ UNCHANGED <<judgments, out, partial, amounts, sig, factStarts, factKills>>
  BY DEF C!AskAmount, FactsInv, C!TypeOK, RunsInv, C!On
<1>2. /\ amt' \in AmtRuns /\ amt'.at = "work" /\ amt'.todo = amt.todo \ {c}
      /\ amt'.asking = amt.asking \cup {c} /\ amt'.cases = amt.cases
      /\ amt'.signals = amt.signals /\ amt'.amounts = amt.amounts /\ amt'.met = amt.met
  BY <1>1 DEF AmtRuns
<1>3. C!Cardinality(amt'.asking) <= FactWorkers /\ amt'.asking \cap amt'.todo = {}
  <2>1. amt.asking \subseteq A /\ amt.asking \cap amt.todo = {}
    BY <1>1 DEF AmtRuns, FactsInv, C!TypeOK, C!On
  <2>2. C!Cardinality(amt'.asking) = C!Cardinality(amt.asking) + 1 /\ C!Cardinality(amt.asking) \in Nat
    BY <1>1, <1>2, <2>1, AsksMore, CasesAreFew DEF FactsKnown
  <2> QED
    BY <1>1, <1>2, <2>1, <2>2 DEF FactsKnown, C!WorkersAssumption
<1>4. C!TypeOK'
  BY <1>1, <1>3 DEF FactsInv, C!TypeOK, C!Whole, C!On
<1>5. RunsInv' /\ MetInv'
  BY <1>1, <1>2 DEF FactsInv, RunsInv, MetInv, C!On
<1>6. SigInv'
  BY <1>1, FilesUntouched DEF FactsInv, SigInv, C!On
<1>7. AmtInv'
  BY <1>1, <1>2, FilesUntouched DEF FactsInv, AmtInv, C!On
<1> QED
  BY <1>4, <1>5, <1>6, <1>7 DEF FactsInv

LEMMA GetAmountKeeps ==
    ASSUME FactsKnown, FactsInv, NEW c \in A, C!GetAmount(c) PROVE FactsInv'
<1>1. /\ amt \in AmtRuns /\ amt.at = "work" /\ c \in amt.asking
      /\ \/ /\ amt' = [amt EXCEPT !.asking = @ \ {c}, !.done = @ \cup {c},
                                  !.amounts = @ \cup {c}, !.kept = @ \cup {c}]
            /\ amounts' \in {amt'.kept, amounts}
         \/ /\ amt' = [amt EXCEPT !.asking = @ \ {c}, !.failed = @ \cup {c}]
            /\ UNCHANGED amounts
      /\ UNCHANGED <<judgments, out, partial, sig, factStarts, factKills>>
  BY DEF C!GetAmount, FactsInv, RunsInv, C!On
<1>2. /\ amt' \in AmtRuns /\ amt'.at = "work" /\ amt'.todo = amt.todo
      /\ amt'.asking = amt.asking \ {c} /\ amt'.cases = amt.cases
      /\ amt'.signals = amt.signals /\ amt'.met = amt.met
      /\ amt.amounts \subseteq amt'.amounts /\ amt'.amounts \subseteq amt.amounts \cup {c}
      /\ amounts' = amounts \/ amounts' \in SUBSET A
  <2>1. CASE /\ amt' = [amt EXCEPT !.asking = @ \ {c}, !.done = @ \cup {c},
                                   !.amounts = @ \cup {c}, !.kept = @ \cup {c}]
             /\ amounts' \in {amt'.kept, amounts}
    <3>1. amt'.kept \in SUBSET A
      BY <1>1, <2>1 DEF AmtRuns
    <3> QED
      BY <1>1, <2>1, <3>1 DEF AmtRuns
  <2>2. CASE /\ amt' = [amt EXCEPT !.asking = @ \ {c}, !.failed = @ \cup {c}]
             /\ UNCHANGED amounts
    BY <1>1, <2>2 DEF AmtRuns
  <2> QED
    BY <1>1, <2>1, <2>2
<1>3. C!Cardinality(amt'.asking) <= FactWorkers /\ amt'.asking \cap amt'.todo = {}
  <2>1. /\ amt.asking \subseteq A /\ amt.asking \cap amt.todo = {}
        /\ C!Cardinality(amt.asking) <= FactWorkers
    BY <1>1 DEF AmtRuns, FactsInv, C!TypeOK, C!On
  <2>2. C!Cardinality(amt'.asking) < C!Cardinality(amt.asking) /\ C!Cardinality(amt'.asking) \in Nat
        /\ C!Cardinality(amt.asking) \in Nat
    BY <1>1, <1>2, <2>1, SmallerAsks, CasesAreFew DEF FactsKnown
  <2> QED
    BY <1>2, <2>1, <2>2 DEF FactsKnown, C!WorkersAssumption
<1>4. C!TypeOK'
  BY <1>1, <1>2, <1>3 DEF FactsInv, C!TypeOK, C!Whole, C!On
<1>5. RunsInv' /\ MetInv'
  BY <1>1, <1>2 DEF FactsInv, RunsInv, MetInv, C!On
<1>6. SigInv'
  BY <1>1, FilesUntouched DEF FactsInv, SigInv, C!On
<1>7. AmtInv'
  BY <1>1, <1>2, FilesUntouched DEF FactsInv, AmtInv, C!On
<1> QED
  BY <1>4, <1>5, <1>6, <1>7 DEF FactsInv

LEMMA WriteAmountsKeeps ==
    ASSUME FactsKnown, FactsInv, C!WriteAmounts PROVE FactsInv'
<1>1. /\ amt \in AmtRuns /\ C!On(amt) /\ ~C!On(amt')
      /\ out' = [cases |-> amt.cases, signals |-> amt.signals, amounts |-> amt.amounts]
      /\ UNCHANGED <<judgments, partial, amounts, sig, factStarts, factKills>>
      /\ amt.signals \cup amt.amounts \subseteq amt.cases
  BY Offline DEF C!WriteAmounts, C!Through, FactsInv, RunsInv, C!On
<1>2. amt.cases \in SUBSET A /\ amt.signals \in SUBSET A /\ amt.amounts \in SUBSET A
  BY <1>1 DEF AmtRuns
<1>3. /\ out' \in C!Files /\ out'.cases = amt.cases /\ out'.signals = amt.signals
      /\ out'.amounts = amt.amounts
  BY <1>1, <1>2, WrittenIsWhole DEF FactsKnown
<1>4. C!TypeOK'
  <2>1. out'.signals \cup out'.amounts \subseteq out'.cases
    BY <1>1, <1>3
  <2> QED
    BY <1>1, <1>3, <2>1 DEF FactsInv, C!TypeOK, C!On
<1>5. RunsInv' /\ MetInv' /\ AmtInv'
  BY <1>1 DEF FactsInv, RunsInv, MetInv, AmtInv, C!On
<1>6. SigInv'
  BY <1>1 DEF FactsInv, SigInv, MetInv, C!On
<1> QED
  BY <1>4, <1>5, <1>6 DEF FactsInv

LEMMA KillAmountsKeeps ==
    ASSUME FactsKnown, FactsInv, C!KillAmounts PROVE FactsInv'
<1>1. /\ C!On(amt) /\ ~C!On(amt') /\ out' \in {out, Torn} /\ amounts' \in {amounts, Torn}
      /\ UNCHANGED <<judgments, partial, sig, factStarts>> /\ factKills < MaxKills
      /\ factKills' = factKills + 1
  BY Offline DEF C!KillAmounts, C!Killed
<1>2. C!TypeOK'
  <2>1. out' \in C!Files /\ (C!Whole(out') => out' = out)
    BY <1>1, Torned DEF FactsInv, C!TypeOK
  <2>2. factKills' \in 0 .. MaxKills
    BY <1>1 DEF FactsInv, C!TypeOK, FactsKnown, C!BoundsAssumption
  <2>3. amounts' \in (SUBSET A) \cup {Missing, Torn}
    BY <1>1 DEF FactsInv, C!TypeOK
  <2> QED
    BY <1>1, <2>1, <2>2, <2>3 DEF FactsInv, C!TypeOK, C!Whole, C!On
<1>3. RunsInv' /\ MetInv' /\ AmtInv'
  BY <1>1 DEF FactsInv, RunsInv, MetInv, AmtInv, C!On
<1>4. SigInv'
  BY <1>1 DEF FactsInv, SigInv, MetInv, C!On
<1> QED
  BY <1>2, <1>3, <1>4 DEF FactsInv

LEMMA FactsNext == FactsKnown /\ FactsInv /\ [C!Next]_(C!vars) => FactsInv'
BY FactsStutter, SourceKeeps, BeginSignalsKeeps, BeginAmountsKeeps, WriteOutKeeps, UnlinkKeeps,
   AskSignalsKeeps, GetSignalsKeeps, WriteAmountsKeeps, AskAmountKeeps, GetAmountKeeps,
   KillSignalsKeeps, KillAmountsKeeps DEF C!Next, C!SignalsStep, C!AmountsStep

(* The output is written by the two writes and torn by the two kills. *)
OutputKept ==
    C!Whole(out) /\ C!Whole(out') =>
        /\ \A c \in out.cases \ out'.cases :
               (C!On(sig) /\ c \notin sig.cases) \/ (C!On(amt) /\ amt.met)
        /\ \A c \in out.amounts \ out'.amounts :
               \/ C!On(sig) /\ c \notin sig.cases
               \/ C!On(sig) /\ (sig.met \/ c \in sig.done \cup sig.failed \cup sig.from)
               \/ C!On(amt) /\ amt.met

LEMMA WriteOutKeepsOut ==
    ASSUME FactsKnown, FactsInv, C!WriteOut PROVE OutputKept
<1>1. /\ sig \in SigRuns /\ sig.at = "work" /\ sig.todo = {} /\ sig.asking = {} /\ C!On(sig)
      /\ out' = [cases |-> sig.cases, signals |-> (sig.signals \cup sig.done) \cap sig.cases,
                 amounts |-> sig.amounts \cap sig.cases]
  BY DEF C!WriteOut, C!Through, FactsInv, RunsInv, C!On
<1>2. out'.cases = sig.cases /\ out'.amounts = sig.amounts \cap sig.cases
  BY <1>1
<1>3. ASSUME C!Whole(out), ~sig.met
      PROVE  out.amounts \cap sig.cases \subseteq sig.amounts \cup sig.from \cup sig.done \cup sig.failed
  BY <1>1, <1>3 DEF FactsInv, SigInv, C!Amounts
<1> QED
  BY <1>1, <1>2, <1>3 DEF OutputKept

LEMMA WriteAmountsKeepsOut ==
    ASSUME FactsKnown, FactsInv, C!WriteAmounts PROVE OutputKept
<1>1. /\ C!On(amt) /\ out'.cases = amt.cases /\ out'.amounts = amt.amounts
  BY DEF C!WriteAmounts, C!Through, C!On
<1> QED
  BY <1>1 DEF OutputKept, FactsInv, AmtInv

LEMMA FactsKeepOut ==
    ASSUME FactsKnown, FactsInv, [C!Next]_(C!vars) PROVE OutputKept
<1>1. CASE C!WriteOut
  BY <1>1, WriteOutKeepsOut
<1>2. CASE C!WriteAmounts
  BY <1>2, WriteAmountsKeepsOut
<1>3. CASE out' \in {out, Torn}
  BY <1>3, Torned DEF OutputKept
<1>4. C!WriteOut \/ C!WriteAmounts \/ out' \in {out, Torn}
  BY DEF C!Next, C!SignalsStep, C!AmountsStep, C!Source, C!BeginSignals, C!BeginAmounts,
     C!AskSignals, C!GetSignals,
         C!Checkpoint, C!Unlink, C!AskAmount, C!GetAmount, C!KillSignals, C!KillAmounts, C!vars
<1> QED
  BY <1>1, <1>2, <1>3, <1>4

SignalsKept ==
    Torn \notin {out', partial'} =>
        \A c \in (C!Signals(out) \cup C!Signals(partial)) \ (C!Signals(out') \cup C!Signals(partial')) :
            \/ C!On(sig) /\ c \notin sig.cases
            \/ (C!On(sig) /\ (sig.fresh \/ sig.met)) \/ (C!On(amt) /\ amt.met)

LEMMA FactsKeepSignals ==
    ASSUME FactsKnown, FactsInv, [C!Next]_(C!vars) PROVE SignalsKept
<1>1. CASE C!WriteOut
  <2>1. /\ sig \in SigRuns /\ sig.at = "work" /\ C!On(sig)
        /\ out' = [cases |-> sig.cases, signals |-> (sig.signals \cup sig.done) \cap sig.cases,
                   amounts |-> sig.amounts \cap sig.cases]
    BY <1>1 DEF C!WriteOut, C!Through, FactsInv, RunsInv, C!On
  <2>2. /\ sig.cases \in SUBSET A /\ (sig.signals \cup sig.done) \cap sig.cases \in SUBSET A
        /\ sig.amounts \cap sig.cases \in SUBSET A
    BY <2>1 DEF SigRuns
  <2>3. C!Signals(out') = (sig.signals \cup sig.done) \cap sig.cases
    BY <2>1, <2>2, WrittenIsWhole DEF FactsKnown
  <2> QED
    BY <2>1, <2>3 DEF FactsInv, SigInv, SignalsKept
<1>2. CASE C!WriteAmounts
  <2>1. /\ amt \in AmtRuns /\ C!On(amt)
        /\ out' = [cases |-> amt.cases, signals |-> amt.signals, amounts |-> amt.amounts]
        /\ UNCHANGED partial
    BY <1>2 DEF C!WriteAmounts, C!Through, FactsInv, RunsInv, C!On
  <2>2. amt.cases \in SUBSET A /\ amt.signals \in SUBSET A /\ amt.amounts \in SUBSET A
    BY <2>1 DEF AmtRuns
  <2>3. C!Signals(out') = amt.signals
    BY <2>1, <2>2, WrittenIsWhole DEF FactsKnown
  <2>4. ~amt.met => C!Signals(out) = amt.signals
    BY <2>1 DEF FactsInv, AmtInv, C!Signals
  <2> QED
    BY <2>1, <2>3, <2>4 DEF SignalsKept
<1>3. CASE C!Unlink
  <2>1. sig.at = "unlink" /\ C!On(sig) /\ UNCHANGED out
    BY <1>3 DEF C!Unlink, C!On
  <2> QED
    BY <2>1 DEF FactsInv, SigInv, SignalsKept
<1>4. CASE \E c \in A : C!GetSignals(c)
  <2>1. PICK c \in A : C!GetSignals(c)
    BY <1>4
  <2>2. /\ sig \in SigRuns /\ sig.at = "work" /\ C!On(sig) /\ UNCHANGED out
        /\ \/ sig' = [sig EXCEPT !.asking = @ \ {c}, !.done = @ \cup {c}]
           \/ sig' = [sig EXCEPT !.asking = @ \ {c}, !.failed = @ \cup {c}]
        /\ \/ UNCHANGED partial
           \/ partial' = [cases |-> sig'.signals \cup sig'.done \cup sig'.failed,
                          signals |-> sig'.signals \cup sig'.done, amounts |-> sig'.amounts]
    BY <2>1 DEF C!GetSignals, C!Checkpoint, FactsInv, RunsInv, C!On
  <2>3. CASE UNCHANGED partial
    BY <2>2, <2>3 DEF SignalsKept
  <2>4. CASE partial' = [cases |-> sig'.signals \cup sig'.done \cup sig'.failed,
                          signals |-> sig'.signals \cup sig'.done, amounts |-> sig'.amounts]
    <3>1. sig' \in SigRuns /\ sig'.signals = sig.signals /\ sig.done \subseteq sig'.done
      <4>1. CASE sig' = [sig EXCEPT !.asking = @ \ {c}, !.done = @ \cup {c}]
        BY <2>2, <4>1 DEF SigRuns
      <4>2. CASE sig' = [sig EXCEPT !.asking = @ \ {c}, !.failed = @ \cup {c}]
        BY <2>2, <4>2 DEF SigRuns
      <4> QED
        BY <2>2, <4>1, <4>2
    <3>2. /\ sig'.signals \cup sig'.done \cup sig'.failed \in SUBSET A
          /\ sig'.signals \cup sig'.done \in SUBSET A /\ sig'.amounts \in SUBSET A
      BY <3>1 DEF SigRuns
    <3>3. C!Signals(partial') = sig'.signals \cup sig'.done
      BY <2>4, <3>2, WrittenIsWhole DEF FactsKnown
    <3> QED
      BY <2>2, <3>1, <3>3 DEF FactsInv, SigInv, SignalsKept
  <2> QED
    BY <2>2, <2>3, <2>4
<1>5. CASE out' \in {out, Torn} /\ partial' \in {partial, Torn}
  BY <1>5 DEF SignalsKept
<1>6. \/ C!WriteOut \/ C!WriteAmounts \/ C!Unlink \/ \E c \in A : C!GetSignals(c)
      \/ out' \in {out, Torn} /\ partial' \in {partial, Torn}
  BY DEF C!Next, C!SignalsStep, C!AmountsStep, C!Source, C!BeginSignals, C!BeginAmounts,
     C!AskSignals,
         C!AskAmount, C!GetAmount, C!KillSignals, C!KillAmounts, C!vars
<1> QED
  BY <1>1, <1>2, <1>3, <1>4, <1>5, <1>6

(* Kills and second runs included, no case of the enriched file, no signals  *)
(* that were extracted and no amount is lost, but where the scripts overlap, *)
(* a run starts over or extracts again (extract_case_signals.py,             *)
(* extract_claim_amounts.py), for any cases and numbers of runs.             *)
THEOREM FactsCorrect ==
    ASSUME PartsAssumption
    PROVE  Spec => FactsAreKept
<1>1. FactsKnown
  BY DEF FactsKnown, PartsAssumption
<1>2. Init => FactsInv
  BY <1>1, FactsInit DEF Init
<1>3. FactsInv /\ [Next]_vars => FactsInv'
  BY <1>1, StepsOfScripts, FactsNext
<1>4. FactsInv => C!TypeOK
  BY DEF FactsInv
<1>5. FactsInv /\ [Next]_vars =>
          [C!Whole(out) /\ C!Whole(out') =>
           \A c \in out.cases \ out'.cases :
               (C!On(sig) /\ c \notin sig.cases) \/ (C!On(amt) /\ amt.met)]_(C!vars)
  BY <1>1, StepsOfScripts, FactsKeepOut DEF OutputKept
<1>6. FactsInv /\ [Next]_vars =>
          [Torn \notin {out', partial'} =>
           \A c \in (C!Signals(out) \cup C!Signals(partial))
                    \ (C!Signals(out') \cup C!Signals(partial')) :
               \/ C!On(sig) /\ c \notin sig.cases
               \/ (C!On(sig) /\ (sig.fresh \/ sig.met)) \/ (C!On(amt) /\ amt.met)]_(C!vars)
  BY <1>1, StepsOfScripts, FactsKeepSignals DEF SignalsKept
<1>7. FactsInv /\ [Next]_vars =>
          [C!Whole(out) /\ C!Whole(out') =>
           \A c \in out.amounts \ out'.amounts :
               \/ C!On(sig) /\ c \notin sig.cases
               \/ C!On(sig) /\ (sig.met \/ c \in sig.done \cup sig.failed \cup sig.from)
               \/ C!On(amt) /\ amt.met]_(C!vars)
  BY <1>1, StepsOfScripts, FactsKeepOut DEF OutputKept
<1> QED
  BY <1>2, <1>3, <1>4, <1>5, <1>6, <1>7, PTL
     DEF Spec, FactsAreKept, C!OutIsComplete, C!SignalsSurvive, C!AmountsSurvive

-----------------------------------------------------------------------------
LeastOf ==
    \A T \in SUBSET Nat : T # {} => \E n \in T : \A m \in T : n <= m

LEMMA SameCounts ==
    /\ \A set : L!Cardinality(set) = Cardinality(set)
    /\ \A set : L!IsFiniteSet(set) = IsFiniteSet(set)
BY Zenon DEF L!Cardinality, Cardinality, L!IsFiniteSet, IsFiniteSet

LEMMA LeastNumber == LeastOf
<1> SUFFICES ASSUME NEW T \in SUBSET Nat, T # {} PROVE \E n \in T : \A m \in T : n <= m
  BY DEF LeastOf
<1>1. PICK n \in T : \A m \in T : <<m, n>> \notin OpToRel(<, Nat)
  BY NatLessThanWellFounded, WFMin
<1>2. ASSUME NEW m \in T PROVE n <= m
  <2>1. ~(m < n)
    BY <1>1 DEF OpToRel
  <2> QED BY <2>1
<1> QED BY <1>2

Sheetable ==
    /\ L!DecidedAssumption /\ L!JudgementsAssumption /\ L!BoundAssumption /\ L!CasesAssumption
    /\ L!NoneAssumption

(* What the first n versions of the code decide of a case, on any day. *)
Shown(c, n) ==
    {one \in Outputs \ {None} : \E v \in 1 .. n, d \in Rests : one = Decided[c, v, d]}
Row == [case : CaseIds, shows : Outputs]
Label == [ai : L!Answers \cup {None}, real : L!Answers \cup {None}, sim : L!Answers \cup {None},
          of : Outputs \cup {None}]

(* A sheet lists a case once, with what a version of the code made of it. *)
SheetOK(lines, n) ==
    /\ lines \in Seq(Row)
    /\ \A i \in DOMAIN lines : lines[i].shows \in Shown(lines[i].case, n)
    /\ \A i, j \in DOMAIN lines : lines[i].case = lines[j].case => i = j

LabelOK(label, c, n) ==
    /\ label \in Label
    /\ label.sim # None => label.ai = L!Yes /\ label.real = L!Yes
    /\ L!IsDone(label) => label.of \in Shown(c, n)

Sessions ==
    [at : {"first", "second", "third", "noting"}, rows : Seq(Row), labels : Seq(Label), i : Nat,
     ai : L!Answers \cup {None}, real : L!Answers \cup {None}]

(* What a session holds between two answers. *)
SessionOK(s, n) ==
    /\ s \in Sessions
    /\ SheetOK(s.rows, n) /\ s.i \in DOMAIN s.rows /\ DOMAIN s.labels = DOMAIN s.rows
    /\ \A i \in DOMAIN s.rows : LabelOK(s.labels[i], s.rows[i].case, n)
    /\ s.at # "first" => s.ai \in L!Answers
    /\ s.at \in {"third", "noting"} => s.real \in L!Answers
    /\ s.at = "third" => s.ai = L!Yes /\ s.real = L!Yes

OpenInv == session.at # "closed" => SessionOK(session, version)
LabelFileInv == \A c \in CaseIds : LabelOK(labels[c], c, version)
KeyInv == \A c \in CaseIds : key[c] \in {None, L!KeyOf(c)}
CountInv ==
    version \in 1 .. MaxVersions /\ day \in Rests /\ builds \in 0 .. MaxVersions /\ judged \in JudgeAnswers

(* As long as one sheet was built at most, file and session agree. *)
OneSheetInv ==
    /\ builds = 0 => sheet = <<>> /\ session.at = "closed"
    /\ builds <= 1 =>
          /\ \A c \in CaseIds :
                (\A i \in DOMAIN sheet : sheet[i].case # c) => labels[c] = L!Blank
          /\ session.at # "closed" =>
                session.rows = sheet
                /\ \A i \in DOMAIN sheet : session.labels[i] = labels[sheet[i].case]

LabelsInv == CountInv /\ SheetOK(sheet, version) /\ OpenInv /\ LabelFileInv /\ KeyInv /\ OneSheetInv

LEMMA BlankIsOK == ASSUME L!NoneAssumption, NEW c, NEW n PROVE LabelOK(L!Blank, c, n)
BY DEF LabelOK, Label, L!Blank, L!IsDone

LEMMA ClosedIsClosed == L!Closed.at = "closed"
BY DEF L!Closed

LEMMA LabelsInit == Sheetable /\ L!Init => LabelsInv
<1> SUFFICES ASSUME Sheetable, L!Init PROVE LabelsInv
  OBVIOUS
<1>1. CountInv
  BY DEF Sheetable, L!BoundAssumption, L!Init, CountInv
<1>2. SheetOK(sheet, version)
  BY DEF L!Init, SheetOK
<1>3. session.at = "closed"
  BY ClosedIsClosed DEF L!Init
<1>4. LabelFileInv /\ KeyInv
  BY BlankIsOK DEF Sheetable, L!Init, LabelFileInv, KeyInv
<1>5. OneSheetInv
  BY <1>3 DEF L!Init, OneSheetInv
<1> QED
  BY <1>1, <1>2, <1>3, <1>4, <1>5 DEF LabelsInv, OpenInv

(* Sheets, labels and sessions stay right as the code goes on. *)
LEMMA OlderShown ==
    ASSUME NEW n \in Nat, NEW m \in Nat, n <= m
    PROVE  /\ \A lines : SheetOK(lines, n) => SheetOK(lines, m)
           /\ \A label, c : LabelOK(label, c, n) => LabelOK(label, c, m)
           /\ \A s : SessionOK(s, n) => SessionOK(s, m)
<1>1. ASSUME NEW c PROVE Shown(c, n) \subseteq Shown(c, m)
  <2>1. 1 .. n \subseteq 1 .. m
    OBVIOUS
  <2> QED BY Zenon, <2>1 DEF Shown
<1>2. ASSUME NEW lines, SheetOK(lines, n) PROVE SheetOK(lines, m)
  BY <1>1, <1>2 DEF SheetOK
<1>3. ASSUME NEW label, NEW c, LabelOK(label, c, n) PROVE LabelOK(label, c, m)
  BY <1>1, <1>3 DEF LabelOK
<1>4. ASSUME NEW s, SessionOK(s, n) PROVE SessionOK(s, m)
  BY <1>2, <1>3, <1>4 DEF SessionOK
<1> QED
  BY <1>2, <1>3, <1>4

LEMMA ChangeCodeKeeps ==
    ASSUME Sheetable, LabelsInv, L!ChangeCode PROVE LabelsInv'
<1>1. /\ version' = version + 1 /\ version < MaxVersions
      /\ UNCHANGED <<day, judged, sheet, key, labels, session, builds>>
  BY DEF L!ChangeCode
<1>2. CountInv'
  BY <1>1 DEF LabelsInv, CountInv, Sheetable, L!BoundAssumption
<1>3. SheetOK(sheet, version)' /\ OpenInv' /\ LabelFileInv'
  <2>1. version \in Nat /\ version' \in Nat /\ version <= version'
    BY <1>1 DEF LabelsInv, CountInv
  <2> QED
    BY <1>1, <2>1, OlderShown DEF LabelsInv, OpenInv, LabelFileInv
<1>4. KeyInv' /\ OneSheetInv'
  BY <1>1 DEF LabelsInv, KeyInv, L!KeyOf, OneSheetInv
<1> QED
  BY <1>2, <1>3, <1>4 DEF LabelsInv

LEMMA TurnKeeps ==
    ASSUME LabelsInv, L!Turn PROVE LabelsInv'
<1>1. day' \in Rests /\ UNCHANGED <<version, judged, sheet, key, labels, session, builds>>
  BY DEF L!Turn
<1>2. CountInv' /\ SheetOK(sheet, version)' /\ OpenInv' /\ LabelFileInv'
  BY <1>1 DEF LabelsInv, CountInv, OpenInv, LabelFileInv
<1>3. KeyInv' /\ OneSheetInv'
  BY <1>1 DEF LabelsInv, KeyInv, L!KeyOf, OneSheetInv
<1> QED
  BY <1>2, <1>3 DEF LabelsInv

LEMMA LabelsStutter == LabelsInv /\ UNCHANGED L!vars => LabelsInv'
<1> SUFFICES ASSUME LabelsInv, UNCHANGED L!vars PROVE LabelsInv'
  OBVIOUS
<1>1. CountInv'
  BY DEF LabelsInv, CountInv, L!vars
<1>2. SheetOK(sheet, version)' /\ OpenInv' /\ LabelFileInv'
  BY DEF LabelsInv, OpenInv, LabelFileInv, L!vars
<1>3. KeyInv' /\ OneSheetInv'
  BY DEF LabelsInv, KeyInv, L!KeyOf, OneSheetInv, L!vars
<1> QED
  BY <1>1, <1>2, <1>3 DEF LabelsInv

Choices == L!SetToSeqs(CaseIds) \cup {<<c>> : c \in CaseIds}

LEMMA ChosenOnce ==
    ASSUME L!CasesAssumption, NEW chosen \in Choices
    PROVE  /\ chosen \in Seq(CaseIds)
           /\ \A i, j \in DOMAIN chosen : chosen[i] = chosen[j] => i = j
<1>1. CASE chosen \in L!SetToSeqs(CaseIds)
  <2>1. L!Cardinality(CaseIds) \in Nat
    BY FS_CardinalityType, SameCounts DEF L!CasesAssumption
  <2>2. /\ chosen \in [1 .. L!Cardinality(CaseIds) -> CaseIds]
        /\ \A i, j \in 1 .. L!Cardinality(CaseIds) : i # j => chosen[i] # chosen[j]
    BY <1>1 DEF L!SetToSeqs
  <2> QED
    BY <2>1, <2>2
<1>2. CASE chosen \in {<<c>> : c \in CaseIds}
  <2>1. PICK c \in CaseIds : chosen = <<c>>
    BY <1>2
  <2>2. chosen \in Seq(CaseIds) /\ DOMAIN chosen = 1 .. 1
    BY <2>1
  <2> QED
    BY <2>2
<1> QED
  BY <1>1, <1>2 DEF Choices

LEMMA BuildKeeps ==
    ASSUME Sheetable, LabelsInv, NEW chosen \in Choices, L!Build(chosen) PROVE LabelsInv'
<1> DEFINE Shows(c) == Decided[c, version, day]
<1>1. /\ builds < MaxVersions /\ builds' = builds + 1
      /\ sheet' = [i \in DOMAIN chosen |-> [case |-> chosen[i], shows |-> Shows(chosen[i])]]
      /\ UNCHANGED <<version, day, judged, key, labels, session>>
  BY DEF L!Build
<1>2. /\ chosen \in Seq(CaseIds) /\ Len(chosen) \in Nat /\ DOMAIN chosen = 1 .. Len(chosen)
      /\ \A i, j \in DOMAIN chosen : chosen[i] = chosen[j] => i = j
  BY ChosenOnce DEF Sheetable
<1>8. ASSUME NEW i \in DOMAIN chosen
      PROVE  /\ Shows(chosen[i]) \in Outputs \cup {None} /\ Shows(chosen[i]) # None
             /\ Shows(chosen[i]) \in Shown(chosen[i], version)
  <2>1. /\ chosen[i] \in CaseIds /\ version \in 1 .. MaxVersions /\ version \in 1 .. version
        /\ day \in Rests
    BY <1>2 DEF LabelsInv, CountInv
  <2>2. <<chosen[i], version, day>> \in CaseIds \X (1 .. MaxVersions) \X Rests
    BY <2>1
  <2>3. Shows(chosen[i]) \in Outputs \cup {None}
    BY <2>2 DEF Sheetable, L!DecidedAssumption
  <2>4. Shows(chosen[i]) # None
    BY DEF L!Build
  <2> QED BY <2>1, <2>3, <2>4 DEF Shown
<1> HIDE DEF Shows
<1>3. CountInv'
  BY <1>1 DEF LabelsInv, CountInv, Sheetable, L!BoundAssumption
<1>4. SheetOK(sheet, version)'
  <2>1. \A i \in DOMAIN chosen : [case |-> chosen[i], shows |-> Shows(chosen[i])] \in Row
    BY <1>2, <1>8 DEF Row
  <2>2. sheet' \in Seq(Row)
    BY <1>1, <1>2, <2>1
  <2>3. DOMAIN sheet' = DOMAIN chosen
    BY <1>1
  <2>4. \A i \in DOMAIN chosen : /\ sheet'[i].case = chosen[i] /\ sheet'[i].shows = Shows(chosen[i])
    BY <1>1
  <2>5. \A i \in DOMAIN sheet' : sheet'[i].shows \in Shown(sheet'[i].case, version)
    BY <1>8, <2>3, <2>4
  <2> QED
    BY <1>1, <1>2, <2>2, <2>3, <2>4, <2>5 DEF SheetOK
<1>5. OpenInv' /\ LabelFileInv'
  BY <1>1 DEF LabelsInv, OpenInv, LabelFileInv
<1>6. KeyInv'
  BY <1>1 DEF LabelsInv, KeyInv, L!KeyOf
<1>7. OneSheetInv'
  <2>1. CASE builds = 0
    <3>1. \A c \in CaseIds : labels[c] = L!Blank
      BY <2>1 DEF LabelsInv, OneSheetInv
    <3>2. session.at = "closed"
      BY <2>1 DEF LabelsInv, OneSheetInv
    <3> QED
      BY <1>1, <2>1, <3>1, <3>2 DEF OneSheetInv
  <2>2. CASE builds # 0
    BY <1>1, <2>2 DEF OneSheetInv, LabelsInv, CountInv
  <2> QED
    BY <2>1, <2>2
<1> QED
  BY <1>3, <1>4, <1>5, <1>6, <1>7 DEF LabelsInv

LEMMA BuildKeyKeeps ==
    ASSUME LabelsInv, L!BuildKey PROVE LabelsInv'
<1>1. /\ \A c \in CaseIds : key'[c] \in {None, L!KeyOf(c)}
      /\ UNCHANGED <<version, day, judged, sheet, labels, session, builds>>
  BY DEF L!BuildKey
<1>2. CountInv' /\ KeyInv' /\ OneSheetInv'
  BY <1>1 DEF LabelsInv, CountInv, KeyInv, L!KeyOf, OneSheetInv
<1>3. SheetOK(sheet, version)' /\ OpenInv' /\ LabelFileInv'
  BY <1>1 DEF LabelsInv, OpenInv, LabelFileInv
<1> QED
  BY <1>2, <1>3 DEF LabelsInv

LEMMA OpenKeeps ==
    ASSUME Sheetable, LabelsInv, NEW goto \in DOMAIN sheet \cup {None}, L!Open(goto)
    PROVE  LabelsInv'
<1> DEFINE marks == [i \in DOMAIN sheet |-> labels[sheet[i].case]]
           undone == {i \in DOMAIN sheet : ~L!IsDone(marks[i])}
           start == IF goto # None THEN goto ELSE CHOOSE i \in undone : \A j \in undone : i <= j
<1>1. /\ session = L!Closed /\ (goto = None => undone # {})
      /\ session' = [at |-> "first", rows |-> sheet, labels |-> marks, i |-> start,
                     ai |-> None, real |-> None]
      /\ UNCHANGED <<version, day, judged, sheet, key, labels, builds>>
  BY DEF L!Open
<1>2. /\ sheet \in Seq(Row) /\ Len(sheet) \in Nat /\ DOMAIN sheet = 1 .. Len(sheet)
      /\ \A i \in DOMAIN sheet : sheet[i].case \in CaseIds
  <2>1. sheet \in Seq(Row)
    BY DEF LabelsInv, SheetOK
  <2>2. \A i \in DOMAIN sheet : sheet[i] \in Row
    BY <2>1
  <2> QED
    BY <2>1, <2>2 DEF Row
<1>3. /\ DOMAIN marks = DOMAIN sheet
      /\ \A i \in DOMAIN sheet : marks[i] = labels[sheet[i].case]
  OBVIOUS
<1>4. marks \in Seq(Label) /\ \A i \in DOMAIN sheet : LabelOK(marks[i], sheet[i].case, version)
  <2>1. \A i \in DOMAIN sheet : LabelOK(labels[sheet[i].case], sheet[i].case, version)
    BY <1>2 DEF LabelsInv, LabelFileInv
  <2>2. \A i \in DOMAIN sheet : labels[sheet[i].case] \in Label
    BY <2>1 DEF LabelOK
  <2>3. marks \in [1 .. Len(sheet) -> Label]
    BY <1>2, <2>2
  <2> QED
    BY <1>2, <1>3, <2>1, <2>3
<1>5. start \in DOMAIN sheet
  <2>1. CASE goto # None
    BY <2>1
  <2>2. CASE goto = None
    <3>1. undone # {}
      BY <1>1, <2>2
    <3>2. undone \subseteq DOMAIN sheet
      OBVIOUS
    <3> HIDE DEF undone
    <3>3. undone \in SUBSET Nat
      BY <1>2, <3>2
    <3>4. \E i \in undone : \A j \in undone : i <= j
      BY <3>1, <3>3, LeastNumber DEF LeastOf
    <3> QED
      BY <2>2, <3>2, <3>4
  <2> QED
    BY <2>1, <2>2
<1> HIDE DEF marks, undone, start
<1>6. SessionOK(session', version)
  <2>1. /\ session' \in Sessions /\ session'.at = "first" /\ session'.rows = sheet
        /\ session'.labels = marks /\ session'.i = start
    BY <1>1, <1>2, <1>4, <1>5 DEF Sessions
  <2> QED
    BY <1>3, <1>4, <1>5, <2>1 DEF SessionOK, LabelsInv
<1>7. CountInv' /\ SheetOK(sheet, version)' /\ OpenInv' /\ LabelFileInv'
  BY <1>1, <1>6 DEF LabelsInv, CountInv, OpenInv, LabelFileInv
<1>8. KeyInv'
  BY <1>1 DEF LabelsInv, KeyInv, L!KeyOf
<1>9. OneSheetInv'
  <2>1. builds # 0
    BY DEF L!Open, LabelsInv, OneSheetInv
  <2>2. session'.rows = sheet /\ session'.labels = marks
    BY <1>1
  <2> QED
    BY <1>1, <1>3, <2>1, <2>2 DEF LabelsInv, OneSheetInv
<1> QED
  BY <1>7, <1>8, <1>9 DEF LabelsInv

(* An answer changes the question, not the rows or the labels. *)
LEMMA AskedKeeps ==
    ASSUME LabelsInv, session.at # "closed", session' \in Sessions,
           session'.rows = session.rows, session'.labels = session.labels,
           session'.i \in DOMAIN session.rows, session'.at # "closed",
           session'.at # "first" => session'.ai \in L!Answers,
           session'.at \in {"third", "noting"} => session'.real \in L!Answers,
           session'.at = "third" => session'.ai = L!Yes /\ session'.real = L!Yes,
           UNCHANGED <<version, day, judged, sheet, key, labels, builds>>
    PROVE  LabelsInv'
<1>1. SessionOK(session', version)
  BY DEF LabelsInv, OpenInv, SessionOK
<1>2. CountInv' /\ SheetOK(sheet, version)' /\ OpenInv' /\ LabelFileInv'
  BY <1>1 DEF LabelsInv, CountInv, OpenInv, LabelFileInv
<1>3. KeyInv' /\ OneSheetInv'
  BY DEF LabelsInv, KeyInv, L!KeyOf, OneSheetInv
<1> QED
  BY <1>2, <1>3 DEF LabelsInv

LEMMA AnswersKeep ==
    ASSUME LabelsInv, NEW a \in L!Answers, L!Answer1(a) \/ L!Answer2(a) PROVE LabelsInv'
<1>1. /\ session.at # "closed" /\ session \in Sessions /\ session.i \in DOMAIN session.rows
      /\ session.at # "first" => session.ai \in L!Answers
      /\ UNCHANGED <<version, day, judged, sheet, key, labels, builds>>
  BY DEF L!Answer1, L!Answer2, LabelsInv, OpenInv, SessionOK
<1>2. CASE session' = [session EXCEPT !.at = "second", !.ai = a]
  <2>1. /\ session' \in Sessions /\ session'.at = "second" /\ session'.ai = a
        /\ session'.rows = session.rows /\ session'.labels = session.labels
        /\ session'.i = session.i
    BY <1>1, <1>2 DEF Sessions
  <2> QED
    BY <1>1, <2>1, AskedKeeps
<1>3. CASE session.at = "second" /\ session' = [session EXCEPT !.at = "noting", !.real = a]
  <2>1. /\ session' \in Sessions /\ session'.at = "noting" /\ session'.ai = session.ai
        /\ session'.real = a /\ session'.rows = session.rows
        /\ session'.labels = session.labels /\ session'.i = session.i
    BY <1>1, <1>3 DEF Sessions
  <2> QED
    BY <1>1, <1>3, <2>1, AskedKeeps
<1> QED
  BY <1>2, <1>3 DEF L!Answer1, L!Answer2

LEMMA AskSimilarKeeps ==
    ASSUME LabelsInv, L!AskSimilar PROVE LabelsInv'
<1>1. /\ session.at = "second" /\ session.ai = L!Yes /\ session \in Sessions
      /\ session.i \in DOMAIN session.rows
      /\ session' = [session EXCEPT !.at = "third", !.real = L!Yes]
      /\ UNCHANGED <<version, day, judged, sheet, key, labels, builds>>
  BY DEF L!AskSimilar, LabelsInv, OpenInv, SessionOK
<1>2. /\ session' \in Sessions /\ session'.at = "third" /\ session'.ai = L!Yes
      /\ session'.real = L!Yes /\ session'.rows = session.rows
      /\ session'.labels = session.labels /\ session'.i = session.i
  BY <1>1 DEF Sessions, L!Answers
<1> QED
  BY <1>1, <1>2, AskedKeeps DEF L!Answers

LEMMA BackKeeps ==
    ASSUME LabelsInv, L!Back PROVE LabelsInv'
<1>1. /\ session.at # "closed" /\ session \in Sessions /\ session.i \in DOMAIN session.rows
      /\ SheetOK(session.rows, version)
      /\ session' = [session EXCEPT !.at = "first", !.ai = None, !.real = None,
                                    !.i = IF session.at = "first" /\ @ > 1 THEN @ - 1 ELSE @]
      /\ UNCHANGED <<version, day, judged, sheet, key, labels, builds>>
  BY DEF L!Back, LabelsInv, OpenInv, SessionOK
<1>2. /\ session'.at = "first" /\ session'.rows = session.rows
      /\ session'.labels = session.labels
      /\ session'.i = IF session.at = "first" /\ session.i > 1 THEN session.i - 1 ELSE session.i
  BY <1>1 DEF Sessions
<1>3. session.i \in Nat /\ session'.i \in Nat
  BY <1>1, <1>2 DEF Sessions
<1>4. session' \in Sessions
  BY <1>1, <1>2, <1>3 DEF Sessions
<1>5. session'.i \in DOMAIN session.rows
  <2>1. session.rows \in Seq(Row)
    BY <1>1 DEF Sessions
  <2>2. DOMAIN session.rows = 1 .. Len(session.rows) /\ Len(session.rows) \in Nat
    BY <2>1
  <2> QED
    BY <1>1, <1>2, <1>3, <2>2
<1> QED
  BY <1>1, <1>2, <1>4, <1>5, AskedKeeps

LEMMA CloseKeeps ==
    ASSUME LabelsInv, L!Kill PROVE LabelsInv'
<1>1. session'.at = "closed" /\ UNCHANGED <<version, day, judged, sheet, key, labels, builds>>
  BY ClosedIsClosed DEF L!Kill
<1>2. CountInv' /\ SheetOK(sheet, version)' /\ OpenInv' /\ LabelFileInv'
  BY <1>1 DEF LabelsInv, CountInv, OpenInv, LabelFileInv
<1>3. KeyInv' /\ OneSheetInv'
  BY <1>1 DEF LabelsInv, KeyInv, L!KeyOf, OneSheetInv
<1> QED
  BY <1>2, <1>3 DEF LabelsInv

(* The saved file has a label of each row, and nothing else. *)
LEMMA SavedIs ==
    ASSUME NEW s, SheetOK(s.rows, version), NEW c \in CaseIds
    PROVE  /\ \A i \in DOMAIN s.rows : s.rows[i].case = c => L!Saved(s)[c] = s.labels[i]
           /\ (\A i \in DOMAIN s.rows : s.rows[i].case # c) => L!Saved(s)[c] = L!Blank
<1>1. ASSUME NEW i \in DOMAIN s.rows, s.rows[i].case = c PROVE L!Saved(s)[c] = s.labels[i]
  <2>1. \A j \in DOMAIN s.rows : s.rows[j].case = c => j = i
    BY <1>1 DEF SheetOK
  <2>2. (CHOOSE j \in DOMAIN s.rows : s.rows[j].case = c) = i
    BY <1>1, <2>1
  <2> QED
    BY <1>1, <2>2 DEF L!Saved
<1>2. ASSUME \A i \in DOMAIN s.rows : s.rows[i].case # c PROVE L!Saved(s)[c] = L!Blank
  BY <1>2 DEF L!Saved
<1> QED
  BY <1>1, <1>2

LEMMA SavedIsOK ==
    ASSUME L!NoneAssumption, NEW s, SheetOK(s.rows, version),
           \A i \in DOMAIN s.rows : LabelOK(s.labels[i], s.rows[i].case, version),
           NEW c \in CaseIds
    PROVE  LabelOK(L!Saved(s)[c], c, version)
<1>1. CASE \E i \in DOMAIN s.rows : s.rows[i].case = c
  BY <1>1, SavedIs
<1>2. CASE \A i \in DOMAIN s.rows : s.rows[i].case # c
  BY <1>2, SavedIs, BlankIsOK
<1> QED
  BY <1>1, <1>2

(* Saving what a session holds loses no label of the one sheet. *)
LEMMA QuitKeeps ==
    ASSUME Sheetable, LabelsInv, L!Quit PROVE LabelsInv'
<1>1. /\ session'.at = "closed" /\ labels' = L!Saved(session) /\ session.at # "closed"
      /\ UNCHANGED <<version, day, judged, sheet, key, builds>>
  BY ClosedIsClosed DEF L!Quit
<1>2. /\ SheetOK(session.rows, version)
      /\ \A i \in DOMAIN session.rows : LabelOK(session.labels[i], session.rows[i].case, version)
  BY <1>1 DEF LabelsInv, OpenInv, SessionOK
<1>3. LabelFileInv'
  BY <1>1, <1>2, SavedIsOK DEF LabelFileInv, Sheetable
<1>4. CountInv' /\ SheetOK(sheet, version)' /\ OpenInv' /\ KeyInv'
  BY <1>1 DEF LabelsInv, CountInv, OpenInv, KeyInv, L!KeyOf
<1>5. OneSheetInv'
  BY <1>1, <1>2, SavedIs DEF LabelsInv, OneSheetInv
<1> QED
  BY <1>3, <1>4, <1>5 DEF LabelsInv

(* What the session is after the answers on a case. *)
Recorded(sim) ==
    LET label == [ai |-> session.ai, real |-> session.real, sim |-> sim,
                  of |-> session.rows[session.i].shows]
    IN [session EXCEPT !.labels[session.i] = label, !.at = "first", !.i = @ + 1]

LEMMA RecordedIs ==
    ASSUME LabelsInv, session.at \in {"third", "noting"}, NEW sim \in L!Answers \cup {None},
           session.at = "noting" => sim = None
    PROVE  /\ Recorded(sim) \in Sessions /\ Recorded(sim).at = "first"
           /\ Recorded(sim).rows = session.rows /\ Recorded(sim).i = session.i + 1
           /\ DOMAIN Recorded(sim).labels = DOMAIN session.rows
           /\ \A j \in DOMAIN session.rows :
                 /\ LabelOK(Recorded(sim).labels[j], session.rows[j].case, version)
                 /\ j # session.i => Recorded(sim).labels[j] = session.labels[j]
<1> DEFINE label == [ai |-> session.ai, real |-> session.real, sim |-> sim,
                     of |-> session.rows[session.i].shows]
           more == [session.labels EXCEPT ![session.i] = label]
<1>1. /\ session \in Sessions /\ SheetOK(session.rows, version) /\ session.i \in DOMAIN session.rows
      /\ DOMAIN session.labels = DOMAIN session.rows
      /\ \A j \in DOMAIN session.rows : LabelOK(session.labels[j], session.rows[j].case, version)
      /\ session.ai \in L!Answers /\ session.real \in L!Answers
      /\ session.at = "third" => session.ai = L!Yes /\ session.real = L!Yes
  BY DEF LabelsInv, OpenInv, SessionOK
<1>2. /\ session.rows[session.i].shows \in Outputs
      /\ session.rows[session.i].shows \in Shown(session.rows[session.i].case, version)
  <2>1. session.rows \in Seq(Row)
    BY <1>1 DEF SheetOK
  <2>2. session.rows[session.i] \in Row
    BY <1>1, <2>1
  <2> QED
    BY <1>1, <2>2 DEF SheetOK, Row
<1>3. label \in Label /\ LabelOK(label, session.rows[session.i].case, version)
  <2>1. label \in Label
    BY <1>1, <1>2 DEF Label
  <2>2. label.sim = sim /\ label.ai = session.ai /\ label.real = session.real
        /\ label.of = session.rows[session.i].shows
    OBVIOUS
  <2> HIDE DEF label
  <2> QED
    BY <1>1, <1>2, <2>1, <2>2 DEF LabelOK
<1>4. Recorded(sim) = [session EXCEPT !.labels[session.i] = label, !.at = "first", !.i = @ + 1]
  BY DEF Recorded
<1> HIDE DEF label
<1>5. /\ session.labels \in Seq(Label) /\ session.rows \in Seq(Row) /\ session.i \in Nat
  BY <1>1 DEF Sessions
<1>6. /\ more \in Seq(Label) /\ DOMAIN more = DOMAIN session.labels /\ more[session.i] = label
      /\ \A j \in DOMAIN session.labels : j # session.i => more[j] = session.labels[j]
  <2>1. session.labels \in [1 .. Len(session.labels) -> Label] /\ Len(session.labels) \in Nat
    BY <1>5
  <2>2. more \in [1 .. Len(session.labels) -> Label]
    BY <1>3, <2>1
  <2>3. more \in Seq(Label)
    BY <2>1, <2>2
  <2> QED
    BY <1>1, <2>1, <2>3
<1>7. Recorded(sim) = [session EXCEPT !.labels = more, !.at = "first", !.i = @ + 1]
  BY <1>4
<1> HIDE DEF more
<1>8. /\ Recorded(sim) \in Sessions /\ Recorded(sim).at = "first"
      /\ Recorded(sim).rows = session.rows /\ Recorded(sim).i = session.i + 1
      /\ Recorded(sim).labels = more
  <2>1. Recorded(sim) = [at |-> "first", rows |-> session.rows, labels |-> more,
                         i |-> session.i + 1, ai |-> session.ai, real |-> session.real]
    BY <1>1, <1>7 DEF Sessions
  <2> QED
    BY <1>1, <1>5, <1>6, <2>1 DEF Sessions
<1> QED
  BY <1>1, <1>3, <1>6, <1>8

RecordIs(sim) ==
    /\ session.at \in {"third", "noting"} /\ sim \in L!Answers \cup {None}
    /\ session.at = "noting" => sim = None
    /\ session' = IF Recorded(sim).i > Len(session.rows) THEN L!Closed ELSE Recorded(sim)
    /\ labels' = L!Saved(Recorded(sim))
    /\ UNCHANGED <<version, day, judged, sheet, key, builds>>

LEMMA RecordKeeps ==
    ASSUME Sheetable, LabelsInv, NEW sim, RecordIs(sim) PROVE LabelsInv'
<1> DEFINE done == Recorded(sim)
<1>1. /\ session' = IF done.i > Len(session.rows) THEN L!Closed ELSE done
      /\ labels' = L!Saved(done) /\ UNCHANGED <<version, day, judged, sheet, key, builds>>
  BY DEF RecordIs
<1>2. /\ session.at # "closed" /\ session.rows \in Seq(Row) /\ SheetOK(session.rows, version)
      /\ session.i \in DOMAIN session.rows
  BY DEF RecordIs, LabelsInv, OpenInv, SessionOK, SheetOK
<1>3. /\ done \in Sessions /\ done.at = "first"
      /\ done.rows = session.rows /\ done.i = session.i + 1
      /\ DOMAIN done.labels = DOMAIN session.rows
      /\ \A j \in DOMAIN session.rows : LabelOK(done.labels[j], session.rows[j].case, version)
  BY RecordedIs DEF RecordIs
<1> HIDE DEF done
<1>4. OpenInv'
  <2>1. CASE done.i > Len(session.rows)
    BY <1>1, <2>1, ClosedIsClosed DEF OpenInv
  <2>2. CASE ~(done.i > Len(session.rows))
    <3>1. done.i \in DOMAIN session.rows
      BY <1>2, <1>3, <2>2
    <3>2. SessionOK(done, version)
      BY <1>2, <1>3, <3>1 DEF SessionOK
    <3> QED
      BY <1>1, <2>2, <3>2 DEF OpenInv
  <2> QED
    BY <2>1, <2>2
<1>5. LabelFileInv'
  BY <1>1, <1>2, <1>3, SavedIsOK DEF LabelFileInv, Sheetable
<1>6. CountInv' /\ SheetOK(sheet, version)' /\ KeyInv'
  BY <1>1 DEF LabelsInv, CountInv, KeyInv, L!KeyOf
<1>7. OneSheetInv'
  <2>1. builds # 0
    BY <1>2 DEF LabelsInv, OneSheetInv
  <2>2. SUFFICES ASSUME builds <= 1
                 PROVE  /\ \A c \in CaseIds :
                              (\A i \in DOMAIN sheet : sheet[i].case # c) => labels'[c] = L!Blank
                        /\ session'.at # "closed" =>
                              session'.rows = sheet
                              /\ \A i \in DOMAIN sheet : session'.labels[i] = labels'[sheet[i].case]
    BY <1>1, <2>1 DEF OneSheetInv
  <2>3. session.rows = sheet
    BY <1>2, <2>2 DEF LabelsInv, OneSheetInv
  <2>4. \A i \in DOMAIN sheet : sheet[i].case \in CaseIds
    <3>1. \A i \in DOMAIN sheet : sheet[i] \in Row
      BY <1>2, <2>3
    <3> QED
      BY <3>1 DEF Row
  <2>5. session'.at # "closed" => session' = done
    BY <1>1, ClosedIsClosed
  <2>6. \A i \in DOMAIN sheet : L!Saved(done)[sheet[i].case] = done.labels[i]
    BY <1>2, <1>3, <2>3, <2>4, SavedIs
  <2>7. \A c \in CaseIds : (\A i \in DOMAIN sheet : sheet[i].case # c) => L!Saved(done)[c] = L!Blank
    BY <1>2, <1>3, <2>3, SavedIs
  <2> QED
    BY <1>1, <1>3, <2>3, <2>5, <2>6, <2>7
<1> QED
  BY <1>4, <1>5, <1>6, <1>7 DEF LabelsInv

LEMMA RecordsAre ==
    /\ \A a \in L!Answers : L!Answer3(a) => RecordIs(a)
    /\ L!Note => RecordIs(None)
<1>1. ASSUME NEW a \in L!Answers, L!Answer3(a) PROVE RecordIs(a)
  BY <1>1 DEF L!Answer3, L!Record, RecordIs, Recorded
<1>2. ASSUME L!Note PROVE RecordIs(None)
  BY <1>2 DEF L!Note, L!Record, RecordIs, Recorded
<1> QED
  BY <1>1, <1>2

LEMMA LabelsNext == Sheetable /\ LabelsInv /\ [L!Next]_(L!vars) => LabelsInv'
<1> SUFFICES ASSUME Sheetable, LabelsInv, [L!Next]_(L!vars) PROVE LabelsInv'
  OBVIOUS
<1>1. ASSUME NEW chosen \in Choices, L!Build(chosen) PROVE LabelsInv'
  BY <1>1, BuildKeeps
<1>2. ASSUME NEW a \in L!Answers, L!Answer3(a) PROVE LabelsInv'
  BY <1>2, RecordsAre, RecordKeeps
<1>3. CASE L!Note
  BY <1>3, RecordsAre, RecordKeeps
<1> QED
  BY <1>1, <1>2, <1>3, LabelsStutter, ChangeCodeKeeps, TurnKeeps, BuildKeyKeeps, OpenKeeps, AnswersKeep,
     AskSimilarKeeps, BackKeeps, QuitKeeps, CloseKeeps DEF L!Next, Choices

LEMMA LabelStays ==
    ASSUME Sheetable, LabelsInv, [L!Next]_(L!vars), NEW c \in CaseIds, L!IsDone(labels[c]),
           labels'[c] # labels[c]
    PROVE  builds > 1 \/ /\ session.at \in {"third", "noting"}
                         /\ session.rows[session.i].case = c
<1>1. SUFFICES ASSUME builds <= 1
               PROVE  session.at \in {"third", "noting"} /\ session.rows[session.i].case = c
  BY DEF LabelsInv, CountInv
<1>2. PICK j \in DOMAIN sheet : sheet[j].case = c
  BY <1>1 DEF LabelsInv, OneSheetInv, L!IsDone, L!Blank
<1>3. ASSUME session.at # "closed"
      PROVE  /\ session.rows = sheet /\ SheetOK(session.rows, version)
             /\ session.labels[j] = labels[c]
  BY <1>1, <1>2, <1>3 DEF LabelsInv, OneSheetInv, OpenInv, SessionOK
<1>4. ~L!Quit
  <2>1. SUFFICES ASSUME L!Quit PROVE FALSE
    OBVIOUS
  <2>2. session.at # "closed" /\ labels' = L!Saved(session)
    BY <2>1 DEF L!Quit
  <2> QED
    BY <1>2, <1>3, <2>2, SavedIs
<1>5. ASSUME NEW sim, RecordIs(sim)
      PROVE  session.at \in {"third", "noting"} /\ session.rows[session.i].case = c
  <2>1. /\ session.at \in {"third", "noting"} /\ labels' = L!Saved(Recorded(sim))
        /\ Recorded(sim).rows = session.rows
        /\ j # session.i => Recorded(sim).labels[j] = session.labels[j]
    BY <1>2, <1>3, <1>5, RecordedIs DEF RecordIs
  <2>2. L!Saved(Recorded(sim))[c] = Recorded(sim).labels[j]
    BY <1>2, <1>3, <2>1, SavedIs
  <2>3. j = session.i
    BY <1>3, <2>1, <2>2
  <2> QED
    BY <1>2, <1>3, <2>1, <2>3
<1>6. labels' # labels
  OBVIOUS
<1>7. (\E a \in L!Answers : L!Answer3(a)) \/ L!Note
  BY <1>4, <1>6 DEF L!Next, L!ChangeCode, L!Turn, L!BuildKey, L!Build, L!Open, L!Answer1, L!Answer2,
     L!AskSimilar, L!Back, L!Kill,
     L!vars
<1> QED
  BY <1>5, <1>7, RecordsAre

LEMMA LabelsKnow == ASSUME Sheetable, LabelsInv PROVE L!TypeOK /\ L!ComparedLikeWithLike
<1>1. L!Pairs("verdict") \ L!Disagreements = UNION {L!Agreed(v) : v \in {"match", "partial", "mismatch"}}
  <2>1. \A c \in CaseIds : L!JudgeVerdict(key[c]) \in {"match", "partial", "mismatch"}
    BY DEF L!JudgeVerdict
  <2>2. L!Pairs("verdict") \subseteq CaseIds
    BY DEF L!Pairs
  <2> QED
    BY <2>1, <2>2 DEF L!Disagreements, L!Agreed, L!Stratum
<1>2. \A c \in CaseIds : {labels[c].ai, labels[c].real, labels[c].sim} \subseteq L!Answers \cup {None}
  BY DEF LabelsInv, LabelFileInv, LabelOK, Label
<1>3. session.at # "closed" => session.i \in DOMAIN session.rows
  BY DEF LabelsInv, OpenInv, SessionOK
<1>4. L!TypeOK
  BY <1>1, <1>2, <1>3 DEF L!TypeOK, LabelsInv, CountInv
<1>5. \A c \in CaseIds : labels[c].sim # None => labels[c].ai = L!Yes /\ labels[c].real = L!Yes
  BY DEF LabelsInv, LabelFileInv, LabelOK
<1>6. ASSUME NEW c \in L!Pairs("verdict")
      PROVE  /\ key[c].of = judged[c].of
             /\ \E v \in 1 .. version, d \in Rests : labels[c].of = Decided[c, v, d]
             /\ labels[c].of # None
  <2>1. c \in CaseIds /\ key[c] # None /\ L!ReadLabel(c).verdict # None
    BY <1>6 DEF L!Pairs
  <2>2. key[c].of = judged[c].of
    BY <2>1 DEF LabelsInv, KeyInv, L!KeyOf
  <2>3. L!Truth(labels[c].ai) # None /\ L!Truth(labels[c].real) # None
    BY <2>1 DEF L!ReadLabel, L!VerdictOf
  <2>4. L!Truth(None) = None
    BY DEF L!Truth, Sheetable, L!NoneAssumption, L!Answers
  <2>5. L!IsDone(labels[c])
    BY <2>3, <2>4 DEF L!IsDone
  <2>6. labels[c].of \in Shown(c, version)
    BY <2>1, <2>5 DEF LabelsInv, LabelFileInv, LabelOK
  <2>7. labels[c].of # None /\ \E v \in 1 .. version, d \in Rests : labels[c].of = Decided[c, v, d]
    BY Zenon, <2>6 DEF Shown
  <2> QED
    BY <2>2, <2>7
<1> QED
  BY <1>4, <1>5, <1>6 DEF L!ComparedLikeWithLike

(* Where person and judge are compared, the person was shown a decision of   *)
(* that case by sources no newer than now, the judge answered of the one it  *)
(* was shown, and a label stays until its case is labelled anew              *)
(* (label_cases.py, judge_human_agreement.py), for any cases and number of   *)
(* sheets.                                                                   *)
THEOREM LabelsCorrect ==
    ASSUME PartsAssumption
    PROVE  Spec => LabelsAreComparable
<1>1. Sheetable
  BY DEF Sheetable, PartsAssumption
<1>2. Init => LabelsInv
  BY <1>1, LabelsInit DEF Init
<1>3. LabelsInv /\ [Next]_vars => LabelsInv'
  BY <1>1, StepsOfScripts, LabelsNext
<1>4. LabelsInv => L!TypeOK /\ L!ComparedLikeWithLike
  BY <1>1, LabelsKnow
<1>5. LabelsInv /\ [Next]_vars =>
          [\A c \in CaseIds :
           L!IsDone(labels[c]) /\ labels'[c] # labels[c] =>
               builds > 1 \/ /\ session.at \in {"third", "noting"}
                             /\ session.rows[session.i].case = c]_(L!vars)
  BY <1>1, StepsOfScripts, LabelStays
<1> QED
  BY <1>2, <1>3, <1>4, <1>5, PTL DEF Spec, LabelsAreComparable, L!LabelsSurvive

-----------------------------------------------------------------------------
Judgeable ==
    /\ J!ScriptedAssumption /\ J!WorkersAssumption /\ J!BoundsAssumption
    /\ J!OutputsAssumption /\ J!FilesAssumption

Job == [case : CaseIds, output : Outputs, answered : BOOLEAN, rest : Rests]
Runs ==
    [at : {"on"}, live : BOOLEAN, resume : BOOLEAN, fresh : BOOLEAN, code : Codes,
     facts : [CaseIds -> Facts], cache : SUBSET J!Entry, todo : SUBSET CaseIds,
     judging : SUBSET Job, results : SUBSET J!Entry, skipped : SUBSET CaseIds,
     made : [CaseIds -> Outputs \cup {None, "nothing"}]]

OneEach(entries) == \A e, f \in entries : e.case = f.case => e = f

(* A scripted entry, and one no call answered, is what the script makes. *)
EntryFits(e) ==
    ~e.live \/ (~e.answered /\ ~e.reused) => e.output = J!Resolved(e.case, e.facts, e.code, e.rest)

CacheOK(r) == OneEach(r.cache) /\ \A e \in r.cache : e.verdict = "judged" /\ EntryFits(e)

ResultsOK(r) ==
    /\ OneEach(r.results)
    /\ \A e \in r.results :
          /\ EntryFits(e) /\ e.case \notin r.todo /\ r.made[e.case] = e.output
          /\ e.verdict = "judge_failed" => e.code = r.code /\ e.live = r.live /\ ~e.reused
          /\ ~r.live => /\ ~e.live /\ e.code = r.code
                        /\ e.facts = r.facts[e.case] \/ e.case \in r.skipped

JudgingOK(r) ==
    /\ OneEach(r.judging) /\ J!IsFiniteSet(r.judging) /\ J!Cardinality(r.judging) <= JudgeWorkers
    /\ \A j \in r.judging :
          /\ j.case \notin r.todo /\ r.made[j.case] = j.output
          /\ \A e \in r.results : e.case # j.case
          /\ ~r.live \/ ~j.answered => j.output = J!Resolved(j.case, r.facts[j.case], r.code, j.rest)

(* What a scripted run may find to be escalated. *)
Escalated(c, says, sources) == \E others \in Rests : J!Resolved(c, says, sources, others) = None

(* A case that was resolved has an entry or is being judged. *)
MadeOK(r) ==
    \A c \in CaseIds :
        /\ c \in r.todo => r.made[c] = "nothing"
        /\ \/ c \in r.todo
           \/ \E e \in r.results : e.case = c
           \/ \E j \in r.judging : j.case = c
           \/ r.made[c] = None /\ (~r.live => Escalated(c, r.facts[c], r.code))

(* A cached verdict whose resolution came out again is kept. *)
HitOK(r) ==
    \A e \in r.cache :
        r.made[e.case] = e.output =>
            \E x \in r.results : x.case = e.case /\ x.verdict = "judged"

RunOK(r) == r \in Runs /\ CacheOK(r) /\ ResultsOK(r) /\ JudgingOK(r) /\ MadeOK(r) /\ HitOK(r)

RunInv == J!On => RunOK(judging) /\ finished = None
StoreInv ==
    /\ store \in J!Files
    /\ OneEach(J!Entries) /\ \A e \in J!Entries : EntryFits(e)
KeptInv == J!On /\ ~judging.fresh => J!Judged(J!Entries) \subseteq judging.cache \cup judging.results
OtherInv ==
    /\ facts \in [CaseIds -> Facts] /\ code \in Codes /\ rest \in Rests
    /\ judgeStarts \in 0 .. MaxStarts /\ edits \in 0 .. MaxEdits /\ judgeKills \in 0 .. MaxKills

(* What a scripted run has left. *)
FinishedInv ==
    finished # None /\ ~finished.live =>
        \A c \in CaseIds :
            \/ \E e \in J!Of(J!Entries, c) :
                   /\ ~e.live /\ e.code = finished.code
                   /\ e.facts = finished.facts[c] \/ c \in finished.skipped
            \/ J!Of(J!Entries, c) = {} /\ Escalated(c, finished.facts[c], finished.code)

VerdictsInv ==
    RunInv /\ StoreInv /\ KeptInv /\ OtherInv /\ FinishedInv /\ J!FailedIsOfThisRun

LEMMA SameNumbers ==
    /\ \A set : J!Cardinality(set) = Cardinality(set)
    /\ \A set : J!IsFiniteSet(set) = IsFiniteSet(set)
BY Zenon DEF J!Cardinality, Cardinality, J!IsFiniteSet, IsFiniteSet

LEMMA FileIs ==
    ASSUME J!FilesAssumption, NEW T \in SUBSET J!Entry
    PROVE  LET file == [entries |-> T] IN
           file \in J!Files /\ file \notin {Missing, Torn} /\ file.entries = T
BY DEF J!FilesAssumption, J!Files, J!Whole

LEMMA VerdictsInit == Judgeable /\ J!Init => VerdictsInv
<1> SUFFICES ASSUME Judgeable, J!Init PROVE VerdictsInv
  OBVIOUS
<1>1. judging.at = "off" /\ finished = None /\ store \in J!Files /\ J!Entries = {}
  BY DEF J!Init, J!Off, J!Files, J!Entries
<1>2. OtherInv
  BY DEF J!Init, OtherInv, Judgeable, J!BoundsAssumption
<1> QED
  BY <1>1, <1>2 DEF VerdictsInv, RunInv, StoreInv, KeptInv, FinishedInv, J!FailedIsOfThisRun,
     J!On, OneEach

LEMMA VerdictsStutter == VerdictsInv /\ UNCHANGED J!vars => VerdictsInv'
<1> SUFFICES ASSUME VerdictsInv, UNCHANGED J!vars PROVE VerdictsInv'
  OBVIOUS
<1>1. UNCHANGED <<judging, store, finished, facts, code, rest, judgeStarts, edits, judgeKills>>
  BY DEF J!vars
<1>2. J!Entries' = J!Entries /\ J!On' = J!On
  BY <1>1 DEF J!Entries, J!On
<1> QED
  BY <1>1, <1>2 DEF VerdictsInv, RunInv, StoreInv, KeptInv, OtherInv, FinishedInv,
     J!FailedIsOfThisRun, J!Of

(* Only the end of a run finishes it. *)
LEMMA StillUnfinished ==
    ASSUME finished' = None PROVE FinishedInv' /\ J!FailedIsOfThisRun'
BY DEF FinishedInv, J!FailedIsOfThisRun

LEMMA BeginKeeps ==
    ASSUME Judgeable, VerdictsInv, NEW live \in BOOLEAN, NEW resume \in BOOLEAN,
           NEW fresh \in BOOLEAN, J!Begin(live, resume, fresh)
    PROVE  VerdictsInv'
<1>1. /\ judgeStarts < MaxStarts /\ judgeStarts' = judgeStarts + 1 /\ finished' = None
      /\ judging' = [at |-> "on", live |-> live, resume |-> resume, fresh |-> fresh,
               code |-> code, facts |-> facts, cache |-> J!Cache(fresh), todo |-> CaseIds,
               judging |-> {}, results |-> {}, skipped |-> {},
               made |-> [c \in CaseIds |-> "nothing"]]
      /\ UNCHANGED <<store, facts, code, rest, edits, judgeKills>>
  BY DEF J!Begin
<1>2. J!Entries \subseteq J!Entry
  BY DEF VerdictsInv, StoreInv, J!Files, J!Whole, J!Entries
<1>3. /\ J!Cache(fresh) \subseteq J!Entries /\ (~fresh => J!Cache(fresh) = J!Judged(J!Entries))
      /\ \A e \in J!Cache(fresh) : e.verdict = "judged"
  BY DEF J!Cache, J!Judged
<1>4. /\ judging' \in Runs /\ judging'.cache = J!Cache(fresh) /\ judging'.todo = CaseIds
      /\ judging'.judging = {}
      /\ judging'.results = {} /\ judging'.made = [c \in CaseIds |-> "nothing"]
      /\ judging'.fresh = fresh
  BY <1>1, <1>2, <1>3 DEF Runs, VerdictsInv, OtherInv
<1>5. CacheOK(judging') /\ ResultsOK(judging')
  BY <1>3, <1>4 DEF CacheOK, ResultsOK, VerdictsInv, StoreInv, OneEach
<1>6. JudgingOK(judging')
  BY <1>4, FS_EmptySet, SameNumbers DEF JudgingOK, OneEach, Judgeable, J!WorkersAssumption
<1>7. MadeOK(judging')
  BY <1>4 DEF MadeOK
<1>8. HitOK(judging')
  <2>1. \A e \in J!Cache(fresh) : e.case \in CaseIds /\ e.output \in Outputs
    BY <1>2, <1>3 DEF J!Entry
  <2> QED
    BY <1>4, <2>1 DEF HitOK, Judgeable, J!OutputsAssumption
<1>9. RunInv'
  BY <1>1, <1>4, <1>5, <1>6, <1>7, <1>8 DEF RunInv, RunOK
<1>10. J!Entries' = J!Entries
  BY <1>1 DEF J!Entries
<1>11. StoreInv' /\ KeptInv' /\ OtherInv'
  <2>1. judgeStarts' \in 0 .. MaxStarts
    BY <1>1 DEF VerdictsInv, OtherInv, Judgeable, J!BoundsAssumption
  <2> QED
    BY <1>1, <1>3, <1>4, <1>10, <2>1 DEF VerdictsInv, StoreInv, KeptInv, OtherInv
<1> QED
  BY <1>1, <1>9, <1>11, StillUnfinished DEF VerdictsInv

-----------------------------------------------------------------------------
(* A step of the run that leaves the file alone. *)
LEMMA RunMoves ==
    ASSUME VerdictsInv, J!On, RunOK(judging'),
           UNCHANGED <<store, facts, code, rest, finished, judgeStarts, edits, judgeKills>>,
           judging'.cache = judging.cache, judging'.fresh = judging.fresh, judging.results \subseteq judging'.results
    PROVE  VerdictsInv'
<1>1. J!Entries' = J!Entries /\ finished' = None
  BY DEF J!Entries, VerdictsInv, RunInv
<1>2. RunInv'
  BY <1>1 DEF RunInv
<1>3. StoreInv' /\ KeptInv' /\ OtherInv'
  BY <1>1 DEF VerdictsInv, StoreInv, KeptInv, OtherInv
<1> QED
  BY <1>1, <1>2, <1>3, StillUnfinished DEF VerdictsInv

(* What the run is once it has come to a case. *)
Came(r, c, output, jobs, entries, skips) ==
    [at |-> "on", live |-> r.live, resume |-> r.resume, fresh |-> r.fresh, code |-> r.code,
     facts |-> r.facts, cache |-> r.cache, todo |-> r.todo \ {c},
     judging |-> r.judging \cup jobs, results |-> r.results \cup entries,
     skipped |-> r.skipped \cup skips, made |-> [r.made EXCEPT ![c] = output]]

Carried(s, r, c, output, jobs, entries, skips) ==
    /\ s \in Runs /\ s.live = r.live /\ s.fresh = r.fresh /\ s.code = r.code
    /\ s.facts = r.facts /\ s.cache = r.cache /\ s.todo = r.todo \ {c}
    /\ s.judging = r.judging \cup jobs /\ s.results = r.results \cup entries
    /\ s.skipped = r.skipped \cup skips
    /\ s.made[c] = output /\ \A d \in CaseIds : d # c => s.made[d] = r.made[d]
    /\ c \in CaseIds

LEMMA CameIs ==
    ASSUME NEW r \in Runs, NEW c \in r.todo, NEW output \in Outputs \cup {None},
           NEW jobs \in SUBSET Job, NEW entries \in SUBSET J!Entry, NEW skips \in SUBSET {c}
    PROVE  Carried(Came(r, c, output, jobs, entries, skips), r, c, output, jobs, entries, skips)
<1>1. [r.made EXCEPT ![c] = output] \in [CaseIds -> Outputs \cup {None, "nothing"}]
  BY DEF Runs
<1>2. /\ c \in CaseIds /\ [r.made EXCEPT ![c] = output][c] = output
      /\ \A d \in CaseIds : d # c => [r.made EXCEPT ![c] = output][d] = r.made[d]
  BY DEF Runs
<1> QED
  BY <1>1, <1>2 DEF Came, Runs, Carried

(* Of what was in hand no case is the one the run comes to. *)
LEMMA InHand ==
    ASSUME NEW r, RunOK(r), NEW c \in r.todo
    PROVE  /\ \A e \in r.results : e.case \in CaseIds /\ e.case # c
           /\ \A j \in r.judging : j.case \in CaseIds /\ j.case # c
           /\ \A e \in r.cache : e.case \in CaseIds
           /\ c \in CaseIds /\ r.todo \subseteq CaseIds
BY DEF RunOK, ResultsOK, JudgingOK, Runs, J!Entry, Job

LEMMA EntryComes ==
    ASSUME NEW r, RunOK(r), NEW c \in r.todo, NEW x \in J!Entry, x.case = c, x.verdict = "judged",
           EntryFits(x), NEW skips \in SUBSET {c}, Judgeable,
           ~r.live => ~x.live /\ x.code = r.code /\ (x.facts = r.facts[c] \/ c \in skips)
    PROVE  RunOK(Came(r, c, x.output, {}, {x}, skips))
<1> DEFINE s == Came(r, c, x.output, {}, {x}, skips)
<1>1. /\ s \in Runs /\ s.live = r.live /\ s.code = r.code
      /\ s.facts = r.facts /\ s.cache = r.cache /\ s.todo = r.todo \ {c}
      /\ s.judging = r.judging /\ s.results = r.results \cup {x}
      /\ s.made[c] = x.output /\ (\A d \in CaseIds : d # c => s.made[d] = r.made[d])
      /\ c \in CaseIds /\ x.output \in Outputs /\ s.skipped = r.skipped \cup skips
  <2>1. r \in Runs /\ x.output \in Outputs
    BY DEF RunOK, J!Entry
  <2> QED
    <3>1. x.output \in Outputs \cup {None} /\ {} \in SUBSET Job /\ {x} \in SUBSET J!Entry
      BY <2>1
    <3>2. Carried(s, r, c, x.output, {}, {x}, skips)
      BY <2>1, <3>1, CameIs
    <3> QED
      BY <2>1, <3>2 DEF Carried
<1> HIDE DEF s
<1>2. CacheOK(s)
  BY <1>1 DEF RunOK, CacheOK
<1>3. ResultsOK(s)
  <2>1. OneEach(s.results)
    BY <1>1, InHand DEF OneEach, RunOK, ResultsOK
  <2>2. ASSUME NEW e \in r.results
        PROVE  /\ EntryFits(e) /\ e.case \notin s.todo /\ s.made[e.case] = e.output
               /\ e.verdict = "judge_failed" => e.code = s.code /\ e.live = s.live /\ ~e.reused
               /\ ~s.live => /\ ~e.live /\ e.code = s.code
                             /\ e.facts = s.facts[e.case] \/ e.case \in s.skipped
    BY <1>1, InHand DEF RunOK, ResultsOK
  <2>3. /\ x.case \notin s.todo /\ s.made[x.case] = x.output
        /\ ~s.live => x.facts = s.facts[x.case] \/ x.case \in s.skipped
    BY <1>1
  <2> QED
    BY <1>1, <2>1, <2>2, <2>3 DEF ResultsOK
<1>4. JudgingOK(s)
  BY <1>1, InHand DEF RunOK, JudgingOK
<1>5. MadeOK(s)
  <2>1. ASSUME NEW d \in CaseIds, d # c
        PROVE  /\ d \in s.todo => s.made[d] = "nothing"
               /\ \/ d \in s.todo
                  \/ \E e \in s.results : e.case = d
                  \/ \E j \in s.judging : j.case = d
                  \/ s.made[d] = None /\ (~s.live => Escalated(d, s.facts[d], s.code))
    BY <1>1, <2>1 DEF RunOK, MadeOK
  <2>2. c \notin s.todo
    BY <1>1
  <2> QED
    BY <1>1, <2>1, <2>2 DEF MadeOK
<1>6. HitOK(s)
  BY <1>1, InHand DEF RunOK, HitOK
<1> QED
  BY <1>1, <1>2, <1>3, <1>4, <1>5, <1>6 DEF RunOK, s

LEMMA JobComes ==
    ASSUME NEW r, RunOK(r), NEW c \in r.todo, NEW job \in Job, job.case = c,
           ~r.live \/ ~job.answered => job.output = J!Resolved(c, r.facts[c], r.code, job.rest),
           \A e \in J!Of(r.cache, c) : e.output # job.output,
           J!Cardinality(r.judging) < JudgeWorkers, Judgeable
    PROVE  RunOK(Came(r, c, job.output, {job}, {}, {}))
<1> DEFINE s == Came(r, c, job.output, {job}, {}, {})
<1>1. /\ s \in Runs /\ s.live = r.live /\ s.code = r.code
      /\ s.facts = r.facts /\ s.cache = r.cache /\ s.todo = r.todo \ {c}
      /\ s.judging = r.judging \cup {job} /\ s.results = r.results
      /\ s.made[c] = job.output /\ (\A d \in CaseIds : d # c => s.made[d] = r.made[d])
      /\ c \in CaseIds /\ job.output \in Outputs /\ s.skipped = r.skipped
  <2>1. r \in Runs /\ job.output \in Outputs
    BY DEF RunOK, Job
  <2> QED
    <3>1. job.output \in Outputs \cup {None} /\ {job} \in SUBSET Job /\ {} \in SUBSET J!Entry
      BY <2>1
    <3>2. Carried(s, r, c, job.output, {job}, {}, {})
      BY <2>1, <3>1, CameIs
    <3> QED
      BY <2>1, <3>2 DEF Carried
<1> HIDE DEF s
<1>2. CacheOK(s)
  BY <1>1 DEF RunOK, CacheOK
<1>3. ResultsOK(s)
  BY <1>1, InHand DEF RunOK, ResultsOK
<1>4. JudgingOK(s)
  <2>1. OneEach(s.judging)
    BY <1>1, InHand DEF OneEach, RunOK, JudgingOK
  <2>2. J!IsFiniteSet(s.judging) /\ J!Cardinality(s.judging) <= JudgeWorkers
    <3>1. J!IsFiniteSet(r.judging) /\ job \notin r.judging
      BY InHand DEF RunOK, JudgingOK
    <3>2. J!Cardinality(r.judging) \in Nat /\ J!Cardinality(s.judging) = J!Cardinality(r.judging) + 1
          /\ J!IsFiniteSet(s.judging)
      BY <1>1, <3>1, FS_AddElement, FS_CardinalityType, SameNumbers
    <3> QED
      BY <3>2 DEF Judgeable, J!WorkersAssumption
  <2>3. ASSUME NEW j \in r.judging
        PROVE  /\ j.case \notin s.todo /\ s.made[j.case] = j.output
               /\ \A e \in s.results : e.case # j.case
               /\ ~s.live \/ ~j.answered => j.output = J!Resolved(j.case, s.facts[j.case], s.code, j.rest)
    BY <1>1, InHand DEF RunOK, JudgingOK
  <2>4. /\ job.case \notin s.todo /\ s.made[job.case] = job.output
        /\ \A e \in s.results : e.case # job.case
        /\ ~s.live \/ ~job.answered => job.output = J!Resolved(job.case, s.facts[job.case], s.code, job.rest)
    BY <1>1, InHand
  <2> QED
    BY <1>1, <2>1, <2>2, <2>3, <2>4 DEF JudgingOK
<1>5. MadeOK(s)
  <2>1. ASSUME NEW d \in CaseIds, d # c
        PROVE  /\ d \in s.todo => s.made[d] = "nothing"
               /\ \/ d \in s.todo
                  \/ \E e \in s.results : e.case = d
                  \/ \E j \in s.judging : j.case = d
                  \/ s.made[d] = None /\ (~s.live => Escalated(d, s.facts[d], s.code))
    BY <1>1, <2>1 DEF RunOK, MadeOK
  <2>2. c \notin s.todo
    BY <1>1
  <2> QED
    BY <1>1, <2>1, <2>2 DEF MadeOK
<1>6. HitOK(s)
  BY <1>1, InHand DEF RunOK, HitOK, J!Of
<1> QED
  BY <1>1, <1>2, <1>3, <1>4, <1>5, <1>6 DEF RunOK, s

LEMMA NothingComes ==
    ASSUME NEW r, RunOK(r), NEW c \in r.todo,
           ~r.live => Escalated(c, r.facts[c], r.code), Judgeable
    PROVE  RunOK(Came(r, c, None, {}, {}, {}))
<1> DEFINE s == Came(r, c, None, {}, {}, {})
<1>1. /\ s \in Runs /\ s.live = r.live /\ s.code = r.code
      /\ s.facts = r.facts /\ s.cache = r.cache /\ s.todo = r.todo \ {c}
      /\ s.judging = r.judging /\ s.results = r.results
      /\ s.made[c] = None /\ (\A d \in CaseIds : d # c => s.made[d] = r.made[d])
      /\ c \in CaseIds /\ s.skipped = r.skipped
  <2>1. r \in Runs
    BY DEF RunOK
  <2> QED
    <3>1. None \in Outputs \cup {None} /\ {} \in SUBSET Job /\ {} \in SUBSET J!Entry
      BY <2>1
    <3>2. Carried(s, r, c, None, {}, {}, {})
      BY <2>1, <3>1, CameIs
    <3> QED
      BY <2>1, <3>2 DEF Carried
<1> HIDE DEF s
<1>2. CacheOK(s)
  BY <1>1 DEF RunOK, CacheOK
<1>3. ResultsOK(s) /\ JudgingOK(s)
  BY <1>1, InHand DEF RunOK, ResultsOK, JudgingOK
<1>4. MadeOK(s)
  <2>1. ASSUME NEW d \in CaseIds, d # c
        PROVE  /\ d \in s.todo => s.made[d] = "nothing"
               /\ \/ d \in s.todo
                  \/ \E e \in s.results : e.case = d
                  \/ \E j \in s.judging : j.case = d
                  \/ s.made[d] = None /\ (~s.live => Escalated(d, s.facts[d], s.code))
    BY <1>1, <2>1 DEF RunOK, MadeOK
  <2>2. c \notin s.todo
    BY <1>1
  <2> QED
    BY <1>1, <2>1, <2>2 DEF MadeOK
<1>5. HitOK(s)
  <2>1. \A e \in r.cache : e.output # None
    BY DEF RunOK, Runs, J!Entry, Judgeable, J!OutputsAssumption
  <2> QED
    BY <1>1, <2>1, InHand DEF RunOK, HitOK
<1> QED
  BY <1>1, <1>2, <1>3, <1>4, <1>5 DEF RunOK, s

-----------------------------------------------------------------------------
LEMMA RunIs ==
    ASSUME VerdictsInv, J!On
    PROVE  /\ RunOK(judging) /\ judging \in Runs /\ judging.todo \subseteq CaseIds
           /\ judging = [at |-> "on", live |-> judging.live, resume |-> judging.resume, fresh |-> judging.fresh,
                         code |-> judging.code, facts |-> judging.facts, cache |-> judging.cache,
                         todo |-> judging.todo, judging |-> judging.judging, results |-> judging.results,
                         skipped |-> judging.skipped, made |-> judging.made]
BY DEF VerdictsInv, RunInv, RunOK, Runs

LEMMA ComeKeeps ==
    ASSUME VerdictsInv, J!On, NEW c \in judging.todo, NEW output \in Outputs \cup {None},
           NEW jobs \in SUBSET Job, NEW entries \in SUBSET J!Entry, NEW skips \in SUBSET {c},
           judging' = Came(judging, c, output, jobs, entries, skips),
           RunOK(Came(judging, c, output, jobs, entries, skips)),
           UNCHANGED <<store, facts, code, rest, finished, judgeStarts, edits, judgeKills>>
    PROVE  VerdictsInv'
<1>1. /\ RunOK(judging') /\ judging'.fresh = judging.fresh /\ judging'.cache = judging.cache
      /\ judging.results \subseteq judging'.results
  <2>1. Carried(judging', judging, c, output, jobs, entries, skips)
    BY RunIs, CameIs
  <2> QED
    BY <2>1 DEF Carried
<1> QED
  BY <1>1, RunMoves

LEMMA RunRecord ==
    ASSUME NEW r \in Runs, NEW todo, NEW made
    PROVE  [r EXCEPT !.todo = todo, !.made = made] =
               [at |-> "on", live |-> r.live, resume |-> r.resume, fresh |-> r.fresh,
                code |-> r.code, facts |-> r.facts, cache |-> r.cache, todo |-> todo,
                judging |-> r.judging, results |-> r.results, skipped |-> r.skipped, made |-> made]
<1> DEFINE a == [r EXCEPT !.todo = todo, !.made = made]
           b == [at |-> "on", live |-> r.live, resume |-> r.resume, fresh |-> r.fresh,
                code |-> r.code, facts |-> r.facts, cache |-> r.cache, todo |-> todo,
                judging |-> r.judging, results |-> r.results, skipped |-> r.skipped, made |-> made]
           Field(x) == IF x = "todo" THEN todo ELSE IF x = "made" THEN made ELSE r[x]
<1>1. DOMAIN a = DOMAIN r /\ DOMAIN b = DOMAIN r
  BY DEF Runs
<1>2. /\ r.at = "on"
      /\ DOMAIN r = {"at", "live", "resume", "fresh", "code", "facts", "cache", "todo",
                     "judging", "results", "skipped", "made"}
  BY DEF Runs
<1>3. \A x \in DOMAIN r : a[x] = Field(x)
  OBVIOUS
<1>4. \A x \in DOMAIN r : b[x] = Field(x)
  BY <1>2
<1>5. a = [x \in DOMAIN r |-> a[x]] /\ b = [x \in DOMAIN r |-> b[x]]
  BY <1>1
<1> QED
  BY <1>3, <1>4, <1>5

LEMMA CameTo ==
    ASSUME judging \in Runs, NEW c \in judging.todo, NEW output
    PROVE  [judging EXCEPT !.todo = @ \ {c}, !.made[c] = output] = Came(judging, c, output, {}, {}, {})
<1> DEFINE made == [judging.made EXCEPT ![c] = output]
           todo == judging.todo \ {c}
<1>1. [judging EXCEPT !.todo = @ \ {c}, !.made[c] = output] = [judging EXCEPT !.todo = todo, !.made = made]
  BY DEF Runs
<1>2. /\ Came(judging, c, output, {}, {}, {}) =
             [at |-> "on", live |-> judging.live, resume |-> judging.resume, fresh |-> judging.fresh,
              code |-> judging.code, facts |-> judging.facts, cache |-> judging.cache, todo |-> todo,
              judging |-> judging.judging, results |-> judging.results,
              skipped |-> judging.skipped, made |-> made]
  BY DEF Came
<1> HIDE DEF made, todo
<1> QED
  BY <1>1, <1>2, RunRecord

LEMMA SkipKeeps ==
    ASSUME Judgeable, VerdictsInv, NEW c \in CaseIds, J!Skip(c) PROVE VerdictsInv'
<1>1. /\ J!On /\ c \in judging.todo
      /\ UNCHANGED <<store, facts, code, rest, finished, judgeStarts, edits, judgeKills>>
  BY DEF J!Skip
<1>2. PICK e \in J!Of(judging.cache, c) :
          /\ J!Unchanged(e)
          /\ judging' = [judging EXCEPT !.todo = @ \ {c}, !.made[c] = e.output,
                                    !.skipped = @ \cup {c}, !.results = @ \cup {e}]
  BY DEF J!Skip
<1>3. e \in judging.cache /\ e.case = c /\ e \in J!Entry
  BY <1>1, RunIs DEF J!Of, Runs
<1>4. judging' = Came(judging, c, e.output, {}, {e}, {c})
  BY <1>1, <1>2, RunIs DEF Came, Runs
<1>5. e.verdict = "judged" /\ EntryFits(e)
  BY <1>1, <1>3, RunIs DEF RunOK, CacheOK
<1>6. ~judging.live => ~e.live /\ e.code = judging.code
  BY <1>2 DEF J!Unchanged
<1>7. RunOK(Came(judging, c, e.output, {}, {e}, {c}))
  BY <1>1, <1>3, <1>5, <1>6, RunIs, EntryComes
<1>8. /\ e.output \in Outputs \cup {None} /\ {} \in SUBSET Job /\ {e} \in SUBSET J!Entry
      /\ {c} \in SUBSET {c}
  BY <1>3 DEF J!Entry
<1> QED
  BY <1>1, <1>4, <1>7, <1>8, ComeKeeps

LEMMA ReusedIs ==
    ASSUME NEW e \in J!Entry, judging \in Runs, rest \in Rests
    PROVE  /\ J!Reused(e) \in J!Entry /\ J!Reused(e).case = e.case /\ J!Reused(e).output = e.output
           /\ J!Reused(e).verdict = e.verdict /\ J!Reused(e).code = judging.code
           /\ J!Reused(e).live = judging.live /\ J!Reused(e).facts = judging.facts[e.case]
           /\ J!Reused(e).rest = rest /\ J!Reused(e).reused
BY DEF J!Reused, J!Entry, Runs

LEMMA RunAndCaptureKeeps ==
    ASSUME Judgeable, VerdictsInv, NEW c \in CaseIds, J!RunAndCapture(c) PROVE VerdictsInv'
<1> DEFINE cached == J!Of(judging.cache, c)
           Same(r) == {e \in cached : e.output = r.output}
           Onward(r) == [judging EXCEPT !.todo = @ \ {c}, !.made[c] = r.output]
<1>1. /\ J!On /\ c \in judging.todo
      /\ UNCHANGED <<store, facts, code, rest, finished, judgeStarts, edits, judgeKills>>
      /\ J!Cardinality(judging.judging) < IF judging.live THEN JudgeWorkers ELSE 1
  BY DEF J!RunAndCapture
<1>2. PICK r \in J!Resolutions(c) :
          \/ r.output = None /\ judging' = Onward(r)
          \/ /\ r.output # None /\ Same(r) # {}
             /\ judging' = [Onward(r) EXCEPT !.results = @ \cup {J!Reused(e) : e \in Same(r)}]
          \/ /\ r.output # None /\ Same(r) = {}
             /\ judging' = [Onward(r) EXCEPT !.judging = @ \cup {
                    [case |-> c, output |-> r.output, answered |-> r.answered,
                   rest |-> rest]}]
  BY DEF J!RunAndCapture
<1>3. /\ r.output \in Outputs \cup {None} /\ r.answered \in BOOLEAN
      /\ ~judging.live \/ ~r.answered => r.output = J!Resolved(c, judging.facts[c], judging.code, rest)
  <2>1. judging.facts \in [CaseIds -> Facts] /\ judging.code \in Codes /\ rest \in Rests
    BY <1>1, RunIs DEF Runs, VerdictsInv, OtherInv
  <2>2. J!Resolved(c, judging.facts[c], judging.code, rest) \in Outputs \cup {None}
    <3>1. <<c, judging.facts[c], judging.code, rest>> \in CaseIds \X Facts \X Codes \X Rests
      BY <2>1
    <3> QED
      BY <3>1, Zenon DEF J!Resolved, Judgeable, J!ScriptedAssumption
  <2>3. r = [output |-> J!Resolved(c, judging.facts[c], judging.code, rest), answered |-> FALSE]
        \/ (judging.live /\ r \in [output : Outputs \cup {None}, answered : {TRUE}])
    BY DEF J!Resolutions
  <2>4. CASE r = [output |-> J!Resolved(c, judging.facts[c], judging.code, rest), answered |-> FALSE]
    BY <2>2, <2>4
  <2>5. CASE judging.live /\ r \in [output : Outputs \cup {None}, answered : {TRUE}]
    BY <2>5
  <2> QED
    BY <2>3, <2>4, <2>5
<1>8. {} \in SUBSET {c}
  OBVIOUS
<1>4. Onward(r) = Came(judging, c, r.output, {}, {}, {})
  BY <1>1, RunIs, CameTo
<1>5. CASE r.output = None /\ judging' = Onward(r)
  <2>1. RunOK(Came(judging, c, None, {}, {}, {}))
    <3>1. ~judging.live => Escalated(c, judging.facts[c], judging.code)
      BY <1>3, <1>5 DEF Escalated, VerdictsInv, OtherInv
    <3> QED
      BY <1>1, <3>1, RunIs, NothingComes
  <2>2. {} \in SUBSET Job /\ {} \in SUBSET J!Entry /\ None \in Outputs \cup {None}
    OBVIOUS
  <2> QED
    BY <1>1, <1>4, <1>5, <2>1, <2>2, ComeKeeps
<1>6. CASE /\ r.output # None /\ Same(r) # {}
           /\ judging' = [Onward(r) EXCEPT !.results = @ \cup {J!Reused(e) : e \in Same(r)}]
  <2>1. PICK e \in Same(r) : TRUE
    BY <1>6
  <2>2. /\ e \in judging.cache /\ e \in J!Entry /\ e.case = c /\ e.output = r.output
        /\ e.verdict = "judged" /\ EntryFits(e) /\ OneEach(judging.cache)
    BY <1>1, <2>1, RunIs DEF J!Of, Runs, RunOK, CacheOK
  <2>3. Same(r) = {e}
    BY <2>1, <2>2 DEF J!Of, OneEach
  <2> DEFINE x == J!Reused(e)
  <2>4. /\ x \in J!Entry /\ x.case = c /\ x.output = r.output /\ x.verdict = "judged"
        /\ x.code = judging.code /\ x.live = judging.live /\ x.facts = judging.facts[c]
        /\ x.rest = rest /\ x.reused
    BY <1>1, <2>2, RunIs, ReusedIs DEF VerdictsInv, OtherInv
  <2> HIDE DEF x
  <2>5. EntryFits(x)
    BY <1>3, <2>4 DEF EntryFits
  <2>6. RunOK(Came(judging, c, x.output, {}, {x}, {}))
    BY <1>1, <2>4, <2>5, RunIs, EntryComes
  <2>7. {J!Reused(f) : f \in Same(r)} = {x}
    BY <2>3 DEF x
  <2>8. judging' = [Onward(r) EXCEPT !.results = @ \cup {x}]
    BY <1>6, <2>7
  <2>9. judging' = Came(judging, c, x.output, {}, {x}, {})
    BY <1>4, <2>4, <2>8 DEF Came
  <2>10. {} \in SUBSET Job /\ {x} \in SUBSET J!Entry /\ x.output \in Outputs \cup {None}
    BY <1>3, <2>4
  <2> QED
    BY <1>1, <1>8, <2>6, <2>9, <2>10, ComeKeeps
<1>7. CASE /\ r.output # None /\ Same(r) = {}
           /\ judging' = [Onward(r) EXCEPT !.judging = @ \cup {
                  [case |-> c, output |-> r.output, answered |-> r.answered,
                   rest |-> rest]}]
  <2> DEFINE job == [case |-> c, output |-> r.output, answered |-> r.answered, rest |-> rest]
  <2>1. /\ job \in Job /\ job.case = c /\ job.output = r.output /\ job.answered = r.answered
        /\ job.rest = rest
    BY <1>3, <1>7 DEF Job, VerdictsInv, OtherInv
  <2>2. judging' = [Onward(r) EXCEPT !.judging = @ \cup {job}]
    BY <1>7
  <2> HIDE DEF job
  <2>3. judging' = Came(judging, c, job.output, {job}, {}, {})
    BY <1>4, <2>1, <2>2 DEF Came
  <2>4. \A e \in J!Of(judging.cache, c) : e.output # job.output
    BY <1>7, <2>1
  <2>5. J!Cardinality(judging.judging) < JudgeWorkers
    <3>1. J!Cardinality(judging.judging) \in Nat
      BY <1>1, RunIs, FS_CardinalityType, SameNumbers DEF RunOK, JudgingOK
    <3> QED
      BY <1>1, <3>1 DEF Judgeable, J!WorkersAssumption
  <2>6. RunOK(Came(judging, c, job.output, {job}, {}, {}))
    BY <1>1, <1>3, <2>1, <2>4, <2>5, RunIs, JobComes
  <2>7. {job} \in SUBSET Job /\ {} \in SUBSET J!Entry /\ job.output \in Outputs \cup {None}
    BY <1>3, <2>1
  <2> QED
    BY <1>1, <1>8, <2>3, <2>6, <2>7, ComeKeeps
<1> QED
  BY <1>2, <1>5, <1>6, <1>7

LEMMA JudgeKeeps ==
    ASSUME Judgeable, VerdictsInv, J!On, NEW job \in judging.judging, J!Judge(job)
    PROVE  VerdictsInv'
<1>1. PICK verdict \in {"judged", "judge_failed"} :
          LET e == [case |-> job.case, output |-> job.output, verdict |-> verdict,
                     code |-> judging.code, rest |-> job.rest, live |-> judging.live,
                 answered |-> job.answered,
                     facts |-> judging.facts[job.case], reused |-> FALSE] IN
          /\ judging' = [judging EXCEPT !.judging = @ \ {job}, !.results = @ \cup {e}]
          /\ store' = [entries |-> judging'.results]
  BY DEF J!Judge
<1> DEFINE e == [case |-> job.case, output |-> job.output, verdict |-> verdict,
                 code |-> judging.code, rest |-> job.rest, live |-> judging.live,
                 answered |-> job.answered,
                 facts |-> judging.facts[job.case], reused |-> FALSE]
<1>2. /\ judging \in Runs /\ RunOK(judging) /\ job \in Job /\ job.case \in CaseIds
      /\ judging.facts[job.case] \in Facts
  BY RunIs DEF Runs, Job
<1>3. /\ e \in J!Entry /\ e.case = job.case /\ e.output = job.output /\ e.code = judging.code
      /\ e.live = judging.live /\ e.answered = job.answered /\ e.facts = judging.facts[job.case]
      /\ e.rest = job.rest /\ ~e.reused
  BY <1>2 DEF J!Entry, Job, Runs
<1>4. /\ judging' = [judging EXCEPT !.judging = @ \ {job}, !.results = @ \cup {e}]
      /\ store' = [entries |-> judging'.results]
      /\ UNCHANGED <<facts, code, rest, finished, judgeStarts, edits, judgeKills>>
  BY <1>1 DEF J!Judge
<1> HIDE DEF e
<1>5. /\ judging' \in Runs /\ judging'.live = judging.live /\ judging'.fresh = judging.fresh
      /\ judging'.code = judging.code
      /\ judging'.facts = judging.facts /\ judging'.cache = judging.cache
      /\ judging'.todo = judging.todo
      /\ judging'.judging = judging.judging \ {job} /\ judging'.results = judging.results \cup {e}
      /\ judging'.made = judging.made /\ judging'.skipped = judging.skipped
  BY <1>2, <1>3, <1>4 DEF Runs
<1>6. /\ job.case \notin judging.todo /\ judging.made[job.case] = job.output
      /\ \A x \in judging.results : x.case # job.case
      /\ ~judging.live \/ ~job.answered => job.output =
             J!Resolved(job.case, judging.facts[job.case], judging.code, job.rest)
      /\ OneEach(judging.judging) /\ J!IsFiniteSet(judging.judging)
      /\ J!Cardinality(judging.judging) <= JudgeWorkers
  BY <1>2 DEF RunOK, JudgingOK
<1>7. EntryFits(e)
  BY <1>3, <1>6 DEF EntryFits
<1>8. RunOK(judging')
  <2>1. CacheOK(judging') /\ HitOK(judging')
    BY <1>2, <1>5 DEF RunOK, CacheOK, HitOK
  <2>2. ResultsOK(judging')
    <3>1. OneEach(judging'.results)
      BY <1>2, <1>3, <1>5, <1>6 DEF OneEach, RunOK, ResultsOK
    <3> QED
      BY <1>2, <1>3, <1>5, <1>6, <1>7, <3>1 DEF RunOK, ResultsOK
  <2>3. JudgingOK(judging')
    <3>1. J!IsFiniteSet(judging'.judging) /\ J!Cardinality(judging'.judging) <= JudgeWorkers
      <4>1. /\ J!IsFiniteSet(judging'.judging) /\ J!Cardinality(judging.judging) \in Nat
            /\ J!Cardinality(judging'.judging) = J!Cardinality(judging.judging) - 1
        BY <1>5, <1>6, FS_RemoveElement, FS_CardinalityType, SameNumbers
      <4> QED
        BY <1>6, <4>1 DEF Judgeable, J!WorkersAssumption
    <3>2. \A j \in judging'.judging : j \in judging.judging /\ j.case # job.case
      BY <1>5, <1>6 DEF OneEach
    <3> QED
      BY <1>2, <1>3, <1>5, <1>6, <3>1, <3>2 DEF RunOK, JudgingOK, OneEach
  <2>4. MadeOK(judging')
    <3>1. \A j \in judging.judging : j = job \/ j \in judging'.judging
      BY <1>5
    <3> QED
      BY <1>2, <1>3, <1>5, <3>1 DEF RunOK, MadeOK
  <2> QED
    BY <1>5, <2>1, <2>2, <2>3, <2>4 DEF RunOK
<1>9. store' \in J!Files /\ J!Entries' = judging'.results
  <2>1. judging'.results \in SUBSET J!Entry
    BY <1>5 DEF Runs
  <2> QED
    BY <1>4, <2>1, FileIs DEF Judgeable, J!Entries
<1>10. finished' = None /\ RunInv'
  BY <1>4, <1>8 DEF VerdictsInv, RunInv
<1>11. StoreInv' /\ KeptInv' /\ OtherInv'
  BY <1>4, <1>8, <1>9 DEF StoreInv, KeptInv, VerdictsInv, OtherInv, J!Judged, RunOK, ResultsOK
<1> QED
  BY <1>10, <1>11, StillUnfinished DEF VerdictsInv

LEMMA EndKeeps ==
    ASSUME Judgeable, VerdictsInv, J!Finish PROVE VerdictsInv'
<1>1. /\ J!On /\ judging.todo = {} /\ judging.judging = {} /\ store' = [entries |-> judging.results]
      /\ finished'.live = judging.live /\ finished'.code = judging.code
      /\ finished'.facts = judging.facts /\ finished'.skipped = judging.skipped
      /\ judging'.at = "off" /\ UNCHANGED <<facts, code, rest, judgeStarts, edits, judgeKills>>
  BY DEF J!Finish, J!Off
<1>2. RunOK(judging) /\ judging.results \in SUBSET J!Entry
  BY <1>1, RunIs DEF Runs
<1>3. store' \in J!Files /\ J!Entries' = judging.results
  BY <1>1, <1>2, FileIs DEF Judgeable, J!Entries
<1>4. RunInv' /\ StoreInv' /\ KeptInv' /\ OtherInv'
  BY <1>1, <1>2, <1>3 DEF RunInv, StoreInv, KeptInv, VerdictsInv, OtherInv, J!On, RunOK, ResultsOK
<1>5. ASSUME ~judging.live, NEW c \in CaseIds
      PROVE  \/ \E e \in J!Of(J!Entries', c) :
                    /\ ~e.live /\ e.code = judging.code
                    /\ e.facts = judging.facts[c] \/ c \in judging.skipped
             \/ J!Of(J!Entries', c) = {} /\ Escalated(c, judging.facts[c], judging.code)
  <2>1. CASE \E e \in judging.results : e.case = c
    <3>1. PICK e \in judging.results : e.case = c
      BY <2>1
    <3>2. /\ ~e.live /\ e.code = judging.code
          /\ e.facts = judging.facts[c] \/ c \in judging.skipped
      BY <1>2, <1>5, <3>1 DEF RunOK, ResultsOK
    <3> QED
      BY <1>3, <3>1, <3>2 DEF J!Of
  <2>2. CASE ~\E e \in judging.results : e.case = c
    <3>1. Escalated(c, judging.facts[c], judging.code)
      BY <1>1, <1>2, <1>5, <2>2 DEF RunOK, MadeOK
    <3> QED
      BY <1>3, <2>2, <3>1 DEF J!Of
  <2> QED
    BY <2>1, <2>2
<1>6. FinishedInv'
  BY <1>1, <1>5 DEF FinishedInv, J!Of
<1>7. J!FailedIsOfThisRun'
  BY <1>1, <1>2, <1>3 DEF J!FailedIsOfThisRun, RunOK, ResultsOK
<1> QED
  BY <1>4, <1>6, <1>7 DEF VerdictsInv

LEMMA KillKeeps ==
    ASSUME Judgeable, VerdictsInv, J!Kill PROVE VerdictsInv'
<1>1. /\ J!On /\ judging'.at = "off" /\ store' \in {store, Torn} /\ judgeKills < MaxKills
      /\ judgeKills' = judgeKills + 1
      /\ UNCHANGED <<facts, code, rest, finished, judgeStarts, edits>>
  BY DEF J!Kill, J!Off
<1>2. finished' = None
  BY <1>1 DEF VerdictsInv, RunInv
<1>3. store' \in J!Files /\ J!Entries' \subseteq J!Entries
  BY <1>1 DEF VerdictsInv, StoreInv, J!Files, J!Entries
<1>4. RunInv' /\ StoreInv' /\ KeptInv'
  BY <1>1, <1>3 DEF RunInv, StoreInv, KeptInv, VerdictsInv, J!On, OneEach
<1>5. OtherInv'
  BY <1>1 DEF VerdictsInv, OtherInv, Judgeable, J!BoundsAssumption
<1> QED
  BY <1>2, <1>4, <1>5, StillUnfinished DEF VerdictsInv

LEMMA ChangeKeeps ==
    ASSUME Judgeable, VerdictsInv, J!Edit PROVE VerdictsInv'
<1>1. /\ edits < MaxEdits /\ edits' = edits + 1
      /\ code' \in Codes /\ facts' \in [CaseIds -> Facts] /\ rest' \in Rests
      /\ UNCHANGED <<store, judging, finished, judgeStarts, judgeKills>>
  BY DEF J!Edit, VerdictsInv, OtherInv
<1>2. J!On' = J!On /\ J!Entries' = J!Entries
  BY <1>1 DEF J!On, J!Entries
<1>3. RunInv' /\ StoreInv' /\ KeptInv'
  BY <1>1, <1>2 DEF VerdictsInv, RunInv, StoreInv, KeptInv
<1>4. OtherInv'
  BY <1>1 DEF VerdictsInv, OtherInv, Judgeable, J!BoundsAssumption
<1>5. FinishedInv' /\ J!FailedIsOfThisRun'
  BY <1>1, <1>2 DEF VerdictsInv, FinishedInv, J!FailedIsOfThisRun, J!Of
<1> QED
  BY <1>3, <1>4, <1>5 DEF VerdictsInv

LEMMA VerdictsNext == Judgeable /\ VerdictsInv /\ [J!Next]_(J!vars) => VerdictsInv'
BY VerdictsStutter, BeginKeeps, SkipKeeps, RunAndCaptureKeeps, JudgeKeeps, EndKeeps, KillKeeps,
   ChangeKeeps DEF J!Next

VerdictStays ==
    store' # Torn =>
        \A e \in J!Judged(J!Entries) :
            J!Of(J!Judged(J!Entries'), e.case) = {} =>
                  J!On /\ (judging.fresh \/ judging.made[e.case] # e.output)

LEMMA VerdictsStay ==
    ASSUME Judgeable, VerdictsInv, [J!Next]_(J!vars) PROVE VerdictStays
<1>1. CASE J!On /\ J!Entries' \in SUBSET J!Entry /\ judging.results \subseteq J!Entries'
  <2>1. SUFFICES ASSUME NEW e \in J!Judged(J!Entries), J!Of(J!Judged(J!Entries'), e.case) = {},
                        ~judging.fresh, judging.made[e.case] = e.output
                 PROVE  FALSE
    BY <1>1 DEF VerdictStays
  <2>2. e.verdict = "judged" /\ e \in judging.cache \cup judging.results
    BY <1>1, <2>1 DEF VerdictsInv, KeptInv, J!Judged
  <2>3. \E x \in judging.results : x.case = e.case /\ x.verdict = "judged"
    BY <1>1, <2>1, <2>2, RunIs DEF RunOK, HitOK
  <2> QED
    BY <1>1, <2>1, <2>3 DEF J!Of, J!Judged
<1>2. CASE store' \in {store, Torn}
  BY <1>2 DEF VerdictStays, J!Entries, J!Of, J!Judged
<1>3. CASE J!Finish
  <2>1. J!On /\ store' = [entries |-> judging.results]
    BY <1>3 DEF J!Finish
  <2>2. judging.results \in SUBSET J!Entry
    BY <2>1, RunIs DEF Runs
  <2>3. J!Entries' = judging.results
    BY <2>1, <2>2, FileIs DEF Judgeable, J!Entries
  <2> QED
    BY <1>1, <2>1, <2>2, <2>3
<1>4. ASSUME J!On, NEW job \in judging.judging, J!Judge(job) PROVE VerdictStays
  <2>1. /\ store' = [entries |-> judging'.results] /\ judging.results \subseteq judging'.results
        /\ J!On'
    BY <1>4, RunIs DEF J!Judge, Runs, J!On
  <2>2. judging'.results \in SUBSET J!Entry
    BY <1>4, <2>1, JudgeKeeps DEF VerdictsInv, RunInv, RunOK, Runs
  <2>3. J!Entries' = judging'.results
    BY <2>1, <2>2, FileIs DEF Judgeable, J!Entries
  <2> QED
    BY <1>1, <1>4, <2>1, <2>2, <2>3
<1>5. \/ store' \in {store, Torn} \/ J!Finish \/ (J!On /\ \E job \in judging.judging : J!Judge(job))
  BY DEF J!Next, J!Begin, J!Skip, J!RunAndCapture, J!Kill, J!Edit, J!vars
<1> QED
  BY <1>2, <1>3, <1>4, <1>5

LEMMA OneEachIsFew ==
    ASSUME NEW entries, OneEach(entries), NEW c PROVE J!Cardinality(J!Of(entries, c)) <= 1
<1>1. CASE J!Of(entries, c) = {}
  BY <1>1, FS_EmptySet, SameNumbers
<1>2. CASE J!Of(entries, c) # {}
  <2>1. PICK e \in J!Of(entries, c) : TRUE
    BY <1>2
  <2>2. J!Of(entries, c) = {e}
    BY <2>1 DEF J!Of, OneEach
  <2> QED
    <3>1. J!Cardinality({e}) = 1
      BY FS_Singleton, SameNumbers, Zenon
    <3> QED
      BY <2>2, <3>1
<1> QED
  BY <1>1, <1>2

LEMMA VerdictsKnow ==
    ASSUME VerdictsInv PROVE J!TypeOK /\ J!ScriptedIsCurrent /\ J!ZeroCallsMeansScripted
<1>1. \A c \in CaseIds : J!Cardinality(J!Of(J!Entries, c)) <= 1
  BY OneEachIsFew DEF VerdictsInv, StoreInv
<1>2. J!On => /\ judging.results \subseteq J!Entry /\ judging.todo \subseteq CaseIds
              /\ J!Cardinality(judging.judging) <= JudgeWorkers
  BY DEF VerdictsInv, RunInv, RunOK, Runs, JudgingOK
<1>3. J!TypeOK
  BY <1>1, <1>2 DEF J!TypeOK, VerdictsInv, StoreInv, OtherInv
<1>4. J!ZeroCallsMeansScripted
  BY DEF J!ZeroCallsMeansScripted, VerdictsInv, StoreInv, EntryFits
<1>5. J!ScriptedIsCurrent
  BY DEF J!ScriptedIsCurrent, VerdictsInv, StoreInv, FinishedInv, EntryFits, Escalated
<1> QED
  BY <1>3, <1>4, <1>5

(* A scripted verdict is of what the scripted pipeline once made of its      *)
(* case; after a scripted run each is of that run's fingerprint, and of the  *)
(* facts it read unless the case was skipped; a failure left behind is of    *)
(* that run; and a verdict is lost only to a run that has yet to come to its *)
(* case or resolves it otherwise (judge_real_outcomes.py), for any cases,    *)
(* sources, days and numbers of runs.                                        *)
THEOREM VerdictsCorrect ==
    ASSUME PartsAssumption
    PROVE  Spec => VerdictsAreCurrent
<1>1. Judgeable
  BY DEF Judgeable, PartsAssumption
<1>2. Init => VerdictsInv
  BY <1>1, VerdictsInit DEF Init
<1>3. VerdictsInv /\ [Next]_vars => VerdictsInv'
  BY <1>1, StepsOfScripts, VerdictsNext
<1>4. VerdictsInv => /\ J!TypeOK /\ J!ScriptedIsCurrent /\ J!FailedIsOfThisRun
                     /\ J!ZeroCallsMeansScripted
  BY VerdictsKnow DEF VerdictsInv
<1>5. VerdictsInv /\ [Next]_vars =>
          [store' # Torn =>
           \A e \in J!Judged(J!Entries) :
               J!Of(J!Judged(J!Entries'), e.case) = {} =>
                   J!On /\ (judging.fresh \/ judging.made[e.case] # e.output)]_(J!vars)
  BY <1>1, StepsOfScripts, VerdictsStay DEF VerdictStays
<1> QED
  BY <1>2, <1>3, <1>4, <1>5, PTL DEF Spec, VerdictsAreCurrent, J!VerdictsSurvive

-----------------------------------------------------------------------------
Sourceable == S!DocumentsAssumption /\ S!BoundsAssumption /\ S!TornAssumption

Complexes == {Complex[d] : d \in Orders}
Stages == {"next", "pay", "write", "download", "extract", "keep", "add"}
Running ==
    [at : Stages, script : S!Scripts, cases : SUBSET S!Cases, known : SUBSET S!Documents,
     todo : SUBSET S!Documents, left : SUBSET Categories, category : Categories \cup {None},
     doc : S!Documents \cup {None}, shape : {"none", "full", "bare", "errmsg"},
     bad : SUBSET Complexes, fresh : BOOLEAN, met : BOOLEAN]

Names(file) == IF file = Torn THEN {} ELSE S!Named(file.cases)

(* Of two cases of one judgment each was found by a category of its own. *)
OneCaseOf(cases) ==
    \A c, e \in cases :
        c.id = e.id /\ c.id # None /\ c # e =>
            c.by = "paid" /\ e.by = "paid" /\ c.category # e.category

(* What each script goes through, and what it is at. *)
PoolOK(r) ==
    /\ r.todo \cup ({r.doc} \ {None}) \subseteq IF r.script = "district" THEN Orders ELSE Judgments
    /\ r.fresh => r.script \in {"paid", "ingest"}
    /\ r.script # "paid" => r.left = {}
AtOK(r) ==
    /\ r.at = "next" <=> r.doc = None
    /\ r.at \in {"pay", "write"} => r.script \in {"paid", "ingest"}
    /\ r.at = "download" => r.script = "district" /\ r.shape = "bare"
    /\ r.at \in {"keep", "add"} => r.script \in {"free", "district"}
    /\ r.at = "write" => r.shape \in {"full", "errmsg"}
    /\ r.at = "extract" => r.shape \in {"full", "bare", "errmsg"}

(* A paid run finds what its dataset lacks, once for each category; the free *)
(* ones take what neither the dataset nor the run has.                       *)
PaidOK(r) ==
    /\ r.todo \cup {r.doc} \subseteq (Judgments \ r.known) \cup {None}
    /\ r.todo # {} \/ r.doc # None => r.category \in Categories \ r.left
    /\ r.doc \notin r.todo
    /\ \A c \in r.cases :
          c.id # None /\ c.id \notin r.known =>
              /\ c.by = "paid" /\ c.category \notin r.left
              /\ c.category = r.category => c.id \notin r.todo \cup {r.doc}
FreeOK(r) ==
    r.doc \notin r.todo /\ S!Named(r.cases) \cap (r.todo \cup {r.doc}) = {}

CasesOK(r) ==
    /\ r.script \in S!Writers => OneCaseOf(r.cases)
    /\ r.script = "paid" => PaidOK(r)
    /\ r.script \in {"free", "district"} => FreeOK(r)

SourcerOK(r) == r \in Running /\ PoolOK(r) /\ AtOK(r) /\ CasesOK(r)

FilesInv ==
    /\ {dataset, corpus} \subseteq S!Whole \cup {Torn}
    /\ documents \in [S!Documents -> {"none", "full", "bare", "errmsg", Torn}]
    /\ blocked \subseteq Judgments /\ bad \subseteq Complexes /\ archives \subseteq Complexes
    /\ starts \in 0 .. MaxStarts /\ kills \in 0 .. MaxKills
    /\ paid \in [Judgments -> Nat]
    /\ wasted \subseteq Judgments /\ leftover \subseteq S!Documents

SourcersInv ==
    /\ run \in [A -> Running \cup {S!Off}]
    /\ \A p \in S!Live : SourcerOK(run[p])

(* Two at a time know that they met. *)
CrossedInv == \A p, q \in S!Live : p # q => run[p].met

(* A judgment that is not wasted is paid for by one, and then has a file. *)
Fetches(r, d) == r.at \in {"pay", "write"} /\ r.doc = d
PaidInv ==
    \A d \in Judgments \ wasted :
        /\ \A p, q \in A : Fetches(run[p], d) /\ Fetches(run[q], d) => p = q
        /\ \A p \in A : S!At(p, "pay") /\ run[p].doc = d => paid[d] = 0
        /\ paid[d] <= 1
        /\ paid[d] = 1 => documents[d] # "none"
                          \/ \E p \in A : S!At(p, "write") /\ run[p].doc = d

(* A text without an id was kept for a case that is in the dataset, is being *)
(* added to it, or is left over.                                             *)
KeptBut(p, d) ==
    d \in leftover \/ \E q \in A : q # p /\ S!At(q, "add") /\ run[q].doc = d
Kept(d) == d \in leftover \/ \E q \in A : S!At(q, "add") /\ run[q].doc = d

BareInv ==
    \A d \in S!Documents : documents[d] = "bare" => Kept(d) \/ d \in Names(dataset)

(* What a run has, or will have, with an id. *)
Full(r) == S!Named(r.cases) \cup IF r.at = "extract" /\ r.shape # "bare" THEN {r.doc} ELSE {}
Sees(r, d) ==
    \/ Fetches(r, d)
    \/ r.script = "paid" /\ ~r.fresh /\ d \notin r.known
    \/ r.script = "paid" /\ r.fresh /\ d \in Full(r)
SeenInv ==
    \A p \in S!Live : \A d \in S!Documents :
        documents[d] = "bare" /\ Sees(run[p], d) => KeptBut(p, d)

(* What a run has, or will have, without one. *)
Bare(r) ==
    {c.of : c \in {c \in r.cases : c.id = None}}
    \cup IF r.at = "extract" /\ r.shape = "bare" /\ r.script = "paid" THEN {r.doc} ELSE {}
LostTo(p, d) ==
    /\ run[p].script = "paid" /\ run[p].fresh
    /\ d \in Names(dataset) /\ d \notin Full(run[p])
    /\ documents[d] \in {"bare", Torn}
    /\ \A q \in A : ~Fetches(run[q], d)
HeldInv ==
    \A p \in S!Live : run[p].script \in S!Writers =>
        \A d \in Bare(run[p]) : KeptBut(p, d) \/ LostTo(p, d)

(* The dataset. *)
DataInv ==
    dataset # Torn =>
        /\ OneCaseOf(dataset.cases)
        /\ \A c \in dataset.cases : c.id = None => Kept(c.of)
        /\ \A p \in S!Live :
              run[p].script \in S!Writers /\ ~run[p].fresh /\ ~run[p].met =>
                  S!Named(dataset.cases) \subseteq S!Named(run[p].cases)

SourcingInv ==
    FilesInv /\ SourcersInv /\ CrossedInv /\ PaidInv /\ BareInv /\ SeenInv /\ HeldInv /\ DataInv

-----------------------------------------------------------------------------
(* What a step makes of the run of its process.                              *)
SameRun(r, s) ==
    /\ s \in Running /\ s.script = r.script /\ s.known = r.known /\ s.left \subseteq r.left
    /\ s.fresh = r.fresh /\ s.met = r.met

Searched(r, s) ==
    /\ SameRun(r, s) /\ r.at = "next" /\ r.todo = {} /\ s.at = "next" /\ s.doc = None
    /\ s.cases = r.cases /\ s.todo \subseteq Judgments \ r.known
    /\ s.category \in r.left /\ s.left = r.left \ {s.category}

Took(r, s, d) ==
    /\ SameRun(r, s) /\ r.at = "next" /\ d \in r.todo /\ s.todo = r.todo \ {d}
    /\ s.cases = r.cases /\ s.left = r.left /\ s.category = r.category
    /\ s.doc = IF s.at = "next" THEN None ELSE d

Went(r, s) ==
    /\ SameRun(r, s) /\ s.todo = r.todo /\ s.cases = r.cases /\ s.left = r.left /\ s.doc = r.doc
    /\ \/ r.at = "pay" /\ s.at = "write" /\ s.shape \in {"full", "errmsg"}
       \/ r.at \in {"write", "download"} /\ s.at = "extract" /\ s.shape = r.shape
       \/ r.at = "extract" /\ s.at = "keep" /\ r.script \in {"free", "district"}
       \/ r.at = "keep" /\ s.at = "add"
    /\ r.script \in {"free", "district"} \/ s.category = r.category

CaseOf(r) ==
    [of |-> r.doc, category |-> r.category, by |-> r.script,
     id |-> IF r.shape = "bare" /\ r.script \in {"paid", "ingest"} THEN None ELSE r.doc]

Onward(r, s, more) ==
    /\ SameRun(r, s) /\ r.at # "next" /\ s.at = "next" /\ s.doc = None
    /\ s.todo \subseteq r.todo /\ s.left = r.left
    /\ r.script = "paid" => s.category = r.category
    /\ s.cases = r.cases \cup more

LEMMA SearchedOK ==
    ASSUME Sourceable, NEW r, NEW s, SourcerOK(r), Searched(r, s) PROVE SourcerOK(s)
<1>1. /\ r.script = "paid" /\ OneCaseOf(r.cases) /\ PaidOK(r) /\ r \in Running
      /\ ~(s.script = "district")
  BY DEF SourcerOK, CasesOK, PoolOK, Searched, SameRun, S!Writers
<1>2. None \notin Judgments
  BY DEF Sourceable, S!DocumentsAssumption
<1>3. PoolOK(s) /\ AtOK(s)
  BY <1>1 DEF PoolOK, AtOK, Searched, SameRun, SourcerOK
<1>4. PaidOK(s)
  <2>1. s.category \in Categories \ s.left
    BY <1>1 DEF Searched, Running
  <2>2. ASSUME NEW c \in s.cases, c.id # None, c.id \notin s.known
        PROVE  /\ c.by = "paid" /\ c.category \notin s.left /\ c.category # s.category
    BY <1>1, <2>2 DEF PaidOK, Searched, SameRun
  <2> QED
    BY <1>2, <2>1, <2>2 DEF PaidOK, Searched, SameRun
<1> QED
  BY <1>1, <1>3, <1>4 DEF SourcerOK, CasesOK, Searched, SameRun

LEMMA TookOK ==
    ASSUME Sourceable, NEW r, NEW s, SourcerOK(r), NEW d, Took(r, s, d), s.at # "off",
           s.at \notin {"write", "keep", "add"},
           s.at = "pay" => r.script \in {"paid", "ingest"},
           s.at = "download" => r.script = "district" /\ s.shape = "bare",
           s.at = "extract" => s.shape \in {"full", "bare", "errmsg"}
    PROVE  SourcerOK(s)
<1>1. /\ d \in Judgments \cup Orders /\ d # None /\ r.doc = None
  BY DEF Took, SourcerOK, PoolOK, AtOK, Sourceable, S!DocumentsAssumption
<1>2. PoolOK(s)
  BY <1>1 DEF PoolOK, Took, SameRun, SourcerOK
<1>3. AtOK(s)
  BY <1>1 DEF AtOK, Took, SameRun
<1>4. s.script = "paid" => PaidOK(s)
  <2> SUFFICES ASSUME s.script = "paid" PROVE PaidOK(s)
    OBVIOUS
  <2>1. PaidOK(r) /\ r.known = s.known
    BY DEF SourcerOK, CasesOK, Took, SameRun
  <2> QED
    BY <1>1, <2>1 DEF PaidOK, Took
<1>5. s.script \in {"free", "district"} => FreeOK(s)
  BY <1>1 DEF SourcerOK, CasesOK, FreeOK, Took, SameRun, S!Named
<1> QED
  BY <1>2, <1>3, <1>4, <1>5 DEF SourcerOK, CasesOK, Took, SameRun

LEMMA WentOK ==
    ASSUME NEW r, NEW s, SourcerOK(r), Went(r, s) PROVE SourcerOK(s)
<1>1. PoolOK(s) /\ AtOK(s)
  BY DEF PoolOK, AtOK, Went, SameRun, SourcerOK
<1>2. s.script = "paid" => PaidOK(s)
  BY DEF SourcerOK, CasesOK, PaidOK, Went, SameRun
<1>3. s.script \in {"free", "district"} => FreeOK(s)
  BY DEF SourcerOK, CasesOK, FreeOK, Went, SameRun
<1> QED
  BY <1>1, <1>2, <1>3 DEF SourcerOK, CasesOK, Went, SameRun

LEMMA OnwardOK ==
    ASSUME Sourceable, NEW r, NEW s, SourcerOK(r), NEW more \in {{}, {CaseOf(r)}},
           Onward(r, s, more)
    PROVE  SourcerOK(s)
<1>1. r.doc # None /\ s \in Running /\ s.script = r.script /\ s.known = r.known
  BY DEF SourcerOK, AtOK, Onward, SameRun
<1>2. PoolOK(s) /\ AtOK(s)
  BY <1>1 DEF SourcerOK, PoolOK, AtOK, Onward, SameRun
<1>9. None \notin s.todo /\ s.doc = None /\ s.todo \subseteq r.todo
  <2>1. None \notin Judgments \cup Orders
    BY DEF Sourceable, S!DocumentsAssumption
  <2>2. r.todo \subseteq Judgments \cup Orders
    BY DEF SourcerOK, PoolOK
  <2> QED
    BY <2>1, <2>2 DEF Onward
<1>3. \A c \in s.cases \ r.cases :
          c.of = r.doc /\ c.category = r.category /\ c.by = r.script /\ c.id \in {None, r.doc}
  BY DEF Onward, CaseOf
<1>4. \A c, e \in s.cases \ r.cases : c = e
  BY DEF Onward
<1>5. CASE r.script = "paid"
  <2>1. PaidOK(r) /\ OneCaseOf(r.cases) /\ s.category = r.category
    BY <1>5 DEF SourcerOK, CasesOK, S!Writers, Onward
  <2>2. r.category \in Categories \ r.left /\ r.doc \notin r.known /\ r.doc \notin r.todo
    BY <1>1, <2>1 DEF PaidOK
  <2>3. \A e \in r.cases : e.id = r.doc => e.by = "paid" /\ e.category # r.category
    BY <1>1, <2>1, <2>2 DEF PaidOK
  <2>4. OneCaseOf(s.cases)
    BY <1>3, <1>4, <1>5, <2>1, <2>3 DEF OneCaseOf
  <2>5. ASSUME NEW c \in s.cases, c.id # None, c.id \notin s.known
        PROVE  /\ c.by = "paid" /\ c.category \notin s.left
               /\ c.category = s.category => c.id \notin s.todo \cup {s.doc}
    <3>1. CASE c \in r.cases
      BY <1>1, <2>1, <2>5, <3>1 DEF PaidOK, Onward
    <3>2. CASE c \notin r.cases
      BY <1>1, <1>3, <1>5, <2>2, <2>5, <3>2 DEF Onward
    <3> QED
      BY <3>1, <3>2
  <2>6. PaidOK(s)
    <3>1. s.todo \cup {s.doc} \subseteq (Judgments \ s.known) \cup {None}
      BY <1>1, <1>9, <2>1 DEF PaidOK
    <3>2. s.category \in Categories \ s.left
      BY <2>1, <2>2 DEF Onward
    <3> QED
      BY <1>9, <2>5, <3>1, <3>2 DEF PaidOK
  <2> QED
    BY <1>1, <1>2, <1>5, <2>4, <2>6 DEF SourcerOK, CasesOK
<1>6. CASE r.script \in {"free", "district"}
  <2>1. FreeOK(r) /\ OneCaseOf(r.cases)
    BY <1>6 DEF SourcerOK, CasesOK, S!Writers
  <2>2. \A e \in r.cases : e.id # r.doc
    BY <1>1, <2>1 DEF FreeOK, S!Named
  <2>3. OneCaseOf(s.cases)
    BY <1>1, <1>3, <1>4, <2>1, <2>2 DEF OneCaseOf
  <2>4. FreeOK(s)
    <3>1. \A c \in s.cases : c.id # None => c.id \notin s.todo
      BY <1>3, <1>9, <2>1 DEF FreeOK, S!Named
    <3> QED
      BY <1>9, <3>1 DEF FreeOK, S!Named
  <2> QED
    BY <1>1, <1>2, <1>6, <2>3, <2>4 DEF SourcerOK, CasesOK
<1>7. CASE r.script = "ingest"
  BY <1>1, <1>2, <1>7 DEF SourcerOK, CasesOK, S!Writers
<1>8. r.script \in {"paid", "free", "district", "ingest"}
  BY DEF SourcerOK, Running, S!Scripts, S!Writers
<1> QED
  BY <1>5, <1>6, <1>7, <1>8

LEMMA InFull ==
    ASSUME NEW r, NEW e
    PROVE  e \in Full(r) <=> \/ e \in S!Named(r.cases)
                             \/ r.at = "extract" /\ r.shape # "bare" /\ e = r.doc
<1>1. CASE r.at = "extract" /\ r.shape # "bare"
  <2>1. Full(r) = S!Named(r.cases) \cup {r.doc}
    BY <1>1 DEF Full
  <2> QED
    BY <1>1, <2>1
<1>2. CASE ~(r.at = "extract" /\ r.shape # "bare")
  <2>1. Full(r) = S!Named(r.cases)
    BY <1>2 DEF Full
  <2> QED
    BY <1>2, <2>1
<1> QED
  BY <1>1, <1>2

LEMMA InBare ==
    ASSUME NEW r, NEW e
    PROVE  e \in Bare(r) <=>
               \/ \E c \in r.cases : c.id = None /\ c.of = e
               \/ r.at = "extract" /\ r.shape = "bare" /\ r.script = "paid" /\ e = r.doc
<1>1. CASE r.at = "extract" /\ r.shape = "bare" /\ r.script = "paid"
  <2>1. Bare(r) = {c.of : c \in {c \in r.cases : c.id = None}} \cup {r.doc}
    BY <1>1 DEF Bare
  <2> QED
    BY <1>1, <2>1
<1>2. CASE ~(r.at = "extract" /\ r.shape = "bare" /\ r.script = "paid")
  <2>1. Bare(r) = {c.of : c \in {c \in r.cases : c.id = None}}
    BY <1>2 DEF Bare
  <2> QED
    BY <1>2, <2>1
<1> QED
  BY <1>1, <1>2

(* What a step may make of the run of its process, of the texts it has with  *)
(* and without an id.                                                        *)
Reads(r, s, docs) ==
    /\ \A d \in S!Documents : docs[d] = "bare" /\ Sees(s, d) => Sees(r, d)
    /\ r.script = "paid" =>
           \A d \in Full(s) : d \in Full(r) \/ docs[d] \in {"full", "errmsg"} \/ Fetches(r, d)
    /\ r.script \in S!Writers =>
           \A d \in Bare(s) :
               \/ d \in Bare(r)
               \/ r.script = "paid" /\ r.at = "next" /\ d \in r.todo /\ docs[d] = "bare"
    /\ \A d \in S!Documents : Fetches(s, d) => Fetches(r, d) \/ docs[d] = "none"
    /\ r.cases \subseteq s.cases

LEMMA SearchReads ==
    ASSUME NEW r, NEW s, NEW docs, Searched(r, s) PROVE Reads(r, s, docs)
<1>1. Full(s) = Full(r) /\ Bare(s) = Bare(r)
  BY DEF Searched, SameRun, Full, Bare
<1>2. \A d : Sees(s, d) => Sees(r, d)
  BY <1>1 DEF Sees, Searched, SameRun, Fetches
<1> QED
  BY <1>1, <1>2 DEF Reads, Searched, Fetches

LEMMA TakeReads ==
    ASSUME NEW r, NEW s, NEW d, NEW docs, Took(r, s, d),
           s.at \in {"next", "pay", "extract", "download"},
           s.at = "pay" => docs[d] = "none",
           s.at = "extract" /\ r.script = "paid" =>
               s.shape = docs[d] /\ docs[d] \in {"full", "bare", "errmsg"},
           s.at = "extract" => s.shape \in {"full", "bare", "errmsg"}
    PROVE  Reads(r, s, docs)
<1>1. /\ s.cases = r.cases /\ s.script = r.script /\ s.known = r.known /\ s.fresh = r.fresh
      /\ r.at = "next" /\ d \in r.todo /\ (s.at # "next" => s.doc = d)
  BY DEF Took, SameRun
<1>2. ASSUME r.script = "paid", NEW e \in Full(s)
      PROVE  e \in Full(r) \/ (e = d /\ docs[d] \in {"full", "errmsg"})
  <2>1. Full(r) = S!Named(r.cases)
    BY <1>1, InFull
  <2>2. CASE s.at = "extract" /\ s.shape # "bare"
    <3>1. s.shape = docs[d] /\ docs[d] \in {"full", "bare", "errmsg"} /\ s.doc = d
      BY <1>1, <1>2, <2>2
    <3>2. e \in S!Named(s.cases) \/ e = d
      BY <2>2, <1>2, <3>1, InFull
    <3> QED
      BY <1>1, <2>1, <2>2, <3>1, <3>2
  <2>3. CASE ~(s.at = "extract" /\ s.shape # "bare")
    <3>1. e \in S!Named(s.cases)
      BY <1>2, <2>3, InFull
    <3>2. e \in S!Named(r.cases)
      BY <1>1, <3>1
    <3> QED
      BY <2>1, <3>2
  <2> QED
    BY <2>2, <2>3
<1>3. ASSUME NEW e, docs[e] = "bare", Sees(s, e)
      PROVE  Sees(r, e)
  BY <1>1, <1>2, <1>3 DEF Sees, Fetches
<1>4. ASSUME NEW e \in Bare(s)
      PROVE  e \in Bare(r) \/ (r.script = "paid" /\ e = d /\ docs[d] = "bare")
  <2>1. CASE s.at = "extract" /\ s.shape = "bare" /\ s.script = "paid"
    <3>1. s.shape = docs[d] /\ s.doc = d /\ r.script = "paid"
      BY <1>1, <2>1
    <3> QED
      BY <1>1, <1>4, <2>1, <3>1, InBare
  <2>2. CASE ~(s.at = "extract" /\ s.shape = "bare" /\ s.script = "paid")
    BY <1>1, <1>4, <2>2, InBare
  <2> QED
    BY <2>1, <2>2
<1>5. \A e : Fetches(s, e) => docs[e] = "none"
  BY <1>1 DEF Fetches
<1> QED
  BY <1>1, <1>2, <1>3, <1>4, <1>5 DEF Reads

LEMMA WentReads ==
    ASSUME NEW r, NEW s, NEW docs, SourcerOK(r), Went(r, s) PROVE Reads(r, s, docs)
<1>1. /\ s.cases = r.cases /\ s.script = r.script /\ s.known = r.known /\ s.fresh = r.fresh
      /\ s.doc = r.doc
  BY DEF Went, SameRun
<1>2. \/ r.at = "pay" /\ s.at = "write"
      \/ r.at = "write" /\ s.at = "extract" /\ s.shape \in {"full", "errmsg"}
      \/ r.at = "download" /\ s.at = "extract" /\ r.script = "district"
      \/ s.at \in {"keep", "add"}
  BY DEF SourcerOK, AtOK, Went
<1>3. ASSUME r.script = "paid", NEW e \in Full(s)
      PROVE  e \in Full(r) \/ Fetches(r, e)
  BY <1>1, <1>2, <1>3, InFull DEF Fetches
<1>4. \A e : Fetches(s, e) => Fetches(r, e)
  BY <1>1, <1>2 DEF Fetches
<1>5. \A e : Sees(s, e) => Sees(r, e)
  BY <1>1, <1>3, <1>4 DEF Sees
<1>6. Bare(s) \subseteq Bare(r)
  BY <1>1, <1>2, InBare
<1> QED
  BY <1>1, <1>3, <1>4, <1>5, <1>6 DEF Reads

LEMMA OnwardReads ==
    ASSUME NEW r, NEW s, NEW docs, NEW more \in {{}, {CaseOf(r)}}, SourcerOK(r), Onward(r, s, more),
           more # {} => r.at \in {"extract", "add"}
    PROVE  Reads(r, s, docs)
<1>1. /\ s.cases = r.cases \cup more /\ s.script = r.script /\ s.known = r.known
      /\ s.fresh = r.fresh /\ s.at = "next"
  BY DEF Onward, SameRun
<1>2. r.script = "paid" /\ more # {} => r.at = "extract"
  BY DEF SourcerOK, AtOK
<1>3. \A c \in more : /\ c.of = r.doc /\ c.id \in {r.doc, None}
                      /\ c.id = None =>
                             r.doc = None \/ (r.shape = "bare" /\ r.script \in {"paid", "ingest"})
                      /\ r.shape = "bare" /\ r.script = "paid" => c.id = None
  <2>1. \A c \in more : c = CaseOf(r)
    OBVIOUS
  <2>2. /\ CaseOf(r).of = r.doc
        /\ CaseOf(r).id = IF r.shape = "bare" /\ r.script \in {"paid", "ingest"}
                          THEN None ELSE r.doc
    BY DEF CaseOf
  <2>3. CASE r.shape = "bare" /\ r.script \in {"paid", "ingest"}
    BY <2>1, <2>2, <2>3
  <2>4. CASE ~(r.shape = "bare" /\ r.script \in {"paid", "ingest"})
    BY <2>1, <2>2, <2>4
  <2> QED
    BY <2>3, <2>4
<1>4. r.doc # None
  BY DEF SourcerOK, AtOK, Onward
<1>5. ASSUME r.script = "paid", NEW e \in Full(s)
      PROVE  e \in Full(r)
  <2>1. PICK c \in s.cases : c.id = e /\ e # None
    BY <1>1, <1>5, InFull DEF S!Named
  <2>2. CASE c \in r.cases
    BY <2>1, <2>2, InFull DEF S!Named
  <2>3. CASE c \in more
    BY <1>2, <1>3, <1>5, <2>1, <2>3, InFull
  <2> QED
    BY <1>1, <2>1, <2>2, <2>3
<1>6. ASSUME r.script \in S!Writers, NEW e \in Bare(s)
      PROVE  e \in Bare(r)
  <2>1. PICK c \in s.cases : c.id = None /\ c.of = e
    BY <1>1, <1>6, InBare
  <2>2. CASE c \in r.cases
    BY <2>1, <2>2, InBare
  <2>3. CASE c \in more
    BY <1>2, <1>3, <1>4, <1>6, <2>1, <2>3, InBare DEF S!Writers
  <2> QED
    BY <1>1, <2>1, <2>2, <2>3
<1>7. \A e : ~Fetches(s, e)
  BY <1>1 DEF Fetches
<1>8. \A e : Sees(s, e) => Sees(r, e)
  BY <1>1, <1>5, <1>7 DEF Sees
<1> QED
  BY <1>1, <1>5, <1>6, <1>7, <1>8 DEF Reads

-----------------------------------------------------------------------------
(* What a step leaves alone, and how it changes the rest.                    *)
Others(p) ==
    /\ run' \in [A -> Running \cup {S!Off}]
    /\ \A q \in A \ {p} : run'[q] = run[q]

Turn(p) ==
    /\ p \in S!Live /\ Others(p)
    /\ \/ run'[p] = S!Off
       \/ SourcerOK(run'[p]) /\ SameRun(run[p], run'[p]) /\ Reads(run[p], run'[p], documents)

(* A document whose case is not added any more is left over. *)
Ended(p) ==
    S!At(p, "add") =>
          (run'[p].at = "add" /\ run'[p].doc = run[p].doc) \/ run[p].doc \in leftover'
Leaves(p) ==
    /\ leftover \subseteq leftover'
    /\ Names(dataset) \ Names(dataset') \subseteq leftover'
    /\ Ended(p) \/ (~run[p].met /\ run[p].doc \in Names(dataset'))

Files(p) ==
    \A d \in S!Documents : documents'[d] # documents[d] =>
        /\ d = run[p].doc
        /\ \/ S!At(p, "write") /\ documents'[d] \in {"full", "errmsg", Torn} /\ ~Fetches(run'[p], d)
           \/ S!At(p, "keep") /\ documents'[d] = Torn
           \/ /\ S!At(p, "keep") /\ documents'[d] = "bare"
              /\ run'[p].at = "add" /\ run'[p].doc = d

Pays(p) ==
    /\ wasted \subseteq wasted'
    /\ \A d \in S!Documents : documents'[d] = "none" => documents[d] = "none"
    /\ run'[p].at = "pay" =>
           /\ documents[run'[p].doc] = "none"
           /\ S!Fetching(run'[p].doc) => run'[p].doc \in wasted'
    /\ \/ /\ run'[p].at = "write" /\ run[p].at = "pay" /\ run'[p].doc = run[p].doc
          /\ paid' = [paid EXCEPT ![run[p].doc] = @ + 1]
       \/ run'[p].at # "write" /\ paid' = paid
    /\ S!At(p, "write") => documents'[run[p].doc] # "none" \/ run[p].doc \in wasted'

Framed(p) == Turn(p) /\ Leaves(p) /\ Files(p) /\ Pays(p)

LEMMA Alive ==
    ASSUME SourcersInv, NEW p \in A, ~S!At(p, "off")
    PROVE  p \in S!Live /\ run[p] \in Running /\ SourcerOK(run[p])
BY DEF SourcersInv, S!Live, S!At, SourcerOK

LEMMA OffOrRunning ==
    ASSUME SourcersInv, NEW p \in A
    PROVE  /\ p \in S!Live <=> run[p] # S!Off
           /\ p \in S!Live => run[p] \in Running
           /\ S!Off.at = "off"
<1>1. run[p] \in Running \/ run[p] = S!Off
  BY DEF SourcersInv
<1>2. S!Off.at = "off"
  BY DEF S!Off
<1>3. \A r \in Running : r.at # "off"
  BY DEF Running, Stages
<1>4. \A r \in Running : r # S!Off
  BY <1>2, <1>3
<1> QED
  BY <1>1, <1>2, <1>3, <1>4 DEF S!Live, S!At

LEMMA GoingOn ==
    ASSUME SourcersInv, NEW p \in S!Live, NEW more, run[p].cases \cup more \subseteq S!Cases,
           run[p].at # "next", S!GoOn(p, run[p].cases \cup more)
    PROVE  Others(p) /\ Onward(run[p], run'[p], more)
<1>1. p \in A /\ run[p] \in Running /\ run \in [A -> Running \cup {S!Off}]
  BY Alive DEF S!Live, SourcersInv
<1>2. run'[p] = [run[p] EXCEPT !.at = "next", !.cases = run[p].cases \cup more, !.doc = None,
                               !.shape = "none",
                               !.category = IF S!Is(p, {"paid"}) THEN @ ELSE None]
  BY <1>1 DEF S!GoOn
<1>3. \A q \in A \ {p} : run'[q] = run[q]
  BY <1>1 DEF S!GoOn
<1>4. run'[p] \in Running
  BY <1>1, <1>2 DEF Running, Stages
<1>5. DOMAIN run' = A /\ run' = [q \in A |-> run'[q]]
  BY <1>1 DEF S!GoOn
<1>6. Others(p)
  BY <1>1, <1>3, <1>4, <1>5 DEF Others
<1>7. Onward(run[p], run'[p], more)
  BY <1>1, <1>2, <1>4 DEF Onward, SameRun, S!Is, Running
<1> QED
  BY <1>6, <1>7

LEMMA Taking ==
    ASSUME SourcersInv, NEW p \in S!Live, NEW d \in run[p].todo, NEW at \in Stages,
           NEW shape \in {"none", "full", "bare", "errmsg"}, run[p].at = "next",
           S!Take(p, d, at, shape)
    PROVE  /\ Others(p) /\ Took(run[p], run'[p], d)
           /\ run'[p].at = at /\ run'[p].shape = shape
<1>1. p \in A /\ run[p] \in Running /\ run \in [A -> Running \cup {S!Off}]
  BY Alive DEF S!Live, SourcersInv
<1>2. run'[p] = [run[p] EXCEPT !.todo = @ \ {d}, !.at = at, !.shape = shape,
                               !.doc = IF at = "next" THEN None ELSE d]
  BY <1>1 DEF S!Take
<1>3. \A q \in A \ {p} : run'[q] = run[q]
  BY <1>1 DEF S!Take
<1>4. d \in S!Documents
  BY <1>1 DEF Running
<1>5. run'[p] \in Running
  BY <1>1, <1>2, <1>4 DEF Running
<1>6. DOMAIN run' = A /\ run' = [q \in A |-> run'[q]]
  BY <1>1 DEF S!Take
<1>7. Others(p)
  BY <1>1, <1>3, <1>5, <1>6 DEF Others
<1>8. Took(run[p], run'[p], d) /\ run'[p].at = at /\ run'[p].shape = shape
  BY <1>1, <1>2, <1>5 DEF Took, SameRun, Running
<1> QED
  BY <1>7, <1>8

LEMMA QuietFrames ==
    ASSUME NEW p, Turn(p), run[p].at \notin {"write", "add"}, run'[p].at \notin {"pay", "write"},
           UNCHANGED <<dataset, documents, paid, wasted, leftover>>
    PROVE  Framed(p) /\ Ended(p)
<1>1. Leaves(p) /\ Ended(p)
  BY DEF Leaves, Ended, S!At
<1>2. Files(p)
  BY DEF Files
<1>3. Pays(p)
  BY DEF Pays, S!At
<1> QED
  BY <1>1, <1>2, <1>3 DEF Framed

(* The steps of a process. *)
LEMMA CaseIsCase ==
    ASSUME NEW r \in Running, r.doc \in S!Documents PROVE CaseOf(r) \in S!Cases
<1>1. r.script \in S!Scripts /\ r.category \in Categories \cup {None}
  BY DEF Running
<1>2. CASE r.shape = "bare" /\ r.script \in {"paid", "ingest"}
  BY <1>1, <1>2 DEF CaseOf, S!Cases
<1>3. CASE ~(r.shape = "bare" /\ r.script \in {"paid", "ingest"})
  BY <1>1, <1>3 DEF CaseOf, S!Cases
<1> QED
  BY <1>2, <1>3

LEMMA SearchFrames ==
    ASSUME Sourceable, FilesInv, SourcersInv, NEW p \in A, NEW category \in Categories,
           S!Search(p, category)
    PROVE  Framed(p) /\ Ended(p) /\ FilesInv' /\ dataset' = dataset
<1>1. p \in S!Live /\ run[p] \in Running /\ SourcerOK(run[p])
  BY Alive DEF S!Search, S!At
<1>2. PICK found \in SUBSET (Judgments \ run[p].known) :
          run' = [run EXCEPT ![p].todo = found, ![p].category = category,
                             ![p].left = @ \ {category}]
  BY DEF S!Search
<1>3. run'[p] = [run[p] EXCEPT !.todo = found, !.category = category, !.left = @ \ {category}]
  BY <1>2 DEF SourcersInv
<1>4. run'[p] \in Running
  BY <1>1, <1>3 DEF Running, S!Documents
<1>5. Others(p)
  BY <1>2, <1>3, <1>4 DEF Others, SourcersInv
<1>6. run[p].at = "next" /\ run[p].todo = {} /\ category \in run[p].left /\ run[p].doc = None
  BY <1>1 DEF S!Search, S!At, SourcerOK, AtOK
<1>7. Searched(run[p], run'[p])
  BY <1>1, <1>3, <1>4, <1>6 DEF Searched, SameRun, Running
<1>8. Turn(p)
  BY <1>1, <1>5, <1>7, SearchedOK, SearchReads DEF Turn, Searched
<1>9. Framed(p) /\ Ended(p)
  BY <1>6, <1>7, <1>8, QuietFrames DEF S!Search, Searched
<1> QED
  BY <1>9 DEF S!Search, FilesInv

LEMMA NextDocumentFrames ==
    ASSUME Sourceable, FilesInv, SourcersInv, NEW p \in A, S!NextDocument(p)
    PROVE  Framed(p) /\ Ended(p) /\ FilesInv' /\ dataset' = dataset
<1>1. p \in S!Live /\ run[p] \in Running /\ SourcerOK(run[p]) /\ run[p].at = "next"
  BY Alive DEF S!NextDocument, S!At
<1>2. PICK d \in run[p].todo :
          /\ S!Skip(p, d) \/ S!FetchDoc(p, d) \/ S!OpenText(p, d)
          /\ wasted' = IF S!Fetching(d) /\ run'[p].at = "pay" THEN wasted \cup {d} ELSE wasted
  BY DEF S!NextDocument
<1>3. d \in S!Documents /\ (run[p].script # "district" => d \in Judgments)
  BY <1>1 DEF Running, SourcerOK, PoolOK
<1>4. documents[d] \in {"none", "full", "bare", "errmsg", Torn}
  BY <1>3 DEF FilesInv
<1> DEFINE s == run'[p]
<1>5. \/ s = S!Off /\ Others(p)
      \/ /\ Others(p) /\ Took(run[p], s, d)
         /\ \/ s.at = "next"
            \/ s.at = "pay" /\ documents[d] = "none" /\ run[p].script \in {"paid", "ingest"}
            \/ s.at = "extract" /\ s.shape = documents[d] /\ s.shape \in {"full", "bare", "errmsg"}
            \/ s.at = "extract" /\ s.shape = "bare" /\ run[p].script \notin {"paid", "ingest"}
            \/ s.at = "download" /\ s.shape = "bare" /\ run[p].script = "district"
  <2>1. ASSUME NEW at \in Stages, NEW shape \in {"none", "full", "bare", "errmsg"},
               S!Take(p, d, at, shape)
        PROVE  Others(p) /\ Took(run[p], s, d) /\ s.at = at /\ s.shape = shape
    BY <1>1, <2>1, Taking
  <2>2. {"next", "pay", "extract", "download"} \subseteq Stages
    BY DEF Stages
  <2>3. CASE S!Skip(p, d)
    BY <2>1, <2>2, <2>3 DEF S!Skip
  <2>4. CASE S!FetchDoc(p, d)
    <3>1. run[p].script \in {"paid", "ingest"}
      BY <2>4 DEF S!FetchDoc, S!Is
    <3>2. CASE documents[d] = "none" /\ S!Take(p, d, "pay", "none")
      BY <2>1, <2>2, <3>1, <3>2
    <3>3. CASE documents[d] \notin {"none", Torn} /\ S!Take(p, d, "extract", documents[d])
      <4>1. documents[d] \in {"full", "bare", "errmsg"}
        BY <1>4, <3>3
      <4> QED
        BY <2>1, <2>2, <3>3, <4>1
    <3>4. CASE S!Take(p, d, "next", "none")
      BY <2>1, <2>2, <3>4
    <3>5. CASE run' = [run EXCEPT ![p] = S!Off]
      BY <3>5 DEF Others, SourcersInv
    <3> QED
      BY <2>4, <3>2, <3>3, <3>4, <3>5 DEF S!FetchDoc
  <2>5. CASE S!OpenText(p, d)
    <3>1. CASE S!Is(p, {"free"}) /\ S!Take(p, d, "extract", "bare")
      BY <2>1, <2>2, <3>1 DEF S!Is
    <3>2. CASE S!Is(p, {"district"}) /\ S!Take(p, d, "extract", "bare")
      BY <2>1, <2>2, <3>2 DEF S!Is
    <3>3. CASE S!Is(p, {"district"}) /\ S!Take(p, d, "download", "bare")
      BY <2>1, <2>2, <3>3 DEF S!Is
    <3> QED
      BY <2>5, <3>1, <3>2, <3>3 DEF S!OpenText
  <2> QED
    BY <1>2, <2>3, <2>4, <2>5
<1>6. Turn(p)
  <2>1. CASE s = S!Off
    BY <1>1, <1>5, <2>1 DEF Turn
  <2>2. CASE s # S!Off
    <3>1. SourcerOK(s)
      BY <1>1, <1>5, <2>2, TookOK DEF Sourceable
    <3>2. Reads(run[p], s, documents)
      BY <1>1, <1>5, <2>2, TakeReads
    <3> QED
      BY <1>1, <1>5, <2>2, <3>1, <3>2 DEF Turn, Took
  <2> QED
    BY <2>1, <2>2
<1>7. Leaves(p) /\ Ended(p) /\ Files(p) /\ documents' = documents /\ paid' = paid
  BY <1>1 DEF S!NextDocument, Leaves, Ended, Files, S!At
<1>8. Pays(p)
  <2>1. s.at # "write" /\ (s.at = "pay" => documents[d] = "none" /\ s.doc = d)
    BY <1>5 DEF S!Off, Took
  <2> QED
    BY <1>1, <1>2, <1>7, <2>1 DEF Pays, S!At
<1>9. wasted' \subseteq Judgments
  <2>1. CASE run'[p].at = "pay"
    BY <1>2, <1>3, <1>5, <2>1 DEF FilesInv, S!Off
  <2>2. CASE run'[p].at # "pay"
    BY <1>2, <2>2 DEF FilesInv
  <2> QED
    BY <2>1, <2>2
<1> QED
  BY <1>6, <1>7, <1>8, <1>9 DEF S!NextDocument, FilesInv, Framed

LEMMA OnwardFrames ==
    ASSUME Sourceable, SourcersInv, NEW p \in S!Live, NEW more \in {{}, {CaseOf(run[p])}},
           run[p].at # "next", S!GoOn(p, run[p].cases \cup more),
           more # {} => run[p].at \in {"extract", "add"}
    PROVE  /\ Turn(p) /\ SourcerOK(run'[p]) /\ run'[p].at = "next"
           /\ run'[p].cases = run[p].cases \cup more /\ run[p].cases \cup more \subseteq S!Cases
<1>1. p \in A /\ run[p] \in Running /\ SourcerOK(run[p])
  BY Alive DEF S!Live
<1>2. run[p].doc \in S!Documents
  BY <1>1 DEF SourcerOK, AtOK, Running
<1>3. run[p].cases \cup more \subseteq S!Cases
  BY <1>1, <1>2, CaseIsCase DEF Running
<1>4. Others(p) /\ Onward(run[p], run'[p], more)
  BY <1>3, GoingOn
<1>5. SourcerOK(run'[p]) /\ Reads(run[p], run'[p], documents)
  BY <1>1, <1>4, OnwardOK, OnwardReads
<1> QED
  BY <1>3, <1>4, <1>5 DEF Turn, Onward

LEMMA GoneOnFrames ==
    ASSUME Sourceable, FilesInv, SourcersInv, NEW p \in A,
           S!NoDocument(p) \/ S!Reject(p)
    PROVE  Framed(p) /\ Ended(p) /\ FilesInv' /\ dataset' = dataset
<1>1. /\ p \in S!Live /\ run[p].at \in {"pay", "extract"} /\ S!GoOn(p, run[p].cases)
      /\ UNCHANGED <<dataset, corpus, documents, blocked, archives, bad, starts, kills,
                     paid, wasted, leftover>>
  BY Alive DEF S!NoDocument, S!Reject, S!At
<1>2. run[p].cases = run[p].cases \cup {}
  OBVIOUS
<1>3. Turn(p) /\ run'[p].at = "next"
  <2> DEFINE more == {}
  <2>1. S!GoOn(p, run[p].cases \cup more) /\ run[p].at # "next"
    BY <1>1, <1>2
  <2> HIDE DEF more
  <2>2. more = {}
    BY DEF more
  <2> QED
    BY <1>1, <2>1, <2>2, OnwardFrames
<1> QED
  BY <1>1, <1>3, QuietFrames DEF FilesInv

LEMMA WentTurns ==
    ASSUME SourcersInv, NEW p \in S!Live, Others(p), Went(run[p], run'[p]) PROVE Turn(p)
<1>1. SourcerOK(run[p])
  BY Alive DEF S!Live
<1> QED
  BY <1>1, WentOK, WentReads DEF Turn, Went

LEMMA PayFrames ==
    ASSUME Sourceable, FilesInv, SourcersInv, NEW p \in A, S!Pay(p)
    PROVE  Framed(p) /\ Ended(p) /\ FilesInv' /\ dataset' = dataset
<1>1. p \in S!Live /\ run[p] \in Running /\ SourcerOK(run[p]) /\ run[p].at = "pay"
  BY Alive DEF S!Pay, S!At
<1>2. PICK shape \in {"full", "errmsg"} :
          run' = [run EXCEPT ![p].at = "write", ![p].shape = shape]
  BY DEF S!Pay
<1>3. run'[p] = [run[p] EXCEPT !.at = "write", !.shape = shape]
  BY <1>2 DEF SourcersInv
<1>4. run'[p] \in Running
  BY <1>1, <1>3 DEF Running, Stages
<1>5. Others(p)
  BY <1>2, <1>3, <1>4 DEF Others, SourcersInv
<1>6. Went(run[p], run'[p])
  BY <1>1, <1>3, <1>4 DEF Went, SameRun, Running
<1>7. Turn(p)
  BY <1>1, <1>5, <1>6, WentTurns
<1>8. Leaves(p) /\ Ended(p) /\ Files(p)
  BY <1>1 DEF S!Pay, Leaves, Ended, Files, S!At
<1>9. Pays(p)
  BY <1>1, <1>3, <1>6 DEF S!Pay, Pays, S!At, Went, Running
<1>10. run[p].doc \in Judgments
  BY <1>1 DEF SourcerOK, AtOK, PoolOK
<1> QED
  BY <1>7, <1>8, <1>9, <1>10 DEF Framed, FilesInv, S!Pay

LEMMA WriteDocumentFrames ==
    ASSUME Sourceable, FilesInv, SourcersInv, NEW p \in A, S!WriteDocument(p)
    PROVE  Framed(p) /\ Ended(p) /\ FilesInv' /\ dataset' = dataset
<1>1. /\ p \in S!Live /\ run[p] \in Running /\ SourcerOK(run[p]) /\ run[p].at = "write"
      /\ run' = [run EXCEPT ![p].at = "extract"]
  BY Alive DEF S!WriteDocument, S!At, S!Goto
<1>2. run'[p] = [run[p] EXCEPT !.at = "extract"]
  BY <1>1 DEF SourcersInv
<1>3. run'[p] \in Running
  BY <1>1, <1>2 DEF Running, Stages
<1>4. Others(p)
  BY <1>1, <1>2, <1>3 DEF Others, SourcersInv
<1>5. Went(run[p], run'[p])
  BY <1>1, <1>2, <1>3 DEF Went, SameRun, Running
<1>6. Turn(p)
  BY <1>1, <1>4, <1>5, WentTurns
<1>7. run[p].doc \in S!Documents /\ run[p].shape \in {"full", "errmsg"}
  BY <1>1 DEF SourcerOK, AtOK, Running
<1>8. /\ documents' \in [S!Documents -> {"none", "full", "bare", "errmsg", Torn}]
      /\ documents'[run[p].doc] = run[p].shape
      /\ \A d \in S!Documents \ {run[p].doc} : documents'[d] = documents[d]
  BY <1>7 DEF S!WriteDocument, FilesInv
<1>9. run'[p].at = "extract"
  BY <1>1, <1>2 DEF Running
<1>10. Leaves(p) /\ Ended(p)
  BY <1>1 DEF S!WriteDocument, Leaves, Ended, S!At
<1>11. Files(p)
  BY <1>1, <1>7, <1>8, <1>9 DEF Files, S!At, Fetches
<1>12. Pays(p)
  BY <1>1, <1>7, <1>8, <1>9 DEF S!WriteDocument, Pays, S!At
<1> QED
  BY <1>6, <1>8, <1>10, <1>11, <1>12 DEF Framed, FilesInv, S!WriteDocument

LEMMA DownloadFrames ==
    ASSUME Sourceable, FilesInv, SourcersInv, NEW p \in A, S!Download(p)
    PROVE  Framed(p) /\ Ended(p) /\ FilesInv' /\ dataset' = dataset
<1>1. p \in S!Live /\ run[p] \in Running /\ SourcerOK(run[p]) /\ run[p].at = "download"
  BY Alive DEF S!Download, S!At
<1> DEFINE c == Complex[run[p].doc]
<1>2. c \in Complexes /\ run[p].script = "district"
  BY <1>1 DEF SourcerOK, AtOK, PoolOK, Complexes
<1>3. /\ UNCHANGED <<dataset, corpus, documents, blocked, starts, kills, paid, wasted, leftover>>
      /\ archives' \subseteq Complexes
  BY <1>2 DEF S!Download, FilesInv
<1> HIDE DEF c
<1>4. CASE UNCHANGED bad /\ run' = [run EXCEPT ![p].at = "extract"]
  <2>1. run'[p] = [run[p] EXCEPT !.at = "extract"]
    BY <1>4 DEF SourcersInv
  <2>2. run'[p] \in Running
    BY <1>1, <2>1 DEF Running, Stages
  <2>3. Others(p)
    BY <1>4, <2>1, <2>2 DEF Others, SourcersInv
  <2>4. Went(run[p], run'[p]) /\ run'[p].at = "extract"
    BY <1>1, <2>1, <2>2 DEF Went, SameRun, Running
  <2>5. Turn(p)
    BY <1>1, <2>3, <2>4, WentTurns
  <2>6. Framed(p) /\ Ended(p)
    BY <1>1, <1>3, <2>4, <2>5, QuietFrames
  <2> QED
    BY <1>3, <1>4, <2>6 DEF FilesInv
<1>5. CASE /\ run' = [run EXCEPT ![p].at = "next", ![p].doc = None,
                         ![p].shape = "none", ![p].bad = @ \cup {c},
                         ![p].todo = {d \in @ : Complex[d] # c}]
           /\ bad' = run'[p].bad
  <2>1. run'[p] = [run[p] EXCEPT !.at = "next", !.doc = None, !.shape = "none",
                                 !.bad = @ \cup {c}, !.todo = {d \in @ : Complex[d] # c}]
    BY <1>5 DEF SourcersInv
  <2>2. run'[p] \in Running
    <3> DEFINE others == {d \in run[p].todo : Complex[d] # c}
               barred == run[p].bad \cup {c}
    <3>3. barred \in SUBSET Complexes
      BY <1>1, <1>2 DEF Running
    <3>1. others \in SUBSET S!Documents
      BY <1>1 DEF Running
    <3>2. run'[p] = [run[p] EXCEPT !.at = "next", !.doc = None, !.shape = "none",
                                   !.bad = barred, !.todo = others]
      BY <2>1
    <3> HIDE DEF others, barred
    <3>4. None \in S!Documents \cup {None} /\ "next" \in Stages
      BY DEF Stages
    <3> QED
      BY <1>1, <3>1, <3>2, <3>3, <3>4 DEF Running
  <2>3. Others(p)
    BY <1>5, <2>1, <2>2 DEF Others, SourcersInv
  <2>4. Onward(run[p], run'[p], {})
    <3>1. run'[p].todo = {d \in run[p].todo : Complex[d] # c} /\ run'[p].at = "next"
          /\ run'[p].doc = None /\ run'[p].cases = run[p].cases
      BY <1>1, <2>1 DEF Running
    <3>2. SameRun(run[p], run'[p]) /\ run'[p].left = run[p].left
      BY <1>1, <2>1, <2>2 DEF SameRun, Running
    <3> QED
      BY <1>1, <1>2, <3>1, <3>2 DEF Onward
  <2>5. SourcerOK(run'[p]) /\ Reads(run[p], run'[p], documents) /\ run'[p].at = "next"
        /\ SameRun(run[p], run'[p])
    <3> DEFINE more == {}
    <3>1. Onward(run[p], run'[p], more)
      BY <2>4
    <3> HIDE DEF more
    <3>2. more = {}
      BY DEF more
    <3> QED
      BY <1>1, <3>1, <3>2, OnwardOK, OnwardReads DEF Onward
  <2>6. Turn(p)
    BY <1>1, <2>3, <2>5 DEF Turn
  <2>7. Framed(p) /\ Ended(p)
    BY <1>1, <1>3, <2>5, <2>6, QuietFrames
  <2>8. bad' \subseteq Complexes
    BY <1>5, <2>2 DEF Running
  <2> QED
    BY <1>3, <2>7, <2>8 DEF FilesInv
<1> QED
  BY <1>4, <1>5 DEF S!Download, S!Goto, c

LEMMA ExtractFrames ==
    ASSUME Sourceable, FilesInv, SourcersInv, NEW p \in A, S!Extract(p)
    PROVE  Framed(p) /\ Ended(p) /\ FilesInv' /\ dataset' = dataset
<1>1. /\ p \in S!Live /\ run[p].at = "extract" /\ S!GoOn(p, run[p].cases \cup {CaseOf(run[p])})
      /\ UNCHANGED <<dataset, documents, blocked, archives, bad, starts, kills,
                     paid, wasted, leftover>>
  BY Alive DEF S!Extract, S!At, S!Case, CaseOf, S!Is
<1>2. Turn(p) /\ run'[p].at = "next" /\ run[p].cases \cup {CaseOf(run[p])} \subseteq S!Cases
  BY <1>1, OnwardFrames
<1>3. Framed(p) /\ Ended(p)
  BY <1>1, <1>2, QuietFrames
<1>4. corpus' \in {corpus, [cases |-> run[p].cases \cup {CaseOf(run[p])}]}
  BY DEF S!Extract, S!Case, CaseOf, S!Is
<1>5. corpus' \in S!Whole \cup {Torn}
  BY <1>2, <1>4 DEF FilesInv, S!Whole
<1> QED
  BY <1>1, <1>3, <1>5 DEF FilesInv

LEMMA ClassifyFrames ==
    ASSUME Sourceable, FilesInv, SourcersInv, NEW p \in A, S!Classify(p)
    PROVE  Framed(p) /\ Ended(p) /\ FilesInv' /\ dataset' = dataset
<1>1. /\ p \in S!Live /\ run[p] \in Running /\ run[p].at = "extract"
      /\ run[p].script \in {"free", "district"}
  BY Alive DEF S!Classify, S!At, S!Is
<1>2. PICK category \in Categories :
          run' = [run EXCEPT ![p].at = "keep", ![p].category = category]
  BY DEF S!Classify
<1>3. run'[p] = [run[p] EXCEPT !.at = "keep", !.category = category]
  BY <1>2 DEF SourcersInv
<1>4. run'[p] \in Running
  BY <1>1, <1>3 DEF Running, Stages
<1>5. Others(p)
  BY <1>2, <1>3, <1>4 DEF Others, SourcersInv
<1>6. Went(run[p], run'[p]) /\ run'[p].at = "keep"
  BY <1>1, <1>3, <1>4 DEF Went, SameRun, Running
<1>7. Turn(p)
  BY <1>1, <1>5, <1>6, WentTurns
<1> QED
  BY <1>1, <1>6, <1>7, QuietFrames DEF S!Classify, FilesInv

LEMMA KeepFrames ==
    ASSUME Sourceable, FilesInv, SourcersInv, NEW p \in A, S!Keep(p)
    PROVE  Framed(p) /\ Ended(p) /\ FilesInv' /\ dataset' = dataset
<1>1. /\ p \in S!Live /\ run[p] \in Running /\ SourcerOK(run[p]) /\ run[p].at = "keep"
      /\ run' = [run EXCEPT ![p].at = "add"]
  BY Alive DEF S!Keep, S!At, S!Goto
<1>2. run'[p] = [run[p] EXCEPT !.at = "add"]
  BY <1>1 DEF SourcersInv
<1>3. run'[p] \in Running
  BY <1>1, <1>2 DEF Running, Stages
<1>4. Others(p)
  BY <1>1, <1>2, <1>3 DEF Others, SourcersInv
<1>5. Went(run[p], run'[p]) /\ run'[p].at = "add"
  BY <1>1, <1>2, <1>3 DEF Went, SameRun, Running
<1>6. Turn(p)
  BY <1>1, <1>4, <1>5, WentTurns
<1>7. run[p].doc \in S!Documents
  BY <1>1 DEF SourcerOK, AtOK, Running
<1>8. /\ documents' \in [S!Documents -> {"none", "full", "bare", "errmsg", Torn}]
      /\ documents'[run[p].doc] = "bare"
      /\ \A d \in S!Documents \ {run[p].doc} : documents'[d] = documents[d]
  BY <1>7 DEF S!Keep, FilesInv
<1>9. Leaves(p) /\ Ended(p)
  BY <1>1 DEF S!Keep, Leaves, Ended, S!At
<1>10. Files(p)
  BY <1>1, <1>5, <1>7, <1>8 DEF Files, S!At, Went
<1>11. Pays(p)
  BY <1>1, <1>5, <1>8 DEF S!Keep, Pays, S!At
<1> QED
  BY <1>6, <1>8, <1>9, <1>10, <1>11 DEF Framed, FilesInv, S!Keep

(* A process that ends. *)
LEMMA EndTurns ==
    ASSUME SourcersInv, NEW p \in S!Live, run' = [run EXCEPT ![p] = S!Off]
    PROVE  Turn(p) /\ run'[p] = S!Off /\ run'[p].at = "off"
<1>1. p \in A
  BY DEF S!Live
<1> QED
  BY <1>1 DEF Turn, Others, SourcersInv, S!Off

LEMMA WholeNotTorn ==
    ASSUME Sourceable, NEW cs
    PROVE  cs \subseteq S!Cases => [cases |-> cs] \in S!Whole /\ [cases |-> cs] # Torn
BY DEF Sourceable, S!TornAssumption, S!Whole

LEMMA DropsAreLeft ==
    ASSUME Sourceable, FilesInv, NEW cs \in SUBSET S!Cases, NEW unseen \in SUBSET S!Documents,
           S!WriteDataset(cs, unseen)
    PROVE  /\ leftover \cup unseen \subseteq leftover' /\ leftover' \subseteq S!Documents
           /\ Names(dataset) \ Names(dataset') \subseteq leftover'
           /\ dataset' = [cases |-> cs] /\ Names(dataset') = S!Named(cs)
           /\ dataset' \in S!Whole
<1>1. dataset' = [cases |-> cs] /\ leftover' = leftover \cup S!Dropped(cs) \cup unseen
  BY DEF S!WriteDataset
<1>2. dataset' \in S!Whole /\ dataset' # Torn
  BY <1>1, WholeNotTorn
<1>3. Names(dataset') = S!Named(cs)
  BY <1>1, <1>2 DEF Names
<1>4. Names(dataset) \subseteq S!Documents
  BY DEF Names, S!Named, FilesInv, S!Whole, S!Cases
<1>5. S!Dropped(cs) = Names(dataset) \ S!Named(cs)
  BY DEF S!Dropped, Names
<1> QED
  BY <1>1, <1>2, <1>3, <1>4, <1>5 DEF FilesInv

LEMMA AddFrames ==
    ASSUME Sourceable, FilesInv, SourcersInv, NEW p \in A, S!Add(p)
    PROVE  /\ Framed(p) /\ FilesInv' /\ run[p].at = "add"
           /\ dataset' = [cases |-> run[p].cases \cup {CaseOf(run[p])}]
           /\ run'[p].cases = run[p].cases \cup {CaseOf(run[p])}
           /\ SourcerOK(run'[p]) /\ SourcerOK(run[p])
<1>1. /\ p \in S!Live /\ run[p].at = "add" /\ S!GoOn(p, run[p].cases \cup {CaseOf(run[p])})
      /\ S!WriteDataset(run[p].cases \cup {CaseOf(run[p])}, IF run[p].met THEN {run[p].doc} ELSE {})
      /\ UNCHANGED <<corpus, documents, blocked, archives, bad, starts, kills, paid, wasted>>
      /\ run[p] \in Running /\ SourcerOK(run[p])
  BY Alive DEF S!Add, S!At, S!Case, CaseOf, S!Is
<1>2. /\ Turn(p) /\ SourcerOK(run'[p]) /\ run'[p].at = "next"
      /\ run'[p].cases = run[p].cases \cup {CaseOf(run[p])}
      /\ run[p].cases \cup {CaseOf(run[p])} \subseteq S!Cases
  BY <1>1, OnwardFrames
<1>3. run[p].doc \in S!Documents /\ run[p].doc # None /\ run[p].script \notin {"paid", "ingest"}
  BY <1>1 DEF SourcerOK, AtOK, Running
<1>4. /\ leftover \subseteq leftover' /\ leftover' \subseteq S!Documents
      /\ (run[p].met => run[p].doc \in leftover')
      /\ Names(dataset) \ Names(dataset') \subseteq leftover'
      /\ dataset' = [cases |-> run[p].cases \cup {CaseOf(run[p])}] /\ dataset' \in S!Whole
      /\ Names(dataset') = S!Named(run[p].cases \cup {CaseOf(run[p])})
  <2> DEFINE unseen == IF run[p].met THEN {run[p].doc} ELSE {}
             cs == run[p].cases \cup {CaseOf(run[p])}
  <2>1. unseen \in SUBSET S!Documents /\ (run[p].met => run[p].doc \in unseen)
    BY <1>3
  <2>2. cs \in SUBSET S!Cases /\ S!WriteDataset(cs, unseen)
    BY <1>1, <1>2
  <2> HIDE DEF unseen, cs
  <2>3. /\ leftover \cup unseen \subseteq leftover' /\ leftover' \subseteq S!Documents
        /\ Names(dataset) \ Names(dataset') \subseteq leftover'
        /\ dataset' = [cases |-> cs] /\ Names(dataset') = S!Named(cs)
        /\ dataset' \in S!Whole
    BY <2>1, <2>2, DropsAreLeft
  <2> QED
    BY <2>1, <2>3 DEF cs
<1>5. run[p].doc \in Names(dataset')
  <2>1. CaseOf(run[p]).id = run[p].doc
    BY <1>3 DEF CaseOf
  <2> QED
    BY <1>3, <1>4, <2>1 DEF S!Named
<1>6. Leaves(p)
  BY <1>1, <1>4, <1>5 DEF Leaves, Ended, S!At
<1>7. Files(p) /\ Pays(p)
  BY <1>1, <1>2 DEF Files, Pays, S!At
<1> QED
  BY <1>1, <1>2, <1>4, <1>6, <1>7 DEF Framed, FilesInv

LEMMA FinishFrames ==
    ASSUME Sourceable, FilesInv, SourcersInv, NEW p \in A, S!Finish(p)
    PROVE  /\ Framed(p) /\ Ended(p) /\ FilesInv' /\ run'[p] = S!Off
           /\ \/ dataset' = dataset
              \/ /\ dataset' = [cases |-> run[p].cases]
                 /\ run[p].script = "paid" /\ SourcerOK(run[p])
<1>1. /\ p \in S!Live /\ run[p].at = "next" /\ run' = [run EXCEPT ![p] = S!Off]
      /\ UNCHANGED <<corpus, documents, blocked, archives, bad, starts, kills, paid, wasted>>
      /\ run[p] \in Running /\ SourcerOK(run[p])
  BY Alive DEF S!Finish, S!At
<1>2. Turn(p) /\ run'[p] = S!Off /\ run'[p].at = "off"
  BY <1>1, EndTurns
<1>3. Files(p) /\ Pays(p) /\ Ended(p)
  BY <1>1, <1>2 DEF Files, Pays, Ended, S!At
<1>4. CASE run[p].script = "paid" /\ S!WriteDataset(run[p].cases, {})
  <2>1. run[p].cases \in SUBSET S!Cases
    BY <1>1 DEF Running
  <2>2. /\ leftover \subseteq leftover' /\ leftover' \subseteq S!Documents
        /\ Names(dataset) \ Names(dataset') \subseteq leftover'
        /\ dataset' = [cases |-> run[p].cases] /\ dataset' \in S!Whole
    <3> DEFINE unseen == {}
    <3>1. unseen \in SUBSET S!Documents /\ S!WriteDataset(run[p].cases, unseen)
      BY <1>4
    <3> HIDE DEF unseen
    <3> QED
      BY <2>1, <3>1, DropsAreLeft
  <2> QED
    BY <1>1, <1>2, <1>3, <1>4, <2>2 DEF Framed, Leaves, FilesInv
<1>5. CASE UNCHANGED <<dataset, leftover>>
  BY <1>1, <1>2, <1>3, <1>5 DEF Framed, Leaves, FilesInv
<1> QED
  BY <1>4, <1>5 DEF S!Finish, S!Is

LEMMA KillFrames ==
    ASSUME Sourceable, FilesInv, SourcersInv, NEW p \in A, S!Kill(p)
    PROVE  Framed(p) /\ Ended(p) /\ FilesInv' /\ dataset' = dataset
<1>1. /\ p \in S!Live /\ kills < MaxKills /\ run' = [run EXCEPT ![p] = S!Off] /\ kills' = kills + 1
      /\ UNCHANGED <<dataset, corpus, documents, blocked, archives, bad, starts, paid>>
      /\ wasted' = IF S!At(p, "write") THEN wasted \cup {run[p].doc} ELSE wasted
      /\ leftover' = IF S!At(p, "add") THEN leftover \cup {run[p].doc} ELSE leftover
  BY DEF S!Kill, S!Ends
<1>2. Turn(p) /\ run'[p] = S!Off /\ run'[p].at = "off"
  BY <1>1, EndTurns
<1>3. run[p] \in Running /\ SourcerOK(run[p])
  BY <1>1, Alive DEF S!Live
<1>4. /\ S!At(p, "add") => run[p].doc \in S!Documents
      /\ S!At(p, "write") => run[p].doc \in Judgments
  BY <1>3 DEF SourcerOK, AtOK, PoolOK, Running, S!At
<1>5. /\ leftover \subseteq leftover' /\ leftover' \subseteq S!Documents
      /\ S!At(p, "add") => run[p].doc \in leftover'
  BY <1>1, <1>4 DEF FilesInv
<1>6. /\ wasted' \subseteq Judgments /\ wasted \subseteq wasted'
      /\ S!At(p, "write") => run[p].doc \in wasted'
  BY <1>1, <1>4 DEF FilesInv
<1>7. Leaves(p) /\ Ended(p) /\ Files(p)
  BY <1>1, <1>5 DEF Leaves, Ended, Files
<1>8. Pays(p)
  BY <1>1, <1>2, <1>6 DEF Pays
<1>9. kills' \in 0 .. MaxKills
  BY <1>1 DEF FilesInv, Sourceable, S!BoundsAssumption
<1> QED
  BY <1>1, <1>2, <1>5, <1>6, <1>7, <1>8, <1>9 DEF Framed, FilesInv

LEMMA TearDocumentFrames ==
    ASSUME Sourceable, FilesInv, SourcersInv, NEW p \in A, S!TearDocument(p)
    PROVE  Framed(p) /\ Ended(p) /\ FilesInv' /\ dataset' = dataset
<1>1. /\ p \in S!Live /\ run[p].at \in {"write", "keep"} /\ kills < MaxKills
      /\ run' = [run EXCEPT ![p] = S!Off] /\ kills' = kills + 1
      /\ UNCHANGED <<dataset, corpus, blocked, archives, bad, starts, paid, wasted, leftover>>
      /\ documents' = [documents EXCEPT ![run[p].doc] = Torn]
      /\ run[p] \in Running /\ SourcerOK(run[p])
  BY Alive DEF S!TearDocument, S!Ends, S!At
<1>2. Turn(p) /\ run'[p] = S!Off /\ run'[p].at = "off"
  BY <1>1, EndTurns
<1>3. run[p].doc \in S!Documents
  BY <1>1 DEF SourcerOK, AtOK, Running
<1>4. /\ documents' \in [S!Documents -> {"none", "full", "bare", "errmsg", Torn}]
      /\ documents'[run[p].doc] = Torn /\ Torn # "none"
      /\ \A d \in S!Documents \ {run[p].doc} : documents'[d] = documents[d]
  BY <1>1, <1>3 DEF FilesInv, Sourceable, S!TornAssumption
<1>5. Leaves(p) /\ Ended(p)
  BY <1>1 DEF Leaves, Ended, S!At
<1>6. Files(p)
  BY <1>1, <1>2, <1>4 DEF Files, S!At, Fetches
<1>7. Pays(p)
  BY <1>1, <1>2, <1>4 DEF Pays, S!At
<1>8. kills' \in 0 .. MaxKills
  BY <1>1 DEF FilesInv, Sourceable, S!BoundsAssumption
<1> QED
  BY <1>1, <1>2, <1>4, <1>5, <1>6, <1>7, <1>8 DEF Framed, FilesInv

LEMMA TearDatasetFrames ==
    ASSUME Sourceable, FilesInv, SourcersInv, NEW p \in A, S!TearDataset(p)
    PROVE  Framed(p) /\ Ended(p) /\ FilesInv' /\ dataset' = Torn
<1>1. /\ p \in S!Live /\ run[p].at \in {"next", "add"} /\ kills < MaxKills
      /\ run' = [run EXCEPT ![p] = S!Off] /\ kills' = kills + 1
      /\ UNCHANGED <<corpus, documents, blocked, archives, bad, starts, paid, wasted>>
      /\ dataset' = Torn
      /\ leftover' = leftover \cup S!Dropped({}) \cup IF S!At(p, "add") THEN {run[p].doc} ELSE {}
      /\ run[p] \in Running /\ SourcerOK(run[p])
  BY Alive DEF S!TearDataset, S!Ends, S!At
<1>2. Turn(p) /\ run'[p] = S!Off /\ run'[p].at = "off"
  BY <1>1, EndTurns
<1>3. S!At(p, "add") => run[p].doc \in S!Documents
  BY <1>1 DEF SourcerOK, AtOK, Running, S!At
<1>4. S!Dropped({}) = Names(dataset) /\ Names(dataset) \subseteq S!Documents
  BY DEF S!Dropped, Names, S!Named, FilesInv, S!Whole, S!Cases
<1>5. /\ leftover \subseteq leftover' /\ leftover' \subseteq S!Documents
      /\ Names(dataset) \subseteq leftover'
      /\ S!At(p, "add") => run[p].doc \in leftover'
  BY <1>1, <1>3, <1>4 DEF FilesInv
<1>6. Leaves(p) /\ Ended(p) /\ Files(p)
  BY <1>1, <1>5 DEF Leaves, Ended, Files
<1>7. Pays(p)
  BY <1>1, <1>2 DEF Pays, S!At
<1>8. kills' \in 0 .. MaxKills
  BY <1>1 DEF FilesInv, Sourceable, S!BoundsAssumption
<1> QED
  BY <1>1, <1>2, <1>5, <1>6, <1>7, <1>8 DEF Framed, FilesInv

LEMMA TearCorpusFrames ==
    ASSUME Sourceable, FilesInv, SourcersInv, NEW p \in A, S!TearCorpus(p)
    PROVE  Framed(p) /\ Ended(p) /\ FilesInv' /\ dataset' = dataset
<1>1. /\ p \in S!Live /\ run[p].at = "extract" /\ kills < MaxKills
      /\ run' = [run EXCEPT ![p] = S!Off] /\ kills' = kills + 1 /\ corpus' = Torn
      /\ UNCHANGED <<dataset, documents, blocked, archives, bad, starts, paid, wasted, leftover>>
  BY Alive DEF S!TearCorpus, S!Ends, S!At
<1>2. Turn(p) /\ run'[p] = S!Off /\ run'[p].at = "off"
  BY <1>1, EndTurns
<1>3. Framed(p) /\ Ended(p)
  BY <1>1, <1>2, QuietFrames
<1>4. kills' \in 0 .. MaxKills
  BY <1>1 DEF FilesInv, Sourceable, S!BoundsAssumption
<1> QED
  BY <1>1, <1>3, <1>4 DEF FilesInv

(* Any of them. *)
Works(p) ==
    S!Step(p) \/ S!Kill(p) \/ S!TearDocument(p) \/ S!TearDataset(p) \/ S!TearCorpus(p)
Rewrites(p) == S!Add(p) \/ S!Finish(p)

LEMMA WorkFrames ==
    ASSUME Sourceable, FilesInv, SourcersInv, NEW p \in A, Works(p)
    PROVE  /\ Framed(p) /\ FilesInv'
           /\ Rewrites(p) \/ (Ended(p) /\ dataset' \in {dataset, Torn})
<1>1. CASE \E category \in Categories : S!Search(p, category)
  BY <1>1, SearchFrames
<1>2. CASE S!NextDocument(p)
  BY <1>2, NextDocumentFrames
<1>3. CASE S!NoDocument(p) \/ S!Reject(p)
  BY <1>3, GoneOnFrames
<1>4. CASE S!Pay(p)
  BY <1>4, PayFrames
<1>5. CASE S!WriteDocument(p)
  BY <1>5, WriteDocumentFrames
<1>6. CASE S!Download(p)
  BY <1>6, DownloadFrames
<1>7. CASE S!Extract(p)
  BY <1>7, ExtractFrames
<1>8. CASE S!Classify(p)
  BY <1>8, ClassifyFrames
<1>9. CASE S!Keep(p)
  BY <1>9, KeepFrames
<1>10. CASE S!Add(p)
  BY <1>10, AddFrames DEF Rewrites
<1>11. CASE S!Finish(p)
  BY <1>11, FinishFrames DEF Rewrites
<1>12. CASE S!Kill(p)
  BY <1>12, KillFrames
<1>13. CASE S!TearDocument(p)
  BY <1>13, TearDocumentFrames
<1>14. CASE S!TearDataset(p)
  BY <1>14, TearDatasetFrames
<1>15. CASE S!TearCorpus(p)
  BY <1>15, TearCorpusFrames
<1> QED
  BY <1>1, <1>2, <1>3, <1>4, <1>5, <1>6, <1>7, <1>8, <1>9, <1>10, <1>11, <1>12, <1>13, <1>14,
     <1>15 DEF Works, S!Step

-----------------------------------------------------------------------------
(* Each part of the invariant, from the frames. *)
LEMMA SourcersStay ==
    ASSUME SourcersInv, CrossedInv, NEW p, Turn(p)
    PROVE  SourcersInv' /\ CrossedInv' /\ S!Live' \subseteq S!Live
<1>1. /\ p \in A /\ run' \in [A -> Running \cup {S!Off}]
      /\ \A q \in A \ {p} : run'[q] = run[q]
      /\ run'[p] = S!Off \/ (SourcerOK(run'[p]) /\ run'[p].met = run[p].met)
  BY DEF Turn, Others, S!Live, SameRun
<1>2. S!Live' = {q \in A : run'[q].at # "off"}
  BY DEF S!Live, S!At
<1>3. S!Live = {q \in A : run[q].at # "off"}
  BY DEF S!Live, S!At
<1>4. S!Off.at = "off"
  BY DEF S!Off
<1>5. S!Live' \subseteq S!Live
  BY <1>1, <1>2, <1>3 DEF Turn
<1>6. ASSUME NEW q \in S!Live' PROVE SourcerOK(run'[q]) /\ run'[q].met = run[q].met
  BY <1>1, <1>2, <1>3, <1>4, <1>5, <1>6 DEF SourcersInv
<1>7. SourcersInv'
  BY <1>1, <1>6 DEF SourcersInv
<1>8. CrossedInv'
  BY <1>5, <1>6 DEF CrossedInv
<1> QED
  BY <1>5, <1>7, <1>8

(* What is kept for a case stays so, but for the case that is being added.   *)
LEMMA KeptStays ==
    ASSUME CrossedInv, NEW p, Turn(p), Leaves(p), NEW q \in S!Live, NEW d, KeptBut(q, d)
    PROVE  KeptBut(q, d)'
<1>1. CASE d \in leftover
  BY <1>1 DEF Leaves, KeptBut
<1>2. CASE d \notin leftover
  <2>1. PICK o \in A : o # q /\ run[o].at = "add" /\ run[o].doc = d
    BY <1>2 DEF KeptBut, S!At
  <2>2. CASE o # p
    <3>1. run'[o] = run[o]
      BY <2>2 DEF Turn, Others
    <3> QED
      BY <2>1, <3>1 DEF KeptBut, S!At
  <2>3. CASE o = p
    <3>1. run[p].met
      BY <2>1, <2>3 DEF CrossedInv, Turn
    <3>2. Ended(p)
      BY <3>1 DEF Leaves
    <3>3. (run'[p].at = "add" /\ run'[p].doc = d) \/ d \in leftover'
      BY <2>1, <2>3, <3>2 DEF Ended, S!At
    <3> QED
      BY <2>1, <2>3, <3>3 DEF KeptBut, S!At
  <2> QED
    BY <2>2, <2>3
<1> QED
  BY <1>1, <1>2

LEMMA KeptByAll ==
    ASSUME NEW p, Turn(p), Leaves(p), Ended(p), NEW d, Kept(d)
    PROVE  Kept(d)'
<1>1. CASE d \in leftover
  BY <1>1 DEF Leaves, Kept
<1>2. CASE d \notin leftover
  <2>1. PICK o \in A : run[o].at = "add" /\ run[o].doc = d
    BY <1>2 DEF Kept, S!At
  <2>2. CASE o # p
    <3>1. run'[o] = run[o]
      BY <2>2 DEF Turn, Others
    <3> QED
      BY <2>1, <3>1 DEF Kept, S!At
  <2>3. CASE o = p
    BY <2>1, <2>3 DEF Ended, Kept, S!At
  <2> QED
    BY <2>2, <2>3
<1> QED
  BY <1>1, <1>2

LEMMA BareStays ==
    ASSUME Sourceable, BareInv, NEW p, Turn(p), Leaves(p), Files(p)
    PROVE  BareInv'
<1> SUFFICES ASSUME NEW d \in S!Documents, documents'[d] = "bare"
             PROVE  Kept(d)' \/ d \in Names(dataset')
  BY DEF BareInv, Names
<1>1. CASE documents'[d] = documents[d]
  <2>1. Kept(d) \/ d \in Names(dataset)
    BY <1>1 DEF BareInv
  <2>2. CASE d \in Names(dataset)
    BY <2>2 DEF Leaves, Kept
  <2>3. CASE Kept(d) /\ Ended(p)
    BY <2>3, KeptByAll
  <2>4. CASE Kept(d) /\ ~Ended(p)
    <3>1. run[p].doc \in Names(dataset')
      BY <2>4 DEF Leaves
    <3>2. CASE d = run[p].doc
      BY <3>1, <3>2
    <3>3. CASE d # run[p].doc
      <4>1. CASE d \in leftover
        BY <4>1 DEF Leaves, Kept
      <4>2. CASE d \notin leftover
        <5>1. PICK o \in A : run[o].at = "add" /\ run[o].doc = d
          BY <2>4, <4>2 DEF Kept, S!At
        <5>2. run'[o] = run[o]
          BY <3>3, <5>1 DEF Turn, Others
        <5> QED
          BY <5>1, <5>2 DEF Kept, S!At
      <4> QED
        BY <4>1, <4>2
    <3> QED
      BY <3>2, <3>3
  <2> QED
    BY <2>1, <2>2, <2>3, <2>4
<1>2. CASE documents'[d] # documents[d]
  <2>1. run'[p].at = "add" /\ run'[p].doc = d
    BY <1>2 DEF Files, Sourceable, S!TornAssumption
  <2>2. p \in A
    BY DEF Turn, S!Live
  <2> QED
    BY <2>1, <2>2 DEF Kept, S!At
<1> QED
  BY <1>1, <1>2

(* A file that became, or stayed, a text without an id. *)
LEMMA BareBefore ==
    ASSUME Sourceable, NEW p, Files(p), NEW d \in S!Documents, documents'[d] = "bare"
    PROVE  documents[d] = "bare" \/ (run'[p].at = "add" /\ run'[p].doc = d)
BY DEF Files, Sourceable, S!TornAssumption

LEMMA SeenStays ==
    ASSUME Sourceable, SourcersInv, CrossedInv, SeenInv, NEW p, Turn(p), Leaves(p), Files(p)
    PROVE  SeenInv'
<1>1. p \in S!Live /\ p \in A /\ S!Live' \subseteq S!Live
  BY SourcersStay DEF Turn, S!Live
<1> SUFFICES ASSUME NEW q \in S!Live', NEW d \in S!Documents, documents'[d] = "bare",
                    Sees(run'[q], d)
             PROVE  KeptBut(q, d)'
  BY DEF SeenInv
<1>2. q \in S!Live /\ q \in A
  BY <1>1 DEF S!Live
<1>3. CASE q # p
  <2>1. run'[q] = run[q]
    BY <1>2, <1>3 DEF Turn, Others
  <2>2. CASE documents[d] = "bare"
    BY <1>2, <2>1, <2>2, KeptStays DEF SeenInv
  <2>3. CASE run'[p].at = "add" /\ run'[p].doc = d
    BY <1>1, <1>3, <2>3 DEF KeptBut, S!At
  <2> QED
    BY <2>2, <2>3, BareBefore
<1>4. CASE q = p
  <2>1. run'[p].at # "off"
    BY <1>4 DEF S!Live, S!At
  <2>2. SourcerOK(run'[p]) /\ Reads(run[p], run'[p], documents)
    BY <2>1 DEF Turn, S!Off
  <2>3. CASE documents[d] = "bare"
    <3>1. Sees(run[p], d)
      BY <1>4, <2>2, <2>3 DEF Reads
    <3> QED
      BY <1>2, <1>4, <2>3, <3>1, KeptStays DEF SeenInv
  <2>4. CASE run'[p].at = "add"
    BY <1>4, <2>2, <2>4 DEF Sees, Fetches, SourcerOK, AtOK
  <2> QED
    BY <2>3, <2>4, BareBefore
<1> QED
  BY <1>3, <1>4

(* A text of a case that the dataset has and a run that starts over has not. *)
LEMMA LostStays ==
    ASSUME Sourceable, NEW p, Turn(p), Leaves(p), Files(p),
           NEW q \in S!Live, q \in S!Live', NEW d \in S!Documents, LostTo(q, d)
    PROVE  KeptBut(q, d)' \/ LostTo(q, d)'
<1>1. p \in A /\ q \in A
  BY DEF Turn, S!Live
<1>2. /\ run[q].script = "paid" /\ run[q].fresh /\ d \in Names(dataset) /\ d \notin Full(run[q])
      /\ documents[d] \in {"bare", Torn} /\ Torn \notin {"none", "full", "bare", "errmsg"}
      /\ \A o \in A : ~Fetches(run[o], d)
  BY DEF LostTo, Sourceable, S!TornAssumption
<1>3. CASE d \notin Names(dataset')
  BY <1>2, <1>3 DEF Leaves, KeptBut
<1>4. CASE d \in Names(dataset')
  <2>1. run'[p] = S!Off \/ (SameRun(run[p], run'[p]) /\ Reads(run[p], run'[p], documents))
    BY DEF Turn
  <2>2. \A o \in A \ {p} : run'[o] = run[o]
    BY DEF Turn, Others
  <2>3. q = p => run'[p] # S!Off
    BY DEF S!Live, S!At, S!Off
  <2>4. run'[q].script = "paid" /\ run'[q].fresh
    BY <1>1, <1>2, <2>1, <2>2, <2>3 DEF SameRun
  <2>5. d \notin Full(run'[q])
    <3>1. CASE q # p
      BY <1>1, <1>2, <2>2, <3>1
    <3>2. CASE q = p
      BY <1>1, <1>2, <2>1, <2>3, <3>2 DEF Reads
    <3> QED
      BY <3>1, <3>2
  <2>6. documents'[d] \in {"bare", Torn}
    BY <1>1, <1>2 DEF Files, Fetches, S!At
  <2>7. ASSUME NEW o \in A PROVE ~Fetches(run'[o], d)
    <3>1. CASE o # p
      BY <1>2, <2>2, <3>1
    <3>2. CASE o = p /\ run'[p] = S!Off
      BY <3>2 DEF Fetches, S!Off
    <3>3. CASE o = p /\ run'[p] # S!Off
      BY <1>1, <1>2, <2>1, <3>3 DEF Reads
    <3> QED
      BY <3>1, <3>2, <3>3
  <2> QED
    BY <1>4, <2>4, <2>5, <2>6, <2>7 DEF LostTo
<1> QED
  BY <1>3, <1>4

LEMMA HeldStays ==
    ASSUME Sourceable, SourcersInv, CrossedInv, BareInv, SeenInv, HeldInv,
           NEW p, Turn(p), Leaves(p), Files(p)
    PROVE  HeldInv'
<1>1. p \in S!Live /\ p \in A /\ S!Live' \subseteq S!Live /\ SourcersInv'
  BY SourcersStay DEF Turn, S!Live
<1> SUFFICES ASSUME NEW q \in S!Live', run'[q].script \in S!Writers, NEW d \in Bare(run'[q])
             PROVE  KeptBut(q, d)' \/ LostTo(q, d)'
  BY DEF HeldInv
<1>2. q \in S!Live /\ q \in A
  BY <1>1 DEF S!Live
<1>3. ASSUME NEW e \in S!Documents, KeptBut(q, e) \/ LostTo(q, e)
      PROVE  KeptBut(q, e)' \/ LostTo(q, e)'
  BY <1>2, <1>3, KeptStays, LostStays
<1>4. d \in S!Documents
  <2>1. SourcerOK(run'[q])
    BY <1>1 DEF SourcersInv
  <2>2. run'[q].cases \subseteq S!Cases /\ (run'[q].at = "extract" => run'[q].doc \in S!Documents)
    BY <2>1 DEF SourcerOK, AtOK, Running
  <2> QED
    BY <2>2, InBare DEF S!Cases
<1>5. CASE q # p
  <2>1. run'[q] = run[q]
    BY <1>2, <1>5 DEF Turn, Others
  <2> QED
    BY <1>2, <1>3, <1>4, <2>1 DEF HeldInv
<1>6. CASE q = p
  <2>1. run'[p] # S!Off
    BY <1>6 DEF S!Live, S!At, S!Off
  <2>2. SameRun(run[p], run'[p]) /\ Reads(run[p], run'[p], documents)
    BY <2>1 DEF Turn
  <2>3. run[p].script \in S!Writers
    BY <1>6, <2>2 DEF SameRun
  <2>4. CASE d \in Bare(run[p])
    BY <1>1, <1>3, <1>4, <1>6, <2>3, <2>4 DEF HeldInv
  <2>5. CASE /\ run[p].script = "paid" /\ run[p].at = "next" /\ d \in run[p].todo
             /\ documents[d] = "bare"
    <3>1. Sees(run[p], d) => KeptBut(p, d)
      BY <1>1, <1>4, <2>5 DEF SeenInv
    <3>2. CASE ~Sees(run[p], d)
      <4>1. SourcerOK(run[p])
        BY <1>1 DEF SourcersInv
      <4>2. d \notin run[p].known
        BY <2>5, <4>1, <1>4 DEF SourcerOK, CasesOK, PaidOK, PoolOK, Sourceable,
           S!DocumentsAssumption
      <4>3. run[p].fresh /\ d \notin Full(run[p])
        BY <2>5, <3>2, <4>2 DEF Sees
      <4>4. Kept(d) \/ d \in Names(dataset)
        BY <1>4, <2>5 DEF BareInv
      <4>5. CASE Kept(d)
        <5>1. KeptBut(p, d)
          BY <2>5, <4>5 DEF Kept, KeptBut, S!At
        <5> QED
          BY <1>3, <1>4, <1>6, <5>1
      <4>6. CASE d \in Names(dataset)
        <5>1. CASE \E o \in A : Fetches(run[o], d)
          <6>1. PICK o \in A : Fetches(run[o], d)
            BY <5>1
          <6>2. o \in S!Live /\ Sees(run[o], d)
            BY <6>1 DEF Fetches, S!Live, S!At, Sees
          <6>3. KeptBut(o, d)
            BY <1>4, <2>5, <6>2 DEF SeenInv
          <6>4. KeptBut(p, d)
            BY <2>5, <6>3 DEF KeptBut, S!At
          <6> QED
            BY <1>3, <1>4, <1>6, <6>4
        <5>2. CASE \A o \in A : ~Fetches(run[o], d)
          <6>1. LostTo(p, d)
            BY <2>5, <4>3, <4>6, <5>2 DEF LostTo
          <6> QED
            BY <1>3, <1>4, <1>6, <6>1
        <5> QED
          BY <5>1, <5>2
      <4> QED
        BY <4>4, <4>5, <4>6
    <3> QED
      BY <1>3, <1>4, <1>6, <3>1, <3>2
  <2> QED
    BY <1>6, <2>2, <2>3, <2>4, <2>5 DEF Reads
<1> QED
  BY <1>5, <1>6

LEMMA PaidStays ==
    ASSUME Sourceable, FilesInv, SourcersInv, PaidInv, NEW p, Turn(p), Pays(p)
    PROVE  PaidInv'
<1>1. /\ p \in S!Live /\ p \in A /\ run[p] \in Running /\ SourcerOK(run[p])
      /\ \A o \in A \ {p} : run'[o] = run[o]
  BY Alive DEF Turn, Others, S!Live
<1>2. run'[p] = S!Off \/ (SourcerOK(run'[p]) /\ Reads(run[p], run'[p], documents))
  BY DEF Turn
<1> SUFFICES ASSUME NEW d \in Judgments, d \notin wasted'
             PROVE  /\ \A o, q \in A :
                           Fetches(run'[o], d) /\ Fetches(run'[q], d) => o = q
                    /\ \A q \in A : run'[q].at = "pay" /\ run'[q].doc = d => paid'[d] = 0
                    /\ paid'[d] <= 1
                    /\ paid'[d] = 1 =>
                           documents'[d] # "none"
                           \/ \E q \in A : run'[q].at = "write" /\ run'[q].doc = d
  BY DEF PaidInv, S!At
<1>3. d \notin wasted /\ d \in S!Documents /\ paid[d] \in Nat
  BY DEF Pays, S!Documents, FilesInv
<1>4. /\ \A o, q \in A : Fetches(run[o], d) /\ Fetches(run[q], d) => o = q
      /\ \A q \in A : run[q].at = "pay" /\ run[q].doc = d => paid[d] = 0
      /\ paid[d] <= 1
      /\ paid[d] = 1 =>
             documents[d] # "none"
             \/ \E q \in A : run[q].at = "write" /\ run[q].doc = d
  BY <1>3 DEF PaidInv, S!At
<1>5. CASE run'[p].at = "write"
  <2>1. /\ run[p].at = "pay" /\ run'[p].doc = run[p].doc
        /\ paid' = [paid EXCEPT ![run[p].doc] = @ + 1]
    BY <1>5 DEF Pays
  <2>2. CASE run[p].doc = d
    <3>1. paid[d] = 0 /\ paid'[d] = 1
      BY <1>1, <1>4, <2>1, <2>2 DEF FilesInv
    <3>2. \A o \in A : Fetches(run[o], d) => o = p
      BY <1>1, <1>4, <2>1, <2>2 DEF Fetches
    <3>3. \A o \in A : Fetches(run'[o], d) => o = p
      BY <1>1, <3>2
    <3> QED
      BY <1>1, <1>5, <2>1, <2>2, <3>1, <3>3 DEF Fetches
  <2>3. CASE run[p].doc # d
    <3>1. paid'[d] = paid[d] /\ (documents'[d] = "none" => documents[d] = "none")
      BY <1>3, <2>1, <2>3 DEF FilesInv, Pays
    <3>2. ~Fetches(run[p], d) /\ ~Fetches(run'[p], d)
      BY <2>1, <2>3 DEF Fetches
    <3> QED
      BY <1>1, <1>4, <2>1, <2>3, <3>1, <3>2, <1>5 DEF Fetches
  <2> QED
    BY <2>2, <2>3
<1>6. CASE run'[p].at # "write"
  <2>1. paid' = paid
    BY <1>6 DEF Pays
  <2>2. documents'[d] = "none" => documents[d] = "none"
    BY <1>3 DEF Pays
  <2>3. CASE run'[p].at = "pay" /\ run'[p].doc = d
    <3>1. documents[d] = "none" /\ ~S!Fetching(d)
      BY <2>3 DEF Pays
    <3>2. \A o \in A : ~Fetches(run[o], d)
      BY <3>1 DEF S!Fetching, Fetches, S!At
    <3>3. paid[d] = 0
      BY <1>3, <1>4, <3>1, <3>2 DEF Fetches
    <3>4. \A o \in A : Fetches(run'[o], d) => o = p
      BY <1>1, <3>2
    <3> QED
      BY <1>1, <2>1, <3>3, <3>4 DEF Fetches
  <2>4. CASE ~(run'[p].at = "pay" /\ run'[p].doc = d)
    <3>1. ~Fetches(run'[p], d)
      BY <1>6, <2>4 DEF Fetches
    <3>2. run[p].at = "write" /\ run[p].doc = d => documents'[d] # "none"
      BY DEF Pays, S!At
    <3> QED
      BY <1>1, <1>4, <2>1, <2>2, <3>1, <3>2 DEF Fetches
  <2> QED
    BY <2>3, <2>4
<1> QED
  BY <1>5, <1>6

LEMMA DataStays ==
    ASSUME Sourceable, SourcersInv, CrossedInv, DataInv, NEW p, Turn(p), Leaves(p), Ended(p),
           dataset' \in {dataset, Torn}
    PROVE  DataInv'
<1> SUFFICES ASSUME dataset' # Torn
             PROVE  /\ OneCaseOf(dataset'.cases)
                    /\ \A c \in dataset'.cases : c.id = None => Kept(c.of)'
                    /\ \A q \in S!Live' :
                          run'[q].script \in S!Writers /\ ~run'[q].fresh /\ ~run'[q].met =>
                              S!Named(dataset'.cases) \subseteq S!Named(run'[q].cases)
  BY DEF DataInv
<1>1. /\ dataset' = dataset /\ OneCaseOf(dataset.cases)
      /\ \A c \in dataset.cases : c.id = None => Kept(c.of)
      /\ \A q \in S!Live :
             run[q].script \in S!Writers /\ ~run[q].fresh /\ ~run[q].met =>
                 S!Named(dataset.cases) \subseteq S!Named(run[q].cases)
  BY DEF DataInv
<1>2. \A c \in dataset.cases : c.id = None => Kept(c.of)'
  BY <1>1, KeptByAll
<1>3. ASSUME NEW q \in S!Live', run'[q].script \in S!Writers, ~run'[q].fresh, ~run'[q].met
      PROVE  S!Named(dataset.cases) \subseteq S!Named(run'[q].cases)
  <2>1. q \in S!Live /\ q \in A
    BY <1>3, SourcersStay DEF S!Live
  <2>2. CASE q # p
    BY <1>1, <1>3, <2>1, <2>2 DEF Turn, Others
  <2>3. CASE q = p
    <3>1. run'[p] # S!Off
      BY <1>3, <2>3 DEF S!Live, S!At, S!Off
    <3>2. SameRun(run[p], run'[p]) /\ run[p].cases \subseteq run'[p].cases
      BY <3>1 DEF Turn, Reads
    <3> QED
      BY <1>1, <1>3, <2>1, <2>3, <3>2 DEF SameRun, S!Named
  <2> QED
    BY <2>2, <2>3
<1> QED
  BY <1>1, <1>2, <1>3

LEMMA DataWritten ==
    ASSUME Sourceable, SourcersInv, CrossedInv, HeldInv, NEW p, Turn(p), Leaves(p),
           NEW cs \in SUBSET S!Cases, dataset' = [cases |-> cs], run[p].script \in S!Writers,
           OneCaseOf(cs), run'[p] = S!Off \/ run'[p].cases = cs,
           \A c \in cs : c.id = None => c \in run[p].cases,
           run[p].script = "paid" => cs = run[p].cases
    PROVE  DataInv'
<1>1. /\ p \in S!Live /\ p \in A /\ S!Live' \subseteq S!Live
      /\ \A o \in A \ {p} : run'[o] = run[o]
  BY SourcersStay DEF Turn, S!Live, Others
<1>2. Names(dataset') = S!Named(cs) /\ dataset'.cases = cs
  BY WholeNotTorn DEF Names
<1>3. ASSUME NEW c \in cs, c.id = None
      PROVE  Kept(c.of)'
  <2>1. c.of \in Bare(run[p])
    BY <1>3, InBare
  <2>2. CASE KeptBut(p, c.of)
    <3>1. KeptBut(p, c.of)'
      BY <1>1, <2>2, KeptStays
    <3> QED
      BY <3>1 DEF KeptBut, Kept
  <2>3. CASE LostTo(p, c.of)
    <3>1. c.of \in Names(dataset) /\ c.of \notin Full(run[p]) /\ cs = run[p].cases
      BY <2>3 DEF LostTo
    <3>2. c.of \notin S!Named(cs)
      BY <3>1, InFull
    <3> QED
      BY <1>2, <3>1, <3>2 DEF Leaves, Kept
  <2> QED
    BY <1>1, <2>1, <2>2, <2>3 DEF HeldInv
<1>4. ASSUME NEW q \in S!Live', ~run'[q].met
      PROVE  cs \subseteq run'[q].cases
  <2>1. CASE q # p
    BY <1>1, <1>4, <2>1 DEF CrossedInv, S!Live
  <2>2. CASE q = p
    <3>1. run'[p] # S!Off
      BY <1>4, <2>2 DEF S!Live, S!At, S!Off
    <3> QED
      BY <2>2, <3>1
  <2> QED
    BY <2>1, <2>2
<1> QED
  BY <1>2, <1>3, <1>4 DEF DataInv, S!Named

LEMMA DataRewritten ==
    ASSUME Sourceable, FilesInv, SourcersInv, CrossedInv, HeldInv, DataInv, NEW p \in A, Rewrites(p)
    PROVE  DataInv'
<1>1. CASE S!Add(p)
  <2>1. /\ Turn(p) /\ Leaves(p) /\ run[p].at = "add"
        /\ dataset' = [cases |-> run[p].cases \cup {CaseOf(run[p])}]
        /\ run'[p].cases = run[p].cases \cup {CaseOf(run[p])}
        /\ SourcerOK(run'[p]) /\ SourcerOK(run[p])
    BY <1>1, AddFrames DEF Framed
  <2>2. run[p].script \in {"free", "district"} /\ run[p].doc # None
    BY <2>1 DEF SourcerOK, AtOK
  <2>3. CaseOf(run[p]).id # None
    BY <2>2 DEF CaseOf
  <2>4. run'[p].script = run[p].script
    <3>1. run'[p] # S!Off
      BY <2>1, Alive, OffOrRunning DEF SourcerOK, Running, Stages
    <3> QED
      BY <2>1, <3>1 DEF Turn, SameRun
  <2>5. OneCaseOf(run'[p].cases) /\ run'[p].cases \in SUBSET S!Cases
    BY <2>1, <2>2, <2>4 DEF SourcerOK, CasesOK, Running, S!Writers
  <2> DEFINE cs == run'[p].cases
  <2>6. /\ cs \in SUBSET S!Cases /\ dataset' = [cases |-> cs] /\ OneCaseOf(cs)
        /\ \A c \in cs : c.id = None => c \in run[p].cases
    BY <2>1, <2>3, <2>5
  <2> QED
    BY <2>1, <2>2, <2>6, DataWritten DEF S!Writers
<1>2. CASE S!Finish(p)
  <2>1. /\ Turn(p) /\ Leaves(p) /\ Ended(p) /\ run'[p] = S!Off
        /\ \/ dataset' = dataset
           \/ /\ dataset' = [cases |-> run[p].cases]
              /\ run[p].script = "paid" /\ SourcerOK(run[p])
    BY <1>2, FinishFrames DEF Framed
  <2>2. CASE dataset' = dataset
    BY <2>1, <2>2, DataStays
  <2>3. CASE dataset' = [cases |-> run[p].cases] /\ run[p].script = "paid" /\ SourcerOK(run[p])
    <3> DEFINE cs == run[p].cases
    <3>1. /\ cs \in SUBSET S!Cases /\ OneCaseOf(cs) /\ run[p].script \in S!Writers
          /\ \A c \in cs : c.id = None => c \in run[p].cases
      BY <2>3 DEF SourcerOK, CasesOK, Running, S!Writers
    <3> QED
      BY <2>1, <2>3, <3>1, DataWritten
  <2> QED
    BY <2>1, <2>2, <2>3
<1> QED
  BY <1>1, <1>2 DEF Rewrites

LEMMA WorkKeeps ==
    ASSUME Sourceable, SourcingInv, NEW p \in A, Works(p)
    PROVE  SourcingInv'
<1>1. /\ FilesInv /\ SourcersInv /\ CrossedInv /\ PaidInv /\ BareInv /\ SeenInv /\ HeldInv
      /\ DataInv
  BY DEF SourcingInv
<1>2. /\ Turn(p) /\ Leaves(p) /\ Files(p) /\ Pays(p) /\ FilesInv'
      /\ Rewrites(p) \/ (Ended(p) /\ dataset' \in {dataset, Torn})
  BY <1>1, WorkFrames DEF Framed
<1>3. SourcersInv' /\ CrossedInv' /\ BareInv' /\ SeenInv' /\ HeldInv' /\ PaidInv'
  BY <1>1, <1>2, SourcersStay, BareStays, SeenStays, HeldStays, PaidStays
<1>4. DataInv'
  BY <1>1, <1>2, DataStays, DataRewritten
<1> QED
  BY <1>2, <1>3, <1>4 DEF SourcingInv

-----------------------------------------------------------------------------
(* A run that begins, and a case that a reviewer removes.                    *)
NewRun(r, script, cases, fresh, met) ==
    r = [at |-> "next", script |-> script, cases |-> cases,
         known |-> S!Known(cases), todo |-> S!Pool(script, S!Known(cases)),
         left |-> IF script = "paid" THEN Categories ELSE {},
         category |-> None, doc |-> None, shape |-> "none", bad |-> bad,
         fresh |-> fresh, met |-> met]
Opens(script, fresh, cases) ==
    LET file == IF script = "ingest" THEN corpus ELSE dataset IN
    /\ fresh => script \in {"paid", "ingest"}
    /\ fresh \/ file # Torn
    /\ cases \in IF fresh THEN {{}} ELSE S!Loaded(script, file)

LEMMA NewRunOK ==
    ASSUME Sourceable, FilesInv, DataInv, NEW script \in S!Scripts, NEW fresh \in BOOLEAN,
           NEW met \in BOOLEAN, NEW cases, Opens(script, fresh, cases),
           NEW r, NewRun(r, script, cases, fresh, met)
    PROVE  /\ SourcerOK(r)
           /\ fresh => cases = {}
           /\ ~fresh /\ script \in S!Writers => dataset # Torn /\ cases = dataset.cases
<1>1. S!Documents = Judgments \cup Orders /\ None \notin S!Documents /\ Mirror \subseteq Judgments
  BY DEF Sourceable, S!DocumentsAssumption, S!Documents
<1>2. fresh => cases = {} /\ script \in {"paid", "ingest"}
  BY DEF Opens
<1>3. ~fresh /\ script # "ingest" => dataset # Torn /\ cases = dataset.cases
  BY DEF Opens, S!Loaded
<1>4. cases \subseteq S!Cases
  <2>1. CASE fresh
    BY <1>2, <2>1
  <2>2. CASE ~fresh /\ script # "ingest"
    BY <1>3, <2>2 DEF FilesInv, S!Whole
  <2>3. CASE ~fresh /\ script = "ingest"
    <3>1. corpus.cases \subseteq S!Cases
      BY <2>3 DEF Opens, FilesInv, S!Whole
    <3>2. cases \in S!Loaded(script, corpus)
      BY <2>3 DEF Opens
    <3> QED
      BY <2>3, <3>1, <3>2 DEF S!Loaded
  <2> QED
    BY <2>1, <2>2, <2>3
<1>5. S!Known(cases) \subseteq S!Documents /\ S!Known(cases) = S!Named(cases)
  BY <1>4 DEF S!Known, S!Named, S!Cases
<1>6. /\ S!Pool(script, S!Known(cases)) \subseteq IF script = "district" THEN Orders ELSE Judgments
      /\ script \in {"free", "district"} => S!Pool(script, S!Known(cases)) \cap S!Known(cases) = {}
      /\ script = "paid" => S!Pool(script, S!Known(cases)) = {}
  <2>1. CASE script = "free"
    BY <1>1, <2>1 DEF S!Pool
  <2>2. CASE script = "district"
    BY <2>2 DEF S!Pool
  <2>3. CASE script \in {"ingest", "paid"}
    BY <2>3 DEF S!Pool
  <2> QED
    BY <2>1, <2>2, <2>3 DEF S!Scripts, S!Writers
<1> DEFINE todo == S!Pool(script, S!Known(cases))
           left == IF script = "paid" THEN Categories ELSE {}
<1>7. todo \in SUBSET S!Documents /\ left \in SUBSET Categories /\ bad \in SUBSET Complexes
  BY <1>1, <1>6 DEF FilesInv
<1>8. /\ r.at = "next" /\ r.script = script /\ r.cases = cases /\ r.known = S!Known(cases)
      /\ r.todo = todo /\ r.left = left /\ r.doc = None /\ r.fresh = fresh /\ r.shape = "none"
  BY DEF NewRun
<1> HIDE DEF todo, left
<1>9. r \in Running
  <2>1. /\ S!Known(cases) \in SUBSET S!Documents /\ cases \in SUBSET S!Cases
        /\ "next" \in Stages
    BY <1>4, <1>5 DEF Stages
  <2> QED
    BY <1>7, <2>1 DEF Running, NewRun, todo, left
<1>10. PoolOK(r) /\ AtOK(r)
  BY <1>2, <1>6, <1>8 DEF PoolOK, AtOK, todo, left
<1>11. script \in S!Writers => OneCaseOf(cases)
  BY <1>2, <1>3 DEF S!Writers, DataInv, OneCaseOf
<1>12. script = "paid" => PaidOK(r)
  BY <1>5, <1>6, <1>8 DEF PaidOK, todo, S!Named
<1>13. script \in {"free", "district"} => FreeOK(r)
  BY <1>1, <1>5, <1>6, <1>7, <1>8 DEF FreeOK, todo, S!Named
<1> QED
  BY <1>2, <1>3, <1>8, <1>9, <1>10, <1>11, <1>12, <1>13 DEF SourcerOK, CasesOK, S!Writers

LEMMA CrossedOK ==
    ASSUME NEW r, SourcerOK(r)
    PROVE  SourcerOK([r EXCEPT !.met = TRUE])
<1> DEFINE s == [r EXCEPT !.met = TRUE]
<1>1. /\ s \in Running /\ s.at = r.at /\ s.script = r.script /\ s.cases = r.cases
      /\ s.known = r.known /\ s.todo = r.todo /\ s.left = r.left /\ s.category = r.category
      /\ s.doc = r.doc /\ s.shape = r.shape /\ s.fresh = r.fresh
  BY DEF SourcerOK, Running
<1> HIDE DEF s
<1>2. PoolOK(s) /\ AtOK(s)
  BY <1>1 DEF SourcerOK, PoolOK, AtOK
<1>3. CasesOK(s)
  BY <1>1 DEF SourcerOK, CasesOK, PaidOK, FreeOK
<1> QED
  BY <1>1, <1>2, <1>3 DEF SourcerOK, s

(* What the other runs keep when one begins. *)
Alike(r, s) ==
    /\ s.at = r.at /\ s.script = r.script /\ s.cases = r.cases /\ s.known = r.known
    /\ s.doc = r.doc /\ s.shape = r.shape /\ s.fresh = r.fresh

LEMMA AlikeSame ==
    ASSUME NEW r, NEW s, Alike(r, s)
    PROVE  /\ Full(s) = Full(r) /\ Bare(s) = Bare(r)
           /\ \A d : Sees(s, d) <=> Sees(r, d)
           /\ \A d : Fetches(s, d) <=> Fetches(r, d)
<1>1. Full(s) = Full(r) /\ Bare(s) = Bare(r)
  BY DEF Alike, Full, Bare
<1>2. \A d : Fetches(s, d) <=> Fetches(r, d)
  BY DEF Alike, Fetches
<1> QED
  BY <1>1, <1>2 DEF Alike, Sees

LEMMA BeginSourcingKeeps ==
    ASSUME Sourceable, SourcingInv, NEW p \in A, NEW script \in S!Scripts,
           NEW fresh \in BOOLEAN, S!Begin(p, script, fresh)
    PROVE  SourcingInv'
<1>1. /\ FilesInv /\ SourcersInv /\ CrossedInv /\ PaidInv /\ BareInv /\ SeenInv /\ HeldInv
      /\ DataInv
  BY DEF SourcingInv
<1>2. /\ run[p].at = "off" /\ starts < MaxStarts
      /\ UNCHANGED <<dataset, corpus, documents, blocked, archives, bad, kills,
                     paid, wasted, leftover>>
      /\ starts' = starts + 1
  BY DEF S!Begin, S!At
<1>3. PICK cases \in IF fresh THEN {{}}
                     ELSE S!Loaded(script, IF script = "ingest" THEN corpus ELSE dataset) :
          run' = [q \in A |->
           IF q = p
           THEN [at |-> "next", script |-> script, cases |-> cases,
                 known |-> S!Known(cases), todo |-> S!Pool(script, S!Known(cases)),
                 left |-> IF script = "paid" THEN Categories ELSE {},
                 category |-> None, doc |-> None, shape |-> "none", bad |-> bad,
                 fresh |-> fresh, met |-> S!Live # {}]
           ELSE IF q \in S!Live THEN [run[q] EXCEPT !.met = TRUE] ELSE S!Off]
  BY DEF S!Begin
<1> DEFINE s == run'[p]
<1>4. /\ SourcerOK(s) /\ s.at = "next" /\ s.script = script /\ s.cases = cases /\ s.doc = None
      /\ s.known = S!Named(cases) /\ s.fresh = fresh /\ s.met = (S!Live # {})
      /\ fresh => cases = {}
      /\ ~fresh /\ script \in S!Writers => dataset # Torn /\ cases = dataset.cases
  <2>1. Opens(script, fresh, cases)
    BY <1>3 DEF S!Begin, Opens
  <2>2. s = [at |-> "next", script |-> script, cases |-> cases,
             known |-> S!Known(cases), todo |-> S!Pool(script, S!Known(cases)),
             left |-> IF script = "paid" THEN Categories ELSE {},
             category |-> None, doc |-> None, shape |-> "none", bad |-> bad,
             fresh |-> fresh, met |-> S!Live # {}]
    BY <1>3
  <2> DEFINE met == S!Live # {}
  <2>3. met \in BOOLEAN
    OBVIOUS
  <2> HIDE DEF s
  <2>6. NewRun(s, script, cases, fresh, met)
    BY <2>2 DEF NewRun
  <2>4. /\ s.at = "next" /\ s.script = script /\ s.cases = cases /\ s.doc = None
        /\ s.known = S!Known(cases) /\ s.fresh = fresh /\ s.met = (S!Live # {})
    BY <2>2
  <2>5. /\ SourcerOK(s) /\ (fresh => cases = {})
        /\ ~fresh /\ script \in S!Writers => dataset # Torn /\ cases = dataset.cases
    <3> HIDE DEF met
    <3> QED
      BY <1>1, <2>1, <2>3, <2>6, NewRunOK
  <2> QED
    BY <2>4, <2>5 DEF S!Known
<1>5. /\ p \notin S!Live /\ run[p] = S!Off
      /\ \A q \in A \ {p} : run'[q] = IF q \in S!Live THEN [run[q] EXCEPT !.met = TRUE] ELSE S!Off
      /\ \A q \in A \ {p} : q \notin S!Live => run[q] = S!Off
  BY <1>1, <1>2, <1>3, OffOrRunning DEF S!Live, S!At
<1>6. ASSUME NEW q \in S!Live, q # p
      PROVE  SourcerOK(run'[q]) /\ Alike(run[q], run'[q]) /\ run'[q].met
  <2>1. q \in A /\ SourcerOK(run[q]) /\ run[q] \in Running
    BY <1>1, Alive DEF S!Live
  <2>2. run'[q] = [run[q] EXCEPT !.met = TRUE]
    BY <1>5, <1>6, <2>1
  <2> QED
    BY <2>1, <2>2, CrossedOK DEF Alike, Running
<1>7. \A q \in A \ {p} : q \notin S!Live => run'[q] = run[q] /\ run[q].at = "off"
  BY <1>5 DEF S!Off
<1>8. S!Live' = S!Live \cup {p}
  <2>1. ASSUME NEW q \in A PROVE run'[q].at # "off" <=> q \in S!Live \cup {p}
    BY <1>4, <1>6, <1>7 DEF S!Live, S!At, Alike
  <2>2. S!Live' = {q \in A : run'[q].at # "off"} /\ S!Live \subseteq A
    BY DEF S!Live, S!At
  <2> QED
    BY <2>1, <2>2
<1> HIDE DEF s
<1>9. SourcersInv'
  <2>1. DOMAIN run' = A /\ run' = [q \in A |-> run'[q]]
    BY <1>3
  <2>2. \A q \in S!Live \cup {p} : SourcerOK(run'[q]) /\ run'[q] \in Running
    BY <1>4, <1>6 DEF SourcerOK, s
  <2>3. \A q \in A : run'[q] \in Running \cup {S!Off}
    BY <1>5, <1>7, <2>2
  <2> QED
    BY <1>8, <2>1, <2>2, <2>3 DEF SourcersInv
<1>10. CrossedInv'
  <2>1. p \in S!Live' /\ \A q \in S!Live' : q # p => q \in S!Live /\ run'[q].met
    BY <1>6, <1>8
  <2>2. \A q \in S!Live' : q # p => run'[p].met
    BY <1>4, <2>1 DEF s
  <2> QED
    BY <2>1, <2>2 DEF CrossedInv
<1>11. ASSUME NEW q \in A
       PROVE  /\ run'[q].at \in {"pay", "write", "add"} <=> run[q].at \in {"pay", "write", "add"}
              /\ run[q].at \in {"pay", "write", "add"} =>
                     run'[q].at = run[q].at /\ run'[q].doc = run[q].doc
  <2>1. CASE q = p
    BY <1>2, <1>4, <2>1 DEF s
  <2>2. CASE q # p /\ q \in S!Live
    BY <1>6, <2>2 DEF Alike
  <2>3. CASE q # p /\ q \notin S!Live
    BY <1>7, <2>3
  <2> QED
    BY <2>1, <2>2, <2>3
<1>12. \A q, d : KeptBut(q, d)' <=> KeptBut(q, d)
  BY <1>2, <1>11 DEF KeptBut, S!At
<1>13. \A d : Kept(d)' <=> Kept(d)
  BY <1>2, <1>11 DEF Kept, S!At
<1>14. \A q \in A : \A d : Fetches(run'[q], d) <=> Fetches(run[q], d)
  BY <1>11 DEF Fetches
<1>15. PaidInv'
  <2>1. \A q \in A, at \in {"pay", "write"} : \A d :
            run'[q].at = at /\ run'[q].doc = d <=> run[q].at = at /\ run[q].doc = d
    BY <1>11
  <2> SUFFICES ASSUME NEW d \in Judgments, d \notin wasted
               PROVE  /\ \A o, q \in A :
                             Fetches(run'[o], d) /\ Fetches(run'[q], d) => o = q
                      /\ \A q \in A : run'[q].at = "pay" /\ run'[q].doc = d => paid[d] = 0
                      /\ paid[d] <= 1
                      /\ paid[d] = 1 =>
                             documents[d] # "none"
                             \/ \E q \in A : run'[q].at = "write" /\ run'[q].doc = d
    BY <1>2 DEF PaidInv, S!At
  <2>2. /\ \A o, q \in A : Fetches(run[o], d) /\ Fetches(run[q], d) => o = q
        /\ \A q \in A : run[q].at = "pay" /\ run[q].doc = d => paid[d] = 0
        /\ paid[d] <= 1
        /\ paid[d] = 1 =>
               documents[d] # "none"
               \/ \E q \in A : run[q].at = "write" /\ run[q].doc = d
    BY <1>1 DEF PaidInv, S!At
  <2>3. \A o, q \in A : Fetches(run'[o], d) /\ Fetches(run'[q], d) => o = q
    BY <1>14, <2>2
  <2> QED
    BY <2>1, <2>2, <2>3
<1>16. BareInv'
  BY <1>1, <1>2, <1>13 DEF BareInv, Names
<1>17. \A d : Kept(d) => KeptBut(p, d)
  BY <1>2 DEF Kept, KeptBut, S!At
<1>18. SeenInv'
  <2> SUFFICES ASSUME NEW q \in S!Live', NEW d \in S!Documents, documents[d] = "bare",
                      Sees(run'[q], d)
               PROVE  KeptBut(q, d)
    BY <1>2, <1>12 DEF SeenInv
  <2>1. CASE q = p
    <3>1. script = "paid" /\ ~fresh /\ d \notin S!Named(cases)
      <4>1. ~(fresh /\ d \in Full(s))
        BY <1>4, InFull DEF S!Named
      <4> QED
        BY <1>4, <2>1, <4>1 DEF Sees, Fetches, s
    <3>2. d \notin Names(dataset)
      BY <1>4, <3>1 DEF Names, S!Writers
    <3> QED
      BY <1>1, <1>17, <2>1, <3>2 DEF BareInv
  <2>2. CASE q # p
    <3>1. q \in S!Live /\ Sees(run[q], d)
      BY <1>6, <1>8, <2>2, AlikeSame
    <3> QED
      BY <1>1, <3>1 DEF SeenInv
  <2> QED
    BY <2>1, <2>2
<1>19. HeldInv'
  <2> SUFFICES ASSUME NEW q \in S!Live', run'[q].script \in S!Writers, NEW d \in Bare(run'[q])
               PROVE  KeptBut(q, d) \/ LostTo(q, d)'
    BY <1>12 DEF HeldInv
  <2>1. CASE q = p
    <3>1. PICK c \in cases : c.id = None /\ c.of = d
      BY <1>4, <2>1, InBare DEF s
    <3>2. dataset # Torn /\ cases = dataset.cases
      BY <1>4, <2>1, <3>1 DEF s
    <3> QED
      BY <1>1, <1>17, <2>1, <3>1, <3>2 DEF DataInv
  <2>2. CASE q # p
    <3>1. q \in S!Live /\ Alike(run[q], run'[q]) /\ q \in A
      BY <1>6, <1>8, <2>2 DEF S!Live
    <3>2. /\ d \in Bare(run[q]) /\ run[q].script \in S!Writers
          /\ Full(run'[q]) = Full(run[q])
          /\ run'[q].script = run[q].script /\ run'[q].fresh = run[q].fresh
      BY <3>1, AlikeSame DEF Alike
    <3>3. KeptBut(q, d) \/ LostTo(q, d)
      BY <1>1, <3>1, <3>2 DEF HeldInv
    <3>4. LostTo(q, d) => LostTo(q, d)'
      BY <1>2, <1>14, <3>2 DEF LostTo, Names
    <3> QED
      BY <3>3, <3>4
  <2> QED
    BY <2>1, <2>2
<1>20. DataInv'
  <2> SUFFICES ASSUME dataset # Torn
               PROVE  /\ OneCaseOf(dataset.cases)
                      /\ \A c \in dataset.cases : c.id = None => Kept(c.of)
                      /\ \A q \in S!Live' :
                            run'[q].script \in S!Writers /\ ~run'[q].fresh /\ ~run'[q].met =>
                                S!Named(dataset.cases) \subseteq S!Named(run'[q].cases)
    BY <1>2, <1>13 DEF DataInv
  <2>1. \A q \in S!Live' : q # p => run'[q].met
    BY <1>6, <1>8
  <2>2. s.script \in S!Writers /\ ~s.fresh => s.cases = dataset.cases
    BY <1>4
  <2> QED
    BY <1>1, <2>1, <2>2 DEF DataInv, s
<1>21. FilesInv'
  BY <1>1, <1>2 DEF FilesInv, Sourceable, S!BoundsAssumption
<1> QED
  BY <1>9, <1>10, <1>15, <1>16, <1>18, <1>19, <1>20, <1>21 DEF SourcingInv

LEMMA RemoveKeeps ==
    ASSUME Sourceable, SourcingInv, NEW d \in Judgments, S!Remove(d)
    PROVE  SourcingInv'
<1>1. /\ FilesInv /\ SourcersInv /\ CrossedInv /\ PaidInv /\ BareInv /\ SeenInv /\ HeldInv
      /\ DataInv
  BY DEF SourcingInv
<1> DEFINE cs == {c \in dataset.cases : c.id # d}
           unseen == {}
<1>2. /\ dataset # Torn /\ blocked' = blocked \cup {d} /\ S!WriteDataset(cs, unseen)
      /\ UNCHANGED <<corpus, documents, archives, bad, run, starts, kills, paid, wasted>>
  BY DEF S!Remove
<1>3. cs \in SUBSET S!Cases /\ cs \subseteq dataset.cases /\ unseen \in SUBSET S!Documents
  BY <1>1, <1>2 DEF FilesInv, S!Whole
<1> HIDE DEF cs, unseen
<1>4. /\ leftover \subseteq leftover' /\ leftover' \subseteq S!Documents
      /\ Names(dataset) \ Names(dataset') \subseteq leftover'
      /\ dataset' = [cases |-> cs] /\ Names(dataset') = S!Named(cs)
      /\ dataset' \in S!Whole
  BY <1>1, <1>2, <1>3, DropsAreLeft
<1>5. FilesInv' /\ SourcersInv' /\ CrossedInv' /\ PaidInv'
  <2>1. S!Live' = S!Live
    BY <1>2 DEF S!Live, S!At
  <2> QED
    BY <1>1, <1>2, <1>4, <2>1 DEF FilesInv, SourcersInv, CrossedInv, PaidInv, S!At
<1>6. /\ \A q, e : KeptBut(q, e) => KeptBut(q, e)'
      /\ \A e : Kept(e) => Kept(e)'
      /\ S!Live' = S!Live
  BY <1>2, <1>4 DEF KeptBut, Kept, S!Live, S!At
<1>7. BareInv'
  BY <1>1, <1>2, <1>4, <1>6 DEF BareInv, Kept, Names
<1>8. SeenInv'
  BY <1>1, <1>2, <1>6 DEF SeenInv
<1>9. HeldInv'
  <2> SUFFICES ASSUME NEW q \in S!Live, run[q].script \in S!Writers, NEW e \in Bare(run[q])
               PROVE  KeptBut(q, e)' \/ LostTo(q, e)'
    BY <1>2, <1>6 DEF HeldInv
  <2>1. KeptBut(q, e) \/ LostTo(q, e)
    BY <1>1 DEF HeldInv
  <2>2. CASE LostTo(q, e) /\ e \in Names(dataset')
    BY <1>2, <2>2 DEF LostTo, Names
  <2>3. CASE LostTo(q, e) /\ e \notin Names(dataset')
    BY <1>4, <2>3 DEF LostTo, KeptBut
  <2> QED
    BY <1>6, <2>1, <2>2, <2>3
<1>10. DataInv'
  <2>1. /\ OneCaseOf(dataset.cases)
        /\ \A c \in dataset.cases : c.id = None => Kept(c.of)
        /\ \A q \in S!Live :
               run[q].script \in S!Writers /\ ~run[q].fresh /\ ~run[q].met =>
                   S!Named(dataset.cases) \subseteq S!Named(run[q].cases)
    BY <1>1, <1>2 DEF DataInv
  <2>2. dataset'.cases = cs /\ run' = run /\ S!Named(cs) \subseteq S!Named(dataset.cases)
    BY <1>2, <1>3, <1>4 DEF S!Named
  <2>3. OneCaseOf(cs)
    BY <1>3, <2>1 DEF OneCaseOf
  <2>4. \A c \in cs : c.id = None => Kept(c.of)'
    BY <1>3, <1>6, <2>1
  <2> QED
    BY <1>6, <2>1, <2>2, <2>3, <2>4 DEF DataInv
<1> QED
  BY <1>5, <1>7, <1>8, <1>9, <1>10 DEF SourcingInv

LEMMA SourcingStarts ==
    ASSUME Sourceable, S!Init PROVE SourcingInv
<1>1. \A p \in A : run[p] = S!Off /\ run[p].at = "off"
  BY DEF S!Init, S!Off
<1>2. S!Live = {}
  BY <1>1 DEF S!Live, S!At
<1>3. /\ dataset = [cases |-> {}] /\ corpus = [cases |-> {}] /\ [cases |-> {}] \in S!Whole
      /\ \A d \in S!Documents : documents[d] = "none"
  BY DEF S!Init, S!Whole
<1>4. FilesInv
  BY <1>3 DEF S!Init, FilesInv, Sourceable, S!BoundsAssumption
<1>5. SourcersInv /\ CrossedInv /\ SeenInv /\ HeldInv
  BY <1>1, <1>2 DEF S!Init, SourcersInv, CrossedInv, SeenInv, HeldInv
<1>6. PaidInv
  BY <1>1 DEF S!Init, PaidInv, Fetches, S!At
<1>7. BareInv
  BY <1>3 DEF BareInv
<1>8. DataInv
  BY <1>2, <1>3 DEF DataInv, OneCaseOf
<1> QED
  BY <1>4, <1>5, <1>6, <1>7, <1>8 DEF SourcingInv

LEMMA SourcingSteps ==
    ASSUME Sourceable, SourcingInv, [S!Next]_(S!vars) PROVE SourcingInv'
<1>1. CASE UNCHANGED S!vars
  BY <1>1 DEF S!vars, SourcingInv, FilesInv, SourcersInv, CrossedInv, PaidInv, BareInv, SeenInv,
     HeldInv,
     DataInv, S!Live, S!At, Kept, KeptBut, LostTo
<1>2. ASSUME NEW p \in A, Works(p) PROVE SourcingInv'
  BY <1>2, WorkKeeps
<1>3. ASSUME NEW p \in A, NEW script \in S!Scripts, NEW fresh \in BOOLEAN,
             S!Begin(p, script, fresh)
      PROVE  SourcingInv'
  BY <1>3, BeginSourcingKeeps
<1>4. ASSUME NEW d \in Judgments, S!Remove(d) PROVE SourcingInv'
  BY <1>4, RemoveKeeps
<1> QED
  BY <1>1, <1>2, <1>3, <1>4 DEF S!Next, Works

LEMMA SourcingImplies ==
    ASSUME Sourceable, SourcingInv
    PROVE  S!TypeOK /\ S!PaidOnce /\ S!NamelessIsLeftover /\ S!OneCaseEach
<1>1. S!TypeOK
  <2>1. ASSUME NEW p \in S!Live
        PROVE  /\ run[p].at \in Stages /\ run[p].script \in S!Scripts
               /\ run[p].cases \subseteq S!Cases /\ run[p].todo \subseteq S!Documents
               /\ S!At(p, "extract") => run[p].shape \in {"full", "bare", "errmsg"}
    BY DEF SourcingInv, SourcersInv, SourcerOK, Running, AtOK, S!At
  <2> QED
    BY <2>1 DEF SourcingInv, FilesInv, S!TypeOK, Stages, Complexes
<1>2. S!PaidOnce
  <2> SUFFICES ASSUME NEW d \in Judgments, d \notin wasted PROVE ~(paid[d] > 1)
    BY DEF S!PaidOnce
  <2>1. paid[d] <= 1 /\ paid[d] \in Nat
    BY DEF SourcingInv, PaidInv, FilesInv
  <2> QED
    BY <2>1
<1>3. S!NamelessIsLeftover
  <2> SUFFICES ASSUME dataset # Torn, NEW c \in dataset.cases, c.id = None
               PROVE  c.of \in leftover \cup {run[p].doc : p \in {q \in S!Live : S!At(q, "add")}}
    BY DEF S!NamelessIsLeftover
  <2>1. Kept(c.of)
    BY DEF SourcingInv, DataInv
  <2> QED
    BY <2>1 DEF Kept, S!Live, S!At
<1>4. S!OneCaseEach
  BY DEF SourcingInv, DataInv, OneCaseOf, S!OneCaseEach
<1> QED
  BY <1>1, <1>2, <1>3, <1>4

Surviving ==
    dataset # Torn /\ dataset' # Torn =>
           \A id \in S!Named(dataset.cases) \ S!Named(dataset'.cases) :
               \/ id \in blocked'
               \/ \E p \in S!Live :
                      run'[p] # run[p] /\ (run[p].fresh \/ run[p].met)

LEMMA CasesAreKept ==
    ASSUME Sourceable, SourcingInv, [S!Next]_(S!vars) PROVE Surviving
<1>1. /\ FilesInv /\ SourcersInv /\ CrossedInv /\ DataInv
  BY DEF SourcingInv
<1> SUFFICES ASSUME dataset # Torn, dataset' # Torn,
                    NEW id \in S!Named(dataset.cases) \ S!Named(dataset'.cases)
             PROVE  \/ id \in blocked'
                    \/ \E p \in S!Live : run'[p] # run[p] /\ (run[p].fresh \/ run[p].met)
  BY DEF Surviving
<1>2. dataset' # dataset
  OBVIOUS
<1>3. ASSUME NEW p \in A, Works(p)
      PROVE  \E q \in S!Live : run'[q] # run[q] /\ (run[q].fresh \/ run[q].met)
  <2>1. Rewrites(p)
    BY <1>1, <1>2, <1>3, WorkFrames
  <2>2. /\ p \in S!Live /\ run'[p] # run[p] /\ run[p].script \in S!Writers
        /\ S!Named(run[p].cases) \subseteq S!Named(dataset'.cases)
    <3>1. CASE S!Add(p)
      <4>1. /\ Turn(p) /\ run[p].at = "add" /\ SourcerOK(run[p]) /\ SourcerOK(run'[p])
            /\ dataset'.cases = run[p].cases \cup {CaseOf(run[p])}
            /\ run'[p].cases = run[p].cases \cup {CaseOf(run[p])}
        BY <1>1, <3>1, AddFrames DEF Framed
      <4>2. run[p].script \in S!Writers /\ run'[p].at = "next"
        BY <3>1, <4>1, <1>1 DEF SourcerOK, AtOK, S!Writers, S!Add, S!GoOn, SourcersInv, Running
      <4> QED
        BY <4>1, <4>2 DEF Turn, S!Named
    <3>2. CASE S!Finish(p)
      <4>1. /\ Turn(p) /\ run'[p] = S!Off /\ dataset' = [cases |-> run[p].cases]
            /\ run[p].script = "paid"
        BY <1>1, <1>2, <3>2, FinishFrames DEF Framed
      <4>2. p \in S!Live /\ run[p] # S!Off
        BY <1>1, <4>1, OffOrRunning DEF Turn
      <4> QED
        BY <4>1, <4>2 DEF S!Writers, S!Named
    <3> QED
      BY <2>1, <3>1, <3>2 DEF Rewrites
  <2>3. run[p].fresh \/ run[p].met
    BY <1>1, <2>2 DEF DataInv
  <2> QED
    BY <2>2, <2>3
<1>4. ASSUME NEW p \in A, NEW script \in S!Scripts, NEW fresh \in BOOLEAN,
             S!Begin(p, script, fresh)
      PROVE  FALSE
  BY <1>2, <1>4 DEF S!Begin
<1>5. ASSUME NEW d \in Judgments, S!Remove(d) PROVE id \in blocked'
  BY <1>5 DEF S!Remove, S!WriteDataset, S!Named
<1>6. CASE UNCHANGED S!vars
  BY <1>2, <1>6 DEF S!vars
<1> QED
  BY <1>3, <1>4, <1>5, <1>6 DEF S!Next, Works

(* A judgment is paid for once unless two runs overlap or one is killed, a   *)
(* nameless case is of a document left over from another script, a judgment  *)
(* is one case, and cases survive the runs that do not overlap               *)
(* (source_eval_judgments.py and its companions), for any number of          *)
(* processes and documents.                                                  *)
THEOREM SourcingCorrect ==
    ASSUME PartsAssumption
    PROVE  Spec => SourcingIsSound
<1>1. Sourceable
  BY DEF Sourceable, PartsAssumption
<1>2. Init => SourcingInv
  BY <1>1, SourcingStarts DEF Init
<1>3. SourcingInv /\ [Next]_vars => SourcingInv'
  BY <1>1, StepsOfScripts, SourcingSteps
<1>4. SourcingInv => S!TypeOK /\ S!PaidOnce /\ S!NamelessIsLeftover /\ S!OneCaseEach
  BY <1>1, SourcingImplies
<1>5. SourcingInv /\ [Next]_vars =>
          [dataset # Torn /\ dataset' # Torn =>
           \A id \in S!Named(dataset.cases) \ S!Named(dataset'.cases) :
               \/ id \in blocked'
               \/ \E p \in S!Live :
                      run'[p] # run[p] /\ (run[p].fresh \/ run[p].met)]_(S!vars)
  BY <1>1, StepsOfScripts, CasesAreKept DEF Surviving
<1> QED
  BY <1>2, <1>3, <1>4, <1>5, PTL DEF Spec, SourcingIsSound, S!CasesSurvive
=============================================================================
