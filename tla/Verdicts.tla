-------------------------------- MODULE Verdicts --------------------------------
(***************************************************************************)
(* The comparison of the pipeline's resolutions with the real outcomes     *)
(* (judge_real_outcomes.py): each run puts the cases through the pipeline, *)
(* scripted or live, has a model judge what came out, and keeps the        *)
(* verdicts in one file, which the next run takes for its cache.  A        *)
(* scripted resolution follows from the case, the sources the fingerprint  *)
(* is of, and the rest: the sources it leaves out, the day, which is in    *)
(* the order's deadline, and whether there are embeddings to retrieve by.  *)
(***************************************************************************)
EXTENDS Naturals, FiniteSets

CONSTANTS
    Cases,
    Facts,      \* what the dataset can say of a case
    Codes,      \* versions of the sources in _PIPELINE_SOURCE_FILES
    Rests,      \* what else a scripted resolution follows from
    Outputs,    \* resolutions
    None,       \* no resolution: the case was escalated
    Scripted,   \* what the scripted pipeline makes of a case
    Workers,    \* --workers of a live run; a scripted one has one
    Missing,    \* a file that does not exist
    Torn,       \* a file that was being written when its process was killed
    MaxStarts, MaxEdits, MaxKills  \* bounds on the runs, the edits and the kills

ScriptedAssumption ==
    Scripted \in [Cases \X Facts \X Codes \X Rests -> Outputs \cup {None}]
Resolved(c, says, sources, others) == Scripted[c, says, sources, others]
WorkersAssumption == Workers \in Nat \ {0}
BoundsAssumption == {MaxStarts, MaxEdits, MaxKills} \subseteq Nat
OutputsAssumption == {None, "nothing"} \cap Outputs = {}

Entry ==
    [case : Cases, output : Outputs, verdict : {"judged", "judge_failed"},
     code : Codes, rest : Rests, live : BOOLEAN, answered : BOOLEAN, facts : Facts,
     reused : BOOLEAN]
Whole == [entries : SUBSET Entry]
Files == Whole \cup {Missing, Torn}
FilesAssumption == {Missing, Torn} \cap Whole = {}

VARIABLES
    store,     \* real_judgment_verdict_comparison.json
    facts,     \* the dataset
    code,      \* the sources the fingerprint is of
    rest,      \* the rest
    run,       \* the run that is on
    finished,  \* history: the last run, if it came to its end
    starts, edits, kills

vars == <<store, facts, code, rest, run, finished, starts, edits, kills>>

Off == [at |-> "off"]
On == run.at # "off"
Entries == IF store \in {Missing, Torn} THEN {} ELSE store.entries
Of(entries, c) == {e \in entries : e.case = c}
Judged(entries) == {e \in entries : e.verdict = "judged"}

Init ==
    /\ store = Missing
    /\ facts \in [Cases -> Facts] /\ code \in Codes /\ rest \in Rests
    /\ run = Off /\ finished = None
    /\ starts = 0 /\ edits = 0 /\ kills = 0

-----------------------------------------------------------------------------
(* The verdicts of the file; judge_failed is none. *)
Cache(fresh) == IF fresh THEN {} ELSE Judged(Entries)

(* "made" and "skipped" are history: the resolution of each case this run   *)
(* has been through, and those it did not resolve anew.                     *)
Begin(live, resume, fresh) ==
    /\ ~On /\ starts < MaxStarts
    /\ resume => live
    /\ fresh \/ store # Torn
    /\ run' = [at |-> "on", live |-> live, resume |-> resume, fresh |-> fresh,
               code |-> code, facts |-> facts, cache |-> Cache(fresh), todo |-> Cases,
               judging |-> {}, results |-> {}, skipped |-> {},
               made |-> [c \in Cases |-> "nothing"]]
    /\ finished' = None
    /\ starts' = starts + 1
    /\ UNCHANGED <<store, facts, code, rest, edits, kills>>

(* An entry stands when the run and it are scripted with the same           *)
(* fingerprint, or when a live run resumes and it is live.                  *)
Unchanged(e) ==
    \/ ~run.live /\ ~e.live /\ e.code = run.code
    \/ run.live /\ run.resume /\ e.live

Skip(c) ==
    /\ On /\ c \in run.todo
    /\ \E e \in Of(run.cache, c) :
           /\ Unchanged(e)
           /\ run' = [run EXCEPT !.todo = @ \ {c}, !.made[c] = e.output,
                                 !.skipped = @ \cup {c}, !.results = @ \cup {e}]
    /\ UNCHANGED <<store, facts, code, rest, finished, starts, edits, kills>>

-----------------------------------------------------------------------------
(* Mutant of Resolutions: another thread's case resets the counts. *)
ResolutionsShared(c) ==
    {[output |-> Resolved(c, run.facts[c], run.code, rest), answered |-> FALSE]}
    \cup IF run.live THEN [output : Outputs \cup {None}, answered : BOOLEAN] ELSE {}

(* What the pipeline makes of a case, and whether the model answered it: a  *)
(* live run may resolve it as the model says, and does as a scripted one    *)
(* when no call succeeds.                                                   *)
Resolutions(c) ==
    {[output |-> Resolved(c, run.facts[c], run.code, rest), answered |-> FALSE]}
    \cup IF run.live THEN [output : Outputs \cup {None}, answered : {TRUE}] ELSE {}

(* An entry whose resolution came out again: the sources and the mode are   *)
(* this run's, the calls still those of the run that judged it.             *)
Reused(e) ==
    [e EXCEPT !.code = run.code, !.rest = rest, !.live = run.live,
              !.facts = run.facts[e.case], !.reused = TRUE]

RunAndCapture(c) ==
    LET cached == Of(run.cache, c) IN
    /\ On /\ c \in run.todo /\ ~\E e \in cached : Unchanged(e)
    /\ Cardinality(run.judging) < IF run.live THEN Workers ELSE 1
    /\ \E r \in Resolutions(c) :
           LET same == {e \in cached : e.output = r.output}
               came == [run EXCEPT !.todo = @ \ {c}, !.made[c] = r.output] IN
           \/ r.output = None /\ run' = came
           \/ /\ r.output # None /\ same # {}
              /\ run' = [came EXCEPT !.results = @ \cup {Reused(e) : e \in same}]
           \/ /\ r.output # None /\ same = {}
              /\ run' = [came EXCEPT !.judging = @ \cup {
                     [case |-> c, output |-> r.output, answered |-> r.answered,
                      rest |-> rest]}]
    /\ UNCHANGED <<store, facts, code, rest, finished, starts, edits, kills>>

(* The model judges the resolution, or does not; this run's results, the    *)
(* new entry among them, are the file.                                      *)
Judge(job) ==
    /\ On /\ job \in run.judging
    /\ \E verdict \in {"judged", "judge_failed"} :
           LET e == [case |-> job.case, output |-> job.output, verdict |-> verdict,
                     code |-> run.code, rest |-> job.rest, live |-> run.live,
                     answered |-> job.answered,
                     facts |-> run.facts[job.case], reused |-> FALSE] IN
           /\ run' = [run EXCEPT !.judging = @ \ {job}, !.results = @ \cup {e}]
           /\ store' = [entries |-> run'.results]
    /\ UNCHANGED <<facts, code, rest, finished, starts, edits, kills>>

Finish ==
    /\ On /\ run.todo = {} /\ run.judging = {}
    /\ store' = [entries |-> run.results]
    /\ finished' = [live |-> run.live, code |-> run.code, facts |-> run.facts,
                    made |-> run.made, skipped |-> run.skipped]
    /\ run' = Off
    /\ UNCHANGED <<facts, code, rest, starts, edits, kills>>

-----------------------------------------------------------------------------
(* The run is killed, perhaps while it writes the file. *)
Kill ==
    /\ On /\ kills < MaxKills
    /\ \/ UNCHANGED store
       \/ /\ run.judging # {} \/ run.todo = {}
          /\ store' = Torn
    /\ run' = Off
    /\ kills' = kills + 1
    /\ UNCHANGED <<facts, code, rest, finished, starts, edits>>

(* Between runs the sources change, or what the dataset says of a case; at  *)
(* any time the rest does: a day ends, the embedding service comes or goes, *)
(* a file without a fingerprint is edited.                                  *)
Edit ==
    /\ edits < MaxEdits
    /\ \/ ~On /\ code' \in Codes \ {code} /\ UNCHANGED <<facts, rest>>
       \/ /\ ~On /\ UNCHANGED <<code, rest>>
          /\ \E c \in Cases, f \in Facts : f # facts[c] /\ facts' = [facts EXCEPT ![c] = f]
       \/ rest' \in Rests \ {rest} /\ UNCHANGED <<facts, code>>
    /\ edits' = edits + 1
    /\ UNCHANGED <<store, run, finished, starts, kills>>

Next ==
    \/ \E live, resume, fresh \in BOOLEAN : Begin(live, resume, fresh)
    \/ \E c \in Cases : Skip(c) \/ RunAndCapture(c)
    \/ On /\ \E job \in run.judging : Judge(job)
    \/ Finish \/ Kill \/ Edit

Spec == Init /\ [][Next]_vars

-----------------------------------------------------------------------------
(* The type invariant; a file has one verdict a case. *)
TypeOK ==
    /\ store \in Files
    /\ \A c \in Cases : Cardinality(Of(Entries, c)) <= 1
    /\ facts \in [Cases -> Facts] /\ code \in Codes /\ rest \in Rests
    /\ On => /\ run.results \subseteq Entry
             /\ run.todo \subseteq Cases
             /\ Cardinality(run.judging) <= Workers
    /\ starts \in 0 .. MaxStarts /\ edits \in 0 .. MaxEdits /\ kills \in 0 .. MaxKills

(* Wherever it came from, a scripted verdict is of what the scripted        *)
(* pipeline made of its case, once; after a scripted run each is of the     *)
(* run's fingerprint, and of the facts the run read unless it was skipped   *)
(* (_pipeline_fingerprint hashes sources and not the case); and a case is   *)
(* without one only if the run could escalate it.                           *)
ScriptedIsCurrent ==
    /\ \A e \in Entries : ~e.live => e.output = Resolved(e.case, e.facts, e.code, e.rest)
    /\ finished # None /\ ~finished.live =>
           \A c \in Cases :
               \/ \E e \in Of(Entries, c) :
                      /\ ~e.live /\ e.code = finished.code
                      /\ e.facts = finished.facts[c] \/ c \in finished.skipped
               \/ /\ Of(Entries, c) = {}
                  /\ \E others \in Rests :
                         Resolved(c, finished.facts[c], finished.code, others) = None

(* "re-executing it would produce byte-identical output": a scripted run    *)
(* skips a case of unchanged facts only if it would be resolved alike.      *)
SkippedIsReproducible ==
    [][run.at = "on" /\ run'.at = "on" =>
           \A c \in run'.skipped \ run.skipped : \A e \in Of(run.cache, c) :
               ~run.live /\ e.facts = run.facts[c] =>
                   e.output = Resolved(c, run.facts[c], run.code, rest)]_vars

(* A failed judging is tried again by the next run that resolves the case   *)
(* alike: what a finished run leaves failed, that run had judged itself.    *)
FailedIsOfThisRun ==
    \A e \in Entries :
        e.verdict = "judge_failed" /\ finished # None =>
            e.code = finished.code /\ e.live = finished.live /\ ~e.reused

(* "never loses more than the single in-flight case per worker": a verdict  *)
(* leaves the file only in a run that has still to come to its case, or     *)
(* whose resolution of the case differs; a kill in between loses the rest   *)
(* (process_one writes this run's results only).                            *)
VerdictsSurvive ==
    [][store' # Torn =>
           \A e \in Judged(Entries) :
               Of(Judged(Entries'), e.case) = {} =>
                   On /\ (run.fresh \/ run.made[e.case] # e.output)]_vars

(* "Zero ok calls in a live-LLM run means that case was scripted": so it    *)
(* does for an entry of its own run, and not for a reused one.              *)
ZeroCallsMeansScripted ==
    \A e \in Entries :
        e.live /\ ~e.answered /\ ~e.reused => e.output = Resolved(e.case, e.facts, e.code, e.rest)
=============================================================================
