------------------------------- MODULE CaseFacts -------------------------------
(***************************************************************************)
(* What the models read in the sourced judgments, before the evaluation:   *)
(* extract_case_signals.py adds the signals of each case of the dataset    *)
(* and writes the enriched file; extract_claim_amounts.py adds claimed     *)
(* amounts to that file, in place.  Each keeps a checkpoint of its own and *)
(* asks the model from several threads.  A file is a set of cases with     *)
(* those of them that have signals and those that have an amount.          *)
(***************************************************************************)
EXTENDS Naturals, FiniteSets

CONSTANTS
    Cases,
    Workers,    \* --workers
    Every,      \* CHECKPOINT_EVERY
    Missing,    \* a file that does not exist
    Torn,       \* a file that was being written when its process was killed
    MaxStarts,  \* bound on the runs of each script
    MaxKills    \* bound on the kills

WorkersAssumption == Workers \in Nat \ {0} /\ Every \in Nat \ {0}
BoundsAssumption == {MaxStarts, MaxKills} \subseteq Nat
CasesAssumption == IsFiniteSet(Cases)
FilesAssumption ==
    {Missing, Torn} \cap [cases : SUBSET Cases, signals : SUBSET Cases, amounts : SUBSET Cases] = {}

VARIABLES
    dataset,  \* eval_judgments.json, a set of cases
    out,      \* eval_judgments_with_signals.json
    partial,  \* its checkpoint
    amounts,  \* the checkpoint of the amounts: a set of cases
    sig,      \* the run of extract_case_signals
    amt,      \* the run of extract_claim_amounts
    starts, kills

vars == <<dataset, out, partial, amounts, sig, amt, starts, kills>>

Off == [at |-> "off"]
On(run) == run.at # "off"
Through(run) == run.at = "work" /\ run.todo = {} /\ run.asking = {}
Whole(file) == file \notin {Missing, Torn}
Signals(file) == IF Whole(file) THEN file.signals ELSE {}
Amounts(file) == IF Whole(file) THEN file.amounts ELSE {}

Init ==
    /\ dataset = {} /\ out = Missing /\ partial = Missing /\ amounts = Missing
    /\ sig = Off /\ amt = Off
    /\ starts = [script \in {"signals", "amounts"} |-> 0] /\ kills = 0

(* A sourcing script adds a case, or a reviewer removes one. *)
Source(c) ==
    /\ dataset' = IF c \in dataset THEN dataset \ {c} ELSE dataset \cup {c}
    /\ UNCHANGED <<out, partial, amounts, sig, amt, starts, kills>>

-----------------------------------------------------------------------------
(* already_signalled: the entries of the output, and over them those of the *)
(* checkpoint, with or without an amount as they are there.                 *)
Loaded ==
    [signals |-> Signals(out) \cup Signals(partial),
     amounts |-> (Amounts(out) \ Signals(partial)) \cup Amounts(partial),
     from |-> Signals(partial)]

Met(run) == IF On(run) THEN [run EXCEPT !.met = TRUE] ELSE run

(* The run loads what is known, and raises on a torn file. *)
BeginSignals(fresh) ==
    LET known == IF fresh THEN [signals |-> {}, amounts |-> {}, from |-> {}] ELSE Loaded IN
    /\ ~On(sig) /\ starts["signals"] < MaxStarts
    /\ fresh \/ Torn \notin {out, partial}
    /\ sig' = [at |-> "work", cases |-> dataset, signals |-> known.signals,
               amounts |-> known.amounts \cap known.signals, from |-> known.from,
               todo |-> dataset \ known.signals, asking |-> {}, done |-> {},
               failed |-> {}, fresh |-> fresh, met |-> On(amt)]
    /\ amt' = Met(amt)
    /\ starts' = [starts EXCEPT !["signals"] = @ + 1]
    /\ UNCHANGED <<dataset, out, partial, amounts, kills>>

(* A thread takes a case. *)
AskSignals(c) ==
    /\ sig.at = "work" /\ c \in sig.todo
    /\ Cardinality(sig.asking) < Workers
    /\ sig' = [sig EXCEPT !.todo = @ \ {c}, !.asking = @ \cup {c}]
    /\ UNCHANGED <<dataset, out, partial, amounts, amt, starts, kills>>

(* Mutant of Checkpoint: the output is the checkpoint. *)
CheckpointOut ==
    /\ out' = [cases |-> sig'.signals \cup sig'.done \cup sig'.failed,
               signals |-> sig'.signals \cup sig'.done, amounts |-> sig'.amounts]
    /\ UNCHANGED partial

(* Everything known goes to the checkpoint, a file of its own. *)
Checkpoint ==
    /\ partial' = [cases |-> sig'.signals \cup sig'.done \cup sig'.failed,
                   signals |-> sig'.signals \cup sig'.done, amounts |-> sig'.amounts]
    /\ UNCHANGED out

Answered(run) == Cardinality(run.done) + Cardinality(run.failed)

(* extract_signals answers, or fails after its attempts; the case is the    *)
(* dataset's, without the amount an earlier output may have had.            *)
GetSignals(c) ==
    /\ sig.at = "work" /\ c \in sig.asking
    /\ \/ sig' = [sig EXCEPT !.asking = @ \ {c}, !.done = @ \cup {c}]
       \/ sig' = [sig EXCEPT !.asking = @ \ {c}, !.failed = @ \cup {c}]
    /\ IF Answered(sig') % Every = 0 THEN Checkpoint ELSE UNCHANGED <<out, partial>>
    /\ UNCHANGED <<dataset, amounts, amt, starts, kills>>

(* The output is written whole at the end ... *)
WriteOut ==
    /\ Through(sig)
    /\ out' = [cases |-> sig.cases, signals |-> (sig.signals \cup sig.done) \cap sig.cases,
               amounts |-> sig.amounts \cap sig.cases]
    /\ sig' = [sig EXCEPT !.at = "unlink"]
    /\ UNCHANGED <<dataset, partial, amounts, amt, starts, kills>>

(* ... and the checkpoint removed. *)
Unlink ==
    /\ sig.at = "unlink"
    /\ partial' = Missing
    /\ sig' = Off
    /\ UNCHANGED <<dataset, out, amounts, amt, starts, kills>>

-----------------------------------------------------------------------------
(* The amounts of the checkpoint are put into the loaded file at once. *)
BeginAmounts ==
    LET kept == IF amounts = Missing THEN {} ELSE amounts IN
    /\ ~On(amt) /\ starts["amounts"] < MaxStarts
    /\ Whole(out) /\ amounts # Torn
    /\ amt' = [at |-> "work", cases |-> out.cases, signals |-> out.signals,
               amounts |-> out.amounts \cup (kept \cap out.cases),
               kept |-> kept, todo |-> out.cases \ (out.amounts \cup kept),
               asking |-> {}, done |-> {}, failed |-> {}, met |-> On(sig)]
    /\ sig' = Met(sig)
    /\ starts' = [starts EXCEPT !["amounts"] = @ + 1]
    /\ UNCHANGED <<dataset, out, partial, amounts, kills>>

AskAmount(c) ==
    /\ amt.at = "work" /\ c \in amt.todo
    /\ Cardinality(amt.asking) < Workers
    /\ amt' = [amt EXCEPT !.todo = @ \ {c}, !.asking = @ \cup {c}]
    /\ UNCHANGED <<dataset, out, partial, amounts, sig, starts, kills>>

(* The case gets an amount, or the fact that none is claimed; after a       *)
(* failure it waits for the next run, and no checkpoint is due.             *)
GetAmount(c) ==
    /\ amt.at = "work" /\ c \in amt.asking
    /\ \/ /\ amt' = [amt EXCEPT !.asking = @ \ {c}, !.done = @ \cup {c},
                                !.amounts = @ \cup {c}, !.kept = @ \cup {c}]
          /\ amounts' = IF Answered(amt') % Every = 0 THEN amt'.kept ELSE amounts
       \/ /\ amt' = [amt EXCEPT !.asking = @ \ {c}, !.failed = @ \cup {c}]
          /\ UNCHANGED amounts
    /\ UNCHANGED <<dataset, out, partial, sig, starts, kills>>

(* The file is rewritten as it was loaded, with the amounts. *)
WriteAmounts ==
    /\ Through(amt)
    /\ out' = [cases |-> amt.cases, signals |-> amt.signals, amounts |-> amt.amounts]
    /\ amt' = Off
    /\ UNCHANGED <<dataset, partial, amounts, sig, starts, kills>>

-----------------------------------------------------------------------------
Killed == kills < MaxKills /\ kills' = kills + 1

KillSignals ==
    /\ On(sig) /\ Killed
    /\ sig' = Off
    /\ \/ UNCHANGED <<out, partial>>
       \/ sig.asking # {} /\ partial' = Torn /\ UNCHANGED out
       \/ Through(sig) /\ out' = Torn /\ UNCHANGED partial
    /\ UNCHANGED <<dataset, amounts, amt, starts>>

KillAmounts ==
    /\ On(amt) /\ Killed
    /\ amt' = Off
    /\ \/ UNCHANGED <<out, amounts>>
       \/ amt.asking # {} /\ amounts' = Torn /\ UNCHANGED out
       \/ Through(amt) /\ out' = Torn /\ UNCHANGED amounts
    /\ UNCHANGED <<dataset, partial, sig, starts>>

SignalsStep == WriteOut \/ Unlink \/ \E c \in Cases : AskSignals(c) \/ GetSignals(c)
AmountsStep == WriteAmounts \/ \E c \in Cases : AskAmount(c) \/ GetAmount(c)

Next ==
    \/ \E c \in Cases : Source(c)
    \/ \E fresh \in BOOLEAN : BeginSignals(fresh)
    \/ BeginAmounts
    \/ SignalsStep \/ AmountsStep
    \/ KillSignals \/ KillAmounts

Spec == Init /\ [][Next]_vars
-----------------------------------------------------------------------------
Files == [cases : SUBSET Cases, signals : SUBSET Cases, amounts : SUBSET Cases]
    \cup {Missing, Torn}

(* The type invariant; the enriched file has signals and amounts of its own *)
(* cases only, and a run holds at most one case a thread (extract_case_-    *)
(* signals, extract_claim_amounts).                                         *)
TypeOK ==
    /\ dataset \subseteq Cases
    /\ {out, partial} \subseteq Files
    /\ amounts \in (SUBSET Cases) \cup {Missing, Torn}
    /\ Whole(out) => out.signals \cup out.amounts \subseteq out.cases
    /\ \A run \in {sig, amt} :
           On(run) => Cardinality(run.asking) <= Workers /\ run.asking \cap run.todo = {}
    /\ starts \in [{"signals", "amounts"} -> 0 .. MaxStarts] /\ kills \in 0 .. MaxKills

(* "a mid-run write there would silently truncate every later eval": the    *)
(* enriched file loses no case that was in the dataset when the run began,  *)
(* unless the two scripts overlapped and the one that adds amounts writes   *)
(* back the file it had loaded.                                             *)
OutIsComplete ==
    [][Whole(out) /\ Whole(out') =>
           \A c \in out.cases \ out'.cases :
               (On(sig) /\ c \notin sig.cases) \/ (On(amt) /\ amt.met)]_vars

(* "a long run killed mid-way resumes from this checkpoint": signals that   *)
(* reached the output or its checkpoint stay in one of them, unless a run   *)
(* with --fresh replaces them, the case left the dataset, a kill tears the  *)
(* file, or the scripts overlapped.                                         *)
SignalsSurvive ==
    [][Torn \notin {out', partial'} =>
           \A c \in (Signals(out) \cup Signals(partial))
                    \ (Signals(out') \cup Signals(partial')) :
               \/ On(sig) /\ c \notin sig.cases
               \/ (On(sig) /\ (sig.fresh \/ sig.met)) \/ (On(amt) /\ amt.met)]_vars

(* An amount leaves the enriched file only in a run that extracted the      *)
(* signals of its case again, that took the case from a checkpoint, or that *)
(* overlapped a run of the other script; or the case left the dataset.      *)
AmountsSurvive ==
    [][Whole(out) /\ Whole(out') =>
           \A c \in out.amounts \ out'.amounts :
               \/ On(sig) /\ c \notin sig.cases
               \/ On(sig) /\ (sig.met \/ c \in sig.done \cup sig.failed \cup sig.from)
               \/ On(amt) /\ amt.met]_vars
=============================================================================
