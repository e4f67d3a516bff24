----------------------------- MODULE MCScriptParts -----------------------------
(* ScriptParts on small sets. *)
EXTENDS ScriptParts, TLC

CONSTANTS a1, a2, b1, b2, k1, k2, d1, d2, f1, f2, v1, v2, t1, t2, w1, won, lost

Symmetry == Permutations(A) \cup Permutations(B)

ASSUME PartsAssumption

SomeComplex == d2 :> k1

SomeReadings == {None, 0, 90}

(* One case of the dataset follows the sources and, by the first of them,   *)
(* the rest; the other follows its facts and is escalated with one of them. *)
FollowsCodeOrFacts ==
    [x \in CaseIds \X Facts \X Codes \X Rests |->
        IF x[1] = k1 THEN IF x[3] = v1 /\ x[4] = t1 THEN won ELSE lost
        ELSE IF x[2] = f1 THEN won ELSE IF x[3] = v1 THEN lost ELSE None]

(* On the sheets one case follows the day; the other is escalated by newer  *)
(* sources.                                                                 *)
SomeDecided ==
    [x \in CaseIds \X (1 .. MaxVersions) \X Rests |->
        IF x[1] = k1 THEN IF x[3] = t1 THEN won ELSE lost
        ELSE IF x[2] = 1 THEN lost ELSE None]

(* A judge that agrees with one outcome, of a scripted run, and not with    *)
(* the other, of a live one.                                                *)
SomeJudgements ==
    {[c \in CaseIds |->
        IF c = k1 THEN [ai |-> TRUE, real |-> TRUE, sim |-> TRUE, of |-> won, live |-> FALSE]
        ELSE [ai |-> TRUE, real |-> FALSE, sim |-> FALSE, of |-> won, live |-> TRUE]]}

SomeTexts ==
    {[vars |-> <<"n">>, brand |-> TRUE, long |-> FALSE, list |-> FALSE],
     [vars |-> <<"n", "pct">>, brand |-> FALSE, long |-> TRUE, list |-> FALSE],
     [vars |-> <<>>, brand |-> FALSE, long |-> FALSE, list |-> TRUE]}

Edited == [cv |-> 1500, exif |-> TRUE, software |-> "gimp", backdated |-> FALSE]
Stripped == [cv |-> 800, exif |-> FALSE, software |-> None, backdated |-> FALSE]
Paper == [blank |-> FALSE, agreement |-> TRUE, signed |-> TRUE, dated |-> TRUE, words |-> {w1},
          scanned |-> FALSE, ocr |-> 0, isImage |-> FALSE, image |-> None]
SomeContents ==
    {[Paper EXCEPT !.dated = FALSE], [Paper EXCEPT !.signed = FALSE, !.words = {}],
     [Paper EXCEPT !.blank = TRUE, !.scanned = TRUE, !.words = {}],
     [Paper EXCEPT !.isImage = TRUE, !.scanned = TRUE, !.ocr = 900, !.image = Edited],
     [Paper EXCEPT !.isImage = TRUE, !.scanned = TRUE, !.ocr = 400, !.image = Stripped, !.words = {}],
     [Paper EXCEPT !.isImage = TRUE, !.image = None]}
It(type, docs, snippet, values) ==
    [type |-> type, docs |-> docs, snippet |-> snippet, values |-> values]
SomeAnswers ==
    {{}, {It("amount_mismatch", {d1, d2}, w1, "far")}, {It("name_inconsistency", {d1}, None, "near")},
     {It("name_inconsistency", {d2}, w1, "number")},
     {It("date_conflict", {d2, None}, None, None), It("image_authenticity", {d2}, w1, None)},
     {It("amount_mismatch", {d2}, None, "number"), It("amount_mismatch", {d1}, w1, "near")}}

Cl(asks, says, evidence) == [asks |-> asks, says |-> says, evidence |-> evidence, amount |-> 4]
SomeClaims ==
    {Cl({}, {}, 0), Cl({"injunction", "void"}, {}, 1),
     Cl({"heirs", "void", "possession"}, {"never delivered"}, 4),
     Cl({"partition wall"}, {"promissory note"}, 0),
     Cl({"arbitration_referral", "injunction"}, {"promissory note"}, 2),
     Cl({"partition of", "replacement"}, {"promissory note", "cheque bounced"}, 4),
     [Cl({"specific_performance", "injunction"}, {}, 1) EXCEPT !.amount = 0]}
Re(terms, counter) ==
    [accepts |-> FALSE, absent |-> FALSE, terms |-> terms, unsupported |-> FALSE, counter |-> counter]
SomeReplies ==
    {None, [Re({}, None) EXCEPT !.accepts = TRUE], [Re({}, 3) EXCEPT !.accepts = TRUE],
     [Re({a1}, None) EXCEPT !.absent = TRUE], [Re({a1, b1}, None) EXCEPT !.unsupported = TRUE]}
    \cup {Re(terms, None) : terms \in SUBSET {a1, a2, b1, b2}}
    \cup {Re(terms, counter) : terms \in {{}, {a1}, {b1}}, counter \in {0, 2, 5}}

-----------------------------------------------------------------------------
(* What TLC begins with: the parts a behaviour is not about begin in one    *)
(* state only, and the case that does not follow its facts with one of them.*)
MCInit ==
    /\ Init
    /\ code = v1 /\ rest = t1 /\ day = t1
    /\ \A k \in CaseIds : part # "verdicts" \/ k = k1 => facts[k] = f1
    /\ part # "strings" => \A k \in Keys : en[k].list
    /\ part # "findings" => valued /\ \A d \in Papers : content[d].words = {} /\ content[d].blank

(* Bounds: a sheet is built once for each version, and the day does not turn*)
(* while a person labels; a run of the judging that starts over, and so has *)
(* no cache, does not resume.                                               *)
MCNext ==
    /\ Next
    /\ builds' <= version'
    /\ day' # day => session.at = "closed"
    /\ judging'.at = "on" => ~(judging'.fresh /\ judging'.resume)

MCSpec == MCInit /\ [][MCNext]_vars
=============================================================================
