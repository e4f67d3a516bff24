-------------------------------- MODULE UiStrings --------------------------------
(***************************************************************************)
(* The dictionaries of the web client's labels.  A developer edits the     *)
(* English one; scripts/translate_ui_strings.py makes another language's   *)
(* of it, label by label, protecting the {{placeholders}} and the brand    *)
(* from the translation service; scripts/verify_translations.py compares   *)
(* the two and writes a report.  One language is modelled, two runs may    *)
(* overlap each other and the edits.  A text is what is left in it of the  *)
(* placeholders, the brand and the numbers that stand in for them.         *)
(***************************************************************************)
EXTENDS Naturals, Sequences, FiniteSets, SequencesExt

CONSTANTS
    Keys,
    EnTexts,  \* the English texts a label may have, or a list of labels
    MaxEdits, \* bound on the edits of the English dictionary
    None

(* vars: its placeholders in their order; long: it has enough words for     *)
(* its round trip to be compared (MIN_WORDS_FOR_AUTO_CHECK).                *)
EnTextsAssumption ==
    \A t \in EnTexts : DOMAIN t = {"vars", "brand", "long", "list"}
EditsAssumption == MaxEdits \in Nat

TokenBase == 900

VARIABLES
    en,       \* the English dictionary
    edits,    \* edits of it so far
    file,     \* the dictionary of the language
    making,   \* the run that translates
    checking, \* the run that verifies
    report    \* the last report, with what the run had read

vars == <<en, edits, file, making, checking, report>>

Idle == [at |-> "idle"]
Texts == {k \in Keys : en[k] # None}

Init ==
    /\ en \in [Keys -> EnTexts]
    /\ edits = 0
    /\ file = None
    /\ making = Idle /\ checking = Idle
    /\ report = None

(* A label is changed or removed; external. *)
EditEnglish(k, text) ==
    /\ edits < MaxEdits /\ text # en[k]
    /\ edits' = edits + 1
    /\ en' = [en EXCEPT ![k] = text]
    /\ UNCHANGED <<file, making, checking, report>>

-----------------------------------------------------------------------------
(* translate_ui_strings.py *)
Plain(text) == [vars |-> Range(text.vars), tokens |-> {}, brand |-> text.brand]

(* The placeholders and the brand, in the order of their numbers. *)
Originals(text) == text.vars \o (IF text.brand THEN <<"brand">> ELSE <<>>)

Protect(text) ==
    [vars |-> {}, brand |-> FALSE,
     tokens |-> {TokenBase + i - 1 : i \in DOMAIN Originals(text)}]

(* What the service may make of a text (external): it may lose numbers,     *)
(* placeholders and the brand, or not answer (None).                        *)
Answers(text) ==
    {None} \cup [vars : SUBSET text.vars, tokens : SUBSET text.tokens,
                 brand : {text.brand, FALSE}]

Restore(text, originals) ==
    LET found == {originals[i] : i \in {j \in DOMAIN originals :
                                           TokenBase + j - 1 \in text.tokens}}
    IN [vars |-> text.vars \cup (found \ {"brand"}), tokens |-> {},
        brand |-> text.brand \/ "brand" \in found]

CheckPlaceholders(original, translated) == Range(original.vars) \subseteq translated.vars

(* Entries remember the English text they were made of, for the properties. *)
Entry(text, original, isEnglish) == [text |-> text, of |-> original, english |-> isEnglish]

(* Mutant of TranslateKey: the second attempt is not checked. *)
TranslateKeyTrusting(original, answer, raw) ==
    IF answer # None /\ CheckPlaceholders(original, Restore(answer, Originals(original)))
    THEN Entry(Restore(answer, Originals(original)), original, FALSE)
    ELSE IF raw # None THEN Entry(raw, original, FALSE)
    ELSE Entry(Plain(original), original, TRUE)

(* Numbers in place of the placeholders; the text as it is; the English     *)
(* text.  The first that keeps every placeholder is taken.                  *)
TranslateKey(original, answer, raw) ==
    IF answer # None /\ CheckPlaceholders(original, Restore(answer, Originals(original)))
    THEN Entry(Restore(answer, Originals(original)), original, FALSE)
    ELSE IF raw # None /\ CheckPlaceholders(original, raw)
    THEN Entry(raw, original, FALSE)
    ELSE Entry(Plain(original), original, TRUE)

(* With the gateway disabled the script ends here, and nothing changes.     *)
StartTranslating ==
    /\ making = Idle
    /\ making' = [at |-> "run", en |-> en, todo |-> Texts, out |-> [k \in Keys |-> None]]
    /\ UNCHANGED <<en, edits, file, checking, report>>

(* A list of labels is no text: the run ends with an error, before it has   *)
(* written anything.                                                        *)
TranslateNext(k) ==
    /\ making.at = "run" /\ k \in making.todo
    /\ LET original == making.en[k]
       IN IF original.list THEN making' = Idle
          ELSE \E answer \in Answers(Protect(original)), raw \in Answers(Plain(original)) :
                   making' = [making EXCEPT !.todo = @ \ {k},
                                            !.out[k] = TranslateKey(original, answer, raw)]
    /\ UNCHANGED <<en, edits, file, checking, report>>

WriteDictionary ==
    /\ making.at = "run" /\ making.todo = {}
    /\ file' = making.out
    /\ making' = Idle
    /\ UNCHANGED <<en, edits, checking, report>>

-----------------------------------------------------------------------------
(* verify_translations.py *)
(* The language is skipped where there is no dictionary: nothing is found.  *)
StartChecking ==
    /\ checking = Idle
    /\ checking' = [at |-> "run", en |-> en, file |-> file, flags |-> [k \in Keys |-> None],
                    todo |-> IF file = None THEN {} ELSE Texts]
    /\ UNCHANGED <<en, edits, file, making, report>>

Finding(original, entry, similar) ==
    IF entry = None THEN "missing_key"
    ELSE IF ~CheckPlaceholders(original, entry.text) THEN "placeholder_mismatch"
    ELSE IF ~original.long THEN "too_short"
    ELSE IF ~similar THEN "low_similarity" ELSE None

(* The round trip is similar to the English text or not; without an answer  *)
(* the entry itself is compared, and only English is similar to English.    *)
CheckNext(k) ==
    /\ checking.at = "run" /\ k \in checking.todo
    /\ LET original == checking.en[k]
           entry == checking.file[k]
       IN \E similar \in BOOLEAN, answered \in BOOLEAN :
             /\ ~answered /\ entry # None => (similar <=> entry.english /\ entry.of = original)
             /\ checking' = [checking EXCEPT !.todo = @ \ {k},
                                             !.flags[k] = Finding(original, entry, similar)]
    /\ UNCHANGED <<en, edits, file, making, report>>

WriteReport ==
    /\ checking.at = "run" /\ checking.todo = {}
    /\ report' = [en |-> checking.en, file |-> checking.file, flags |-> checking.flags]
    /\ checking' = Idle
    /\ UNCHANGED <<en, edits, file, making>>

Next ==
    \/ StartTranslating \/ WriteDictionary \/ StartChecking \/ WriteReport
    \/ \E k \in Keys :
          \/ TranslateNext(k) \/ CheckNext(k)
          \/ \E text \in EnTexts \cup {None} : EditEnglish(k, text)

Spec == Init /\ [][Next]_vars

-----------------------------------------------------------------------------
(* The type invariant. *)
TypeOK ==
    /\ edits \in 0 .. MaxEdits
    /\ en \in [Keys -> EnTexts \cup {None}]
    /\ file # None => \A k \in Keys : file[k] # None => file[k].text.tokens = {}
    /\ making # Idle => making.todo \subseteq {k \in Keys : making.en[k] # None}

(* What the client's t() shows of a label. *)
Shown(k) == IF file # None /\ file[k] # None THEN file[k].text ELSE Plain(en[k])

(* "A broken interpolation token never reaches the frontend": as long as    *)
(* the English label is the one that was translated, what is shown has all  *)
(* its placeholders, whatever the service did; and when an edit has made    *)
(* that untrue, the report of a run that read both dictionaries as they now *)
(* are names the label.                                                     *)
BrokenLabelsAreFound ==
    \A k \in Texts :
        ~CheckPlaceholders(en[k], Shown(k)) =>
            /\ file[k].of # en[k]
            /\ report # None /\ report.en = en /\ report.file = file =>
                   report.flags[k] = "placeholder_mismatch"
=============================================================================
