------------------------------- MODULE CaseViews -------------------------------
(***************************************************************************)
(* What a reader sees of a case, and in which language (app/main.py: the   *)
(* language gateway helpers, GET /cases/{id}, the audio of a proposal and  *)
(* of an order).  The record is meant to be English; a view translates a   *)
(* copy, text by text, while jobs and the other party rewrite the record   *)
(* and the translator comes and goes.  A text is known by what it says and *)
(* the language it is in.                                                  *)
(***************************************************************************)
EXTENDS Naturals

CONSTANTS
    Readers,     \* requests under way
    Languages,   \* the users' languages
    English,     \* the pipeline's
    MaxVersions, \* bound on how often proposal and order are written
    None

EnglishAssumption == English \in Languages /\ None \notin Languages
BoundAssumption == MaxVersions \in Nat

VARIABLES
    case,     \* the record, None before it is created
    enabled,  \* whether the gateway is configured
    up,       \* whether the translator answers
    view,     \* what each reader has loaded and been shown
    lapsed    \* history: parts of the record whose translation failed

vars == <<case, enabled, up, view, lapsed>>

Parts == {"description", "statement"}   \* what the parties wrote
Drafts == {"mediation", "resolution"}   \* what the agents wrote

Text == [says : Nat, in : Languages]
Case == [source : Languages,
         text : [Parts -> Text \cup {None}], original : [Parts -> Text \cup {None}],
         draft : [Drafts -> Text \cup {None}]]

Idle == [at |-> "idle"]

Init ==
    /\ case = None
    /\ enabled \in BOOLEAN /\ up \in BOOLEAN
    /\ view = [r \in Readers |-> Idle]
    /\ lapsed = {}

-----------------------------------------------------------------------------
(* to_pipeline_language: the text as it was if nothing translates it. *)
Inbound(text) == IF enabled /\ up THEN [text EXCEPT !.in = English] ELSE text

(* Without the gateway every text is taken to be in the default language.   *)
SourceLanguage(text) == IF enabled THEN text.in ELSE English

Received(part, text) ==
    lapsed' = IF Inbound(text).in = English THEN lapsed \ {part} ELSE lapsed \cup {part}

CreateCase(lang) ==
    LET text == [says |-> 1, in |-> lang] IN
    /\ case = None
    /\ case' = [source |-> SourceLanguage(text),
                text |-> [p \in Parts |-> IF p = "description" THEN Inbound(text) ELSE None],
                original |-> [p \in Parts |-> IF p = "description" THEN text ELSE None],
                draft |-> [d \in Drafts |-> None]]
    /\ Received("description", text)
    /\ UNCHANGED <<enabled, up, view>>

Respond(lang) ==
    LET text == [says |-> 1, in |-> lang] IN
    /\ case # None
    /\ case' = [case EXCEPT !.text["statement"] = Inbound(text),
                            !.original["statement"] = text]
    /\ Received("statement", text)
    /\ UNCHANGED <<enabled, up, view>>

(* A job writes its proposal or its order, in English. *)
Persist(d) ==
    LET says == IF case.draft[d] = None THEN 1 ELSE case.draft[d].says + 1 IN
    /\ says <= MaxVersions
    /\ case' = [case EXCEPT !.draft[d] = [says |-> says, in |-> English]]
    /\ UNCHANGED <<enabled, up, view, lapsed>>

Change ==
    /\ up' = ~up
    /\ UNCHANGED <<case, enabled, view, lapsed>>

-----------------------------------------------------------------------------
(* _resolve_target_language *)
TargetLanguage(lang) == IF lang # None THEN lang ELSE case.source

Verbatim(p, target) == target = case.source /\ case.original[p] # None

Plain(target) == ~enabled \/ target = English

(* The record is loaded and copied.  Where a translation is called for, the *)
(* parties' own words stand in the filing language; elsewhere, the copy in  *)
(* the record.                                                              *)
Open(r, lang, what) ==
    LET target == TargetLanguage(lang) IN
    /\ case # None
    /\ view[r] = Idle
    /\ what # "page" => case.draft[what] # None
    /\ view' = [view EXCEPT ![r] =
           [at |-> IF Plain(target) THEN "done" ELSE "mediation",
            what |-> what, lang |-> target, loaded |-> case,
            parts |-> [p \in Parts |-> IF ~Plain(target) /\ Verbatim(p, target)
                                       THEN case.original[p] ELSE case.text[p]],
            drafts |-> case.draft]]
    /\ UNCHANGED <<case, enabled, up, lapsed>>

(* to_user_language: English when the translator does not answer. *)
Outbound(text, target) == IF up /\ text # None THEN [text EXCEPT !.in = target] ELSE text

After(d) == IF d = "mediation" THEN "resolution" ELSE "done"

(* Mutant of Localize: what is translated is what the record says now. *)
LocalizeNow(r, d) ==
    /\ view[r].at = d
    /\ view' = [view EXCEPT ![r].at = After(d),
                            ![r].drafts[d] = Outbound(case.draft[d], view[r].lang)]
    /\ UNCHANGED <<case, enabled, up, lapsed>>

(* _localize_payload_dict, of the proposal and then of the order. *)
Localize(r, d) ==
    /\ view[r].at = d
    /\ view' = [view EXCEPT ![r].at = After(d),
                            ![r].drafts[d] = Outbound(view[r].drafts[d], view[r].lang)]
    /\ UNCHANGED <<case, enabled, up, lapsed>>

(* The page is closed; or the text of the draft is read aloud, in the       *)
(* language asked for.                                                      *)
Close(r) ==
    /\ view[r].at = "done"
    /\ view' = [view EXCEPT ![r] = Idle]
    /\ UNCHANGED <<case, enabled, up, lapsed>>

Next ==
    \/ \E lang \in Languages : CreateCase(lang) \/ Respond(lang)
    \/ case # None /\ \E d \in Drafts : Persist(d)
    \/ Change
    \/ \E r \in Readers :
           \/ \E lang \in Languages \cup {None}, what \in {"page"} \cup Drafts :
                  Open(r, lang, what)
           \/ \E d \in Drafts : Localize(r, d)
           \/ Close(r)

Spec == Init /\ [][Next]_vars

-----------------------------------------------------------------------------
Done(r) == view[r].at = "done"

(* The type invariant. *)
TypeOK ==
    /\ case = None \/ case \in Case
    /\ enabled \in BOOLEAN /\ up \in BOOLEAN /\ lapsed \subseteq Parts
    /\ \A r \in Readers : view[r].at \in {"idle", "mediation", "resolution", "done"}

(* A view is of one moment: proposal and order are those of the record as   *)
(* it was loaded, in the reader's language or in English, and what a party  *)
(* wrote is shown in its own words or as the record has it, in its own      *)
(* words only to a reader of the filing language.                           *)
ViewIsOfOneRecord ==
    \A r \in Readers : Done(r) =>
        LET v == view[r] IN
        /\ \A d \in Drafts :
               IF v.loaded.draft[d] = None THEN v.drafts[d] = None
               ELSE /\ v.drafts[d].says = v.loaded.draft[d].says
                    /\ v.drafts[d].in \in {English, v.lang}
        /\ \A p \in Parts :
               v.parts[p] # v.loaded.text[p] =>
                   v.parts[p] = v.loaded.original[p] /\ v.lang = v.loaded.source
=============================================================================
