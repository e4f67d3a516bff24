--------------------------- MODULE ServerParts_proofs ---------------------------
(* Theorems about the parts of the server in MCServerParts, for every value  *)
(* of their constants.                                                       *)
EXTENDS MCServerParts, FiniteSetTheorems, SequenceTheorems, WellFoundedInduction, TLAPS

-----------------------------------------------------------------------------
(* Whichever part a behaviour is about, it is one of each of them.           *)

LEMMA StepsOfParts ==
    ASSUME [Next]_vars
    PROVE  /\ [E!Next]_(E!vars)
           /\ [D!Next]_(D!vars)
           /\ [R!Next]_(R!vars)
           /\ [V!Next]_(V!vars)
           /\ [K!Next]_(K!vars)
           /\ [P!Next]_(P!vars)
           /\ [M!Next]_(M!vars)
BY Zenon DEF Next, vars, eVars, dVars, rVars, vVars, kVars, pVars, mVars, E!vars, D!vars, R!vars,
       V!vars, K!vars, P!vars, P!disk, P!process, M!vars

LEMMA PartsOfSpec == Spec => E!Spec /\ D!Spec /\ R!Spec /\ V!Spec /\ K!Spec /\ P!Spec /\ M!Spec
<1>1. Init => E!Init /\ D!Init /\ R!Init /\ V!Init /\ K!Init /\ P!Init /\ M!Init
  BY DEF Init
<1>2. [Next]_vars => /\ [E!Next]_(E!vars)
                     /\ [D!Next]_(D!vars)
                     /\ [R!Next]_(R!vars)
                     /\ [V!Next]_(V!vars)
                     /\ [K!Next]_(K!vars)
                     /\ [P!Next]_(P!vars)
                     /\ [M!Next]_(M!vars)
  BY StepsOfParts
<1> QED BY <1>1, <1>2, PTL DEF Spec, E!Spec, D!Spec, R!Spec, V!Spec, K!Spec, P!Spec, M!Spec

-----------------------------------------------------------------------------
(* The case page: what a reader has before it is opening and being           *)
(* translated, and what is on record is in English.                          *)

ViewType ==
    [at : {"mediation", "resolution", "done"}, what : {"page"} \cup V!Drafts,
     lang : {English} \cup B, loaded : V!Case, parts : [V!Parts -> V!Text \cup {None}],
     drafts : [V!Drafts -> V!Text \cup {None}]]

OfOneRecord(v) ==
    /\ \A d \in V!Drafts :
           IF v.loaded.draft[d] = None THEN v.drafts[d] = None
           ELSE /\ v.drafts[d].says = v.loaded.draft[d].says
                /\ v.drafts[d].in \in {English, v.lang}
    /\ \A p \in V!Parts :
           v.parts[p] # v.loaded.text[p] =>
               v.parts[p] = v.loaded.original[p] /\ v.lang = v.loaded.source

CaseInv ==
    /\ case = None \/ case \in V!Case
    /\ case # None => \A d \in V!Drafts : case.draft[d] # None => case.draft[d].in = English

ReadersInv ==
    /\ view \in [Readers -> {V!Idle} \cup ViewType]
    /\ \A r \in Readers : view[r].at # "idle" => OfOneRecord(view[r])

ViewsInv ==
    /\ CaseInv /\ ReadersInv
    /\ enabled \in BOOLEAN /\ up \in BOOLEAN /\ lapsed \subseteq V!Parts

LEMMA ReaderStep ==
    ASSUME ReadersInv, NEW r \in Readers, NEW v \in ViewType, OfOneRecord(v),
           view' = [view EXCEPT ![r] = v]
    PROVE  ReadersInv'
<1>1. view' \in [Readers -> {V!Idle} \cup ViewType]
  BY DEF ReadersInv
<1>2. \A s \in Readers : view'[s].at # "idle" => OfOneRecord(view'[s])
  BY DEF ReadersInv
<1> HIDE DEF OfOneRecord
<1> QED BY <1>1, <1>2 DEF ReadersInv, OfOneRecord, ViewType, V!Idle, V!Case, V!Text, V!Parts, V!Drafts

LEMMA CaseStep ==
    ASSUME ViewsInv,
           \/ \E lang \in {English} \cup B : V!CreateCase(lang) \/ V!Respond(lang)
           \/ case # None /\ \E d \in V!Drafts : V!Persist(d)
    PROVE  ViewsInv'
<1>1. UNCHANGED <<enabled, up, view>>
  BY DEF V!CreateCase, V!Respond, V!Persist
<1>2. ASSUME NEW lang \in {English} \cup B, NEW says \in Nat
      PROVE  LET text == [says |-> says, in |-> lang] IN
             text \in V!Text /\ V!Inbound(text) \in V!Text /\ V!SourceLanguage(text) \in {English} \cup B
  BY DEF V!Text, V!Inbound, V!SourceLanguage
<1>3. CASE \E lang \in {English} \cup B : V!CreateCase(lang)
  <2>1. PICK lang \in {English} \cup B : V!CreateCase(lang)
    BY <1>3
  <2> DEFINE text == [says |-> 1, in |-> lang]
  <2>2. text \in V!Text /\ V!Inbound(text) \in V!Text /\ V!SourceLanguage(text) \in {English} \cup B
    BY <1>2
  <2>3. /\ case' = [source |-> V!SourceLanguage(text),
                    text |-> [p \in V!Parts |-> IF p = "description" THEN V!Inbound(text) ELSE None],
                    original |-> [p \in V!Parts |-> IF p = "description" THEN text ELSE None],
                    draft |-> [d \in V!Drafts |-> None]]
        /\ V!Received("description", text)
    BY <2>1 DEF V!CreateCase
  <2> HIDE DEF text
  <2>4. case' \in V!Case /\ \A d \in V!Drafts : case'.draft[d] = None
    BY <2>2, <2>3 DEF V!Case
  <2>5. lapsed' \subseteq V!Parts
    BY <2>3 DEF V!Received, ViewsInv, V!Parts
  <2> QED BY <1>1, <2>4, <2>5 DEF ViewsInv, CaseInv, ReadersInv
<1>4. CASE \E lang \in {English} \cup B : V!Respond(lang)
  <2>1. PICK lang \in {English} \cup B : V!Respond(lang)
    BY <1>4
  <2> DEFINE text == [says |-> 1, in |-> lang]
  <2>2. text \in V!Text /\ V!Inbound(text) \in V!Text
    BY <1>2
  <2>3. /\ case \in V!Case /\ case # None
        /\ case' = [case EXCEPT !.text["statement"] = V!Inbound(text), !.original["statement"] = text]
        /\ V!Received("statement", text)
    BY <2>1 DEF V!Respond, ViewsInv, CaseInv
  <2> HIDE DEF text
  <2>4. case' \in V!Case /\ case'.draft = case.draft
    BY <2>2, <2>3 DEF V!Case, V!Parts
  <2>5. lapsed' \subseteq V!Parts
    BY <2>3 DEF V!Received, ViewsInv, V!Parts
  <2> QED BY <1>1, <2>3, <2>4, <2>5 DEF ViewsInv, CaseInv, ReadersInv
<1>5. CASE case # None /\ \E d \in V!Drafts : V!Persist(d)
  <2>1. PICK d \in V!Drafts : V!Persist(d)
    BY <1>5
  <2> DEFINE says == IF case.draft[d] = None THEN 1 ELSE case.draft[d].says + 1
             text == [says |-> says, in |-> English]
  <2>2. case \in V!Case /\ case' = [case EXCEPT !.draft[d] = text] /\ lapsed' = lapsed
    BY <1>5, <2>1 DEF V!Persist, ViewsInv, CaseInv
  <2>3. says \in Nat
    BY <2>2 DEF V!Case, V!Text
  <2>4. text \in V!Text /\ text.in = English
    BY <2>3 DEF V!Text
  <2> HIDE DEF says, text
  <2>5. case' \in V!Case /\ case'.draft[d] = text /\ \A e \in V!Drafts \ {d} : case'.draft[e] = case.draft[e]
    BY <2>2, <2>4 DEF V!Case
  <2> QED BY <1>1, <1>5, <2>2, <2>4, <2>5 DEF ViewsInv, CaseInv, ReadersInv
<1> QED BY <1>3, <1>4, <1>5

LEMMA OpenStep ==
    ASSUME ViewsInv, V!EnglishAssumption, NEW r \in Readers, NEW lang \in {English} \cup B \cup {None},
           NEW what \in {"page"} \cup V!Drafts, V!Open(r, lang, what)
    PROVE  ViewsInv'
<1> DEFINE target == V!TargetLanguage(lang)
           v == [at |-> IF V!Plain(target) THEN "done" ELSE "mediation",
                 what |-> what, lang |-> target, loaded |-> case,
                 parts |-> [p \in V!Parts |-> IF ~V!Plain(target) /\ V!Verbatim(p, target)
                                              THEN case.original[p] ELSE case.text[p]],
                 drafts |-> case.draft]
<1>1. case \in V!Case /\ case # None /\ view' = [view EXCEPT ![r] = v]
      /\ UNCHANGED <<case, enabled, up, lapsed>>
  BY DEF V!Open, ViewsInv, CaseInv
<1>2. target \in {English} \cup B
  BY <1>1 DEF V!TargetLanguage, V!Case
<1>3. \A p \in V!Parts : V!Verbatim(p, target) => target = case.source
  BY DEF V!Verbatim
<1> HIDE DEF target
<1>4. v \in ViewType
  BY <1>1, <1>2 DEF ViewType, V!Case
<1>5. /\ v.loaded = case /\ v.drafts = case.draft /\ v.lang = target
      /\ \A p \in V!Parts : \/ v.parts[p] = case.text[p]
                            \/ v.parts[p] = case.original[p] /\ target = case.source
  BY <1>3
<1> HIDE DEF v
<1>6. OfOneRecord(v)
  BY <1>1, <1>5 DEF OfOneRecord, ViewsInv, CaseInv
<1> QED BY <1>1, <1>4, <1>6, ReaderStep DEF ViewsInv, CaseInv

LEMMA LocalizeStep ==
    ASSUME ViewsInv, NEW r \in Readers, NEW d \in V!Drafts, V!Localize(r, d)
    PROVE  ViewsInv'
<1> DEFINE old == view[r]
           text == V!Outbound(old.drafts[d], old.lang)
           v == [old EXCEPT !.at = V!After(d), !.drafts[d] = text]
<1>1. view' = [view EXCEPT ![r] = v] /\ view[r].at = d /\ UNCHANGED <<case, enabled, up, lapsed>>
  BY DEF V!Localize
<1>2. old \in ViewType /\ OfOneRecord(old)
  BY <1>1 DEF ViewsInv, ReadersInv, V!Idle, V!Drafts
<1>3. V!After(d) \in {"resolution", "done"}
  BY DEF V!After
<1>4. /\ text \in V!Text \cup {None}
      /\ old.drafts[d] = None => text = None
      /\ old.drafts[d] # None => text.says = old.drafts[d].says
                                 /\ text.in \in {old.drafts[d].in, old.lang}
  BY <1>2 DEF V!Outbound, ViewType, V!Text
<1> HIDE DEF text, old
<1>5. /\ v \in ViewType /\ v.loaded = old.loaded /\ v.lang = old.lang /\ v.parts = old.parts
      /\ v.drafts[d] = text /\ \A e \in V!Drafts \ {d} : v.drafts[e] = old.drafts[e]
  BY <1>2, <1>3, <1>4 DEF ViewType
<1> HIDE DEF v
<1>6. OfOneRecord(v)
  BY <1>2, <1>4, <1>5 DEF OfOneRecord
<1> QED BY <1>1, <1>5, <1>6, ReaderStep DEF ViewsInv, CaseInv

LEMMA ViewsStep ==
    ASSUME V!EnglishAssumption, ViewsInv, [V!Next]_(V!vars)
    PROVE  ViewsInv'
<1>1. CASE V!Change
  BY <1>1 DEF V!Change, ViewsInv, CaseInv, ReadersInv
<1>2. CASE \E r \in Readers : V!Close(r)
  <2>1. PICK r \in Readers : view' = [view EXCEPT ![r] = V!Idle] /\ UNCHANGED <<case, enabled, up, lapsed>>
    BY <1>2 DEF V!Close
  <2>2. view' \in [Readers -> {V!Idle} \cup ViewType] /\ view'[r].at = "idle"
        /\ \A s \in Readers \ {r} : view'[s] = view[s]
    BY <2>1 DEF ViewsInv, ReadersInv, V!Idle
  <2> QED BY <2>1, <2>2 DEF ViewsInv, CaseInv, ReadersInv
<1>3. CASE UNCHANGED V!vars
  BY <1>3 DEF V!vars, ViewsInv, CaseInv, ReadersInv
<1> QED BY <1>1, <1>2, <1>3, CaseStep, OpenStep, LocalizeStep DEF V!Next

(* A page of a case is of the record as it was loaded, though jobs and       *)
(* parties rewrite it during the translation (main.py:297-435).              *)
THEOREM ViewsCorrect == Spec => []ViewsAreOfOneMoment
<1>1. V!Init => ViewsInv
  BY DEF V!Init, ViewsInv, CaseInv, ReadersInv, V!Idle
<1>2. ViewsInv /\ [V!Next]_(V!vars) => ViewsInv'
  BY PartsAssumption, ViewsStep DEF PartsAssumption
<1>3. ViewsInv => ViewsAreOfOneMoment
  <2>1. ASSUME ViewsInv PROVE V!TypeOK
    <3>1. \A r \in Readers : view[r].at \in {"idle", "mediation", "resolution", "done"}
      BY <2>1 DEF ViewsInv, ReadersInv, ViewType, V!Idle
    <3> QED BY <2>1, <3>1 DEF ViewsInv, CaseInv, V!TypeOK
  <2>2. ASSUME ViewsInv PROVE V!ViewIsOfOneRecord
    BY <2>2 DEF ViewsInv, ReadersInv, OfOneRecord, V!ViewIsOfOneRecord, V!Done
  <2> QED BY <2>1, <2>2 DEF ViewsAreOfOneMoment
<1> QED BY <1>1, <1>2, <1>3, PartsOfSpec, PTL DEF V!Spec

-----------------------------------------------------------------------------
(* The reviewers' desk: whoever's decision a case has when another's is yet  *)
(* to be written was made after that one's checks.                           *)

RequestsInv ==
    /\ request \in [B -> [case : A, over : SUBSET B] \cup {None}]
    /\ \A r \in B : request[r] # None =>
           deskCase[request[r].case].decision \in {None} \cup request[r].over

DeskInv ==
    /\ deskCase \in [A -> K!Case] /\ page \in [B -> SUBSET A]
    /\ runs \in 0 .. MaxRuns /\ snapshot \in Snapshots \cup {None, Unreadable}
    /\ RequestsInv

(* A job or a party leaves the decision of a case alone.                     *)
LEMMA RecordStep ==
    ASSUME DeskInv, NEW c \in A, NEW record \in K!Case, record.decision = deskCase[c].decision,
           deskCase' = [deskCase EXCEPT ![c] = record], request' = request
    PROVE  /\ RequestsInv' /\ deskCase' \in [A -> K!Case]
           /\ \A b \in A : deskCase'[b].decision = deskCase[b].decision
BY DEF DeskInv, RequestsInv

LEMMA OutcomeStep ==
    ASSUME DeskInv, K!BoundAssumption, NEW c \in A, NEW status \in K!Status \ {"filed"},
           NEW signoff \in BOOLEAN, K!Outcome(c, status, signoff)
    PROVE  DeskInv' /\ \A b \in A : deskCase'[b].decision = deskCase[b].decision
<1> DEFINE record == [deskCase[c] EXCEPT !.status = status,
                          !.signoff = IF status = "resolved" THEN signoff ELSE @]
<1>1. /\ runs < MaxRuns /\ runs' = runs + 1 /\ UNCHANGED <<page, request, snapshot>>
      /\ deskCase' = [deskCase EXCEPT ![c] = record]
  BY DEF K!Outcome, K!desk, DeskInv, K!Case
<1>2. record \in K!Case /\ record.decision = deskCase[c].decision
  BY DEF DeskInv, K!Case
<1>3. runs' \in 0 .. MaxRuns
  BY <1>1 DEF DeskInv, K!BoundAssumption
<1> HIDE DEF record
<1> QED BY <1>1, <1>2, <1>3, RecordStep DEF DeskInv

LEMMA AskStep ==
    ASSUME DeskInv, NEW c \in A, K!RequestReview(c)
    PROVE  DeskInv' /\ \A b \in A : deskCase'[b].decision = deskCase[b].decision
<1> DEFINE record == [deskCase[c] EXCEPT !.asked = TRUE]
<1>1. /\ UNCHANGED <<runs, page, request, snapshot>>
      /\ deskCase' = [deskCase EXCEPT ![c] = record]
  BY DEF K!RequestReview, K!desk, DeskInv, K!Case
<1>2. record \in K!Case /\ record.decision = deskCase[c].decision
  BY DEF DeskInv, K!Case
<1> HIDE DEF record
<1> QED BY <1>1, <1>2, RecordStep DEF DeskInv

LEMMA CheckStep ==
    ASSUME DeskInv, NEW r \in B, NEW c \in A, K!CheckDecision(r, c)
    PROVE  DeskInv' /\ deskCase' = deskCase
<1>1. /\ deskCase[c].decision = None
      /\ request' = [request EXCEPT ![r] = [case |-> c, over |-> {}]]
      /\ UNCHANGED <<deskCase, runs, page, snapshot>>
  BY DEF K!CheckDecision, K!NeedsReview
<1>2. request'[r] = [case |-> c, over |-> {}] /\ \A s \in B \ {r} : request'[s] = request[s]
  BY <1>1 DEF DeskInv, RequestsInv
<1>3. request' \in [B -> [case : A, over : SUBSET B] \cup {None}]
  BY <1>1 DEF DeskInv, RequestsInv
<1> QED BY <1>1, <1>2, <1>3 DEF DeskInv, RequestsInv

LEMMA WriteStep ==
    ASSUME DeskInv, NEW r \in B, K!WriteDecision(r)
    PROVE  /\ DeskInv'
           /\ \A b \in A : deskCase'[b].decision # deskCase[b].decision => b = request[r].case
<1> DEFINE c == request[r].case
           record == [deskCase[c] EXCEPT !.status = "resolved", !.decision = r]
<1>1. c \in A /\ request[r] # None
  BY DEF K!WriteDecision, DeskInv, RequestsInv
<1>2. /\ deskCase' = [deskCase EXCEPT ![c] = record]
      /\ request' = [s \in B |->
             IF s = r THEN None
             ELSE IF request[s] # None /\ request[s].case = c
                  THEN [request[s] EXCEPT !.over = @ \cup {r}] ELSE request[s]]
      /\ UNCHANGED <<runs, page, snapshot>>
  BY <1>1 DEF K!WriteDecision, DeskInv, K!Case
<1>3. record \in K!Case /\ record.decision = r
  <2>1. deskCase[c] \in K!Case
    BY <1>1 DEF DeskInv
  <2> HIDE DEF c
  <2> QED BY <2>1 DEF K!Case, K!Status
<1> HIDE DEF record
<1>4. /\ deskCase' \in [A -> K!Case] /\ deskCase'[c].decision = r
      /\ \A b \in A \ {c} : deskCase'[b] = deskCase[b]
  BY <1>1, <1>2, <1>3 DEF DeskInv
<1>5. ASSUME NEW s \in B, request'[s] # None
      PROVE  /\ s # r /\ request[s] \in [case : A, over : SUBSET B]
             /\ request'[s] \in [case : A, over : SUBSET B]
             /\ request'[s].case = request[s].case
             /\ request[s].over \subseteq request'[s].over
             /\ request[s].case = c => r \in request'[s].over
  <2>1. s # r /\ request[s] \in [case : A, over : SUBSET B]
    BY <1>2, <1>5 DEF DeskInv, RequestsInv
  <2>2. CASE request[s].case = c
    <3>1. request'[s] = [case |-> request[s].case, over |-> request[s].over \cup {r}]
      BY <1>2, <1>5, <2>1, <2>2
    <3> QED BY <2>1, <3>1
  <2>3. CASE request[s].case # c
    BY <1>2, <2>1, <2>3
  <2> QED BY <2>1, <2>2, <2>3
<1>6. request' \in [B -> [case : A, over : SUBSET B] \cup {None}]
  <2> DEFINE row(s) == IF s = r THEN None
             ELSE IF request[s] # None /\ request[s].case = c
                  THEN [request[s] EXCEPT !.over = @ \cup {r}] ELSE request[s]
  <2>1. \A s \in B : request'[s] = row(s) /\ (row(s) # None => request'[s] # None)
    BY <1>2
  <2>2. \A s \in B : row(s) \in [case : A, over : SUBSET B] \cup {None}
    BY <1>5, <2>1
  <2>3. request' = [s \in B |-> row(s)]
    BY <1>2
  <2> HIDE DEF row
  <2> QED BY <2>2, <2>3
<1>7. ASSUME NEW s \in B, request'[s] # None
      PROVE  deskCase'[request'[s].case].decision \in {None} \cup request'[s].over
  <2>1. /\ request[s] # None /\ request'[s].case = request[s].case
        /\ request[s].over \subseteq request'[s].over /\ request[s].case \in A
        /\ request[s].case = c => r \in request'[s].over
    BY <1>2, <1>5, <1>7
  <2>2. deskCase[request[s].case].decision \in {None} \cup request[s].over
    BY <2>1 DEF DeskInv, RequestsInv
  <2>3. CASE request[s].case = c
    BY <1>4, <2>1, <2>3
  <2>4. CASE request[s].case # c
    BY <1>4, <2>1, <2>2, <2>4
  <2> QED BY <2>3, <2>4
<1> QED BY <1>2, <1>4, <1>6, <1>7 DEF DeskInv, RequestsInv

LEMMA DeskStep ==
    ASSUME DeskInv, K!BoundAssumption, [K!Next]_(K!vars)
    PROVE  /\ DeskInv'
           /\ K!StandsOrOverlapped
<1> USE DEF K!StandsOrOverlapped
<1>1. CASE \E r \in B : K!WriteDecision(r)
  <2>1. PICK r \in B : K!WriteDecision(r)
    BY <1>1
  <2>2. request[r] # None /\ deskCase[request[r].case].decision \in {None} \cup request[r].over
    BY <2>1 DEF K!WriteDecision, DeskInv, RequestsInv
  <2> QED BY <2>1, <2>2, WriteStep
<1>2. CASE \E r \in B : K!ReviewQueue(r)
  <2>1. PICK r \in B : page' = [page EXCEPT ![r] = {c \in A : K!NeedsReview(c)}]
                       /\ UNCHANGED <<deskCase, runs, request, snapshot>>
    BY <1>2 DEF K!ReviewQueue
  <2> QED BY <2>1 DEF DeskInv, RequestsInv
<1>3. CASE UNCHANGED K!vars
  BY <1>3 DEF K!vars, DeskInv, RequestsInv
<1> QED BY <1>1, <1>2, <1>3, OutcomeStep, AskStep, CheckStep DEF K!Next

(* The figures of the two pages are fractions.                               *)
LEMMA FiguresAreFractions ==
    ASSUME DeskInv, K!CasesAssumption, K!SnapshotsAssumption
    PROVE  /\ K!OpsMetrics.escalated <= K!OpsMetrics.terminal
           /\ K!OpsMetrics.terminal <= K!OpsMetrics.total
           /\ K!EvalMetrics # None => K!EvalMetrics.hits <= K!EvalMetrics.graded
                                      /\ K!EvalMetrics.graded <= K!EvalMetrics.sample
<1>1. /\ K!OpsMetrics.escalated <= K!OpsMetrics.terminal
      /\ K!OpsMetrics.terminal <= K!OpsMetrics.total
  <2> DEFINE With(status) == {c \in A : deskCase[c].status = status}
  <2>1. IsFiniteSet(A)
    BY Zenon DEF K!CasesAssumption, K!IsFiniteSet, IsFiniteSet
  <2>2. \A status \in K!Status : IsFiniteSet(With(status)) /\ Cardinality(With(status)) \in Nat
    BY <2>1, FS_Subset, FS_CardinalityType
  <2>3. /\ With("escalated") \cap With("resolved") = {}
        /\ With("escalated") \cup With("resolved") \subseteq A
    OBVIOUS
  <2>4. /\ Cardinality(With("escalated") \cup With("resolved"))
               = Cardinality(With("escalated")) + Cardinality(With("resolved"))
        /\ Cardinality(With("escalated") \cup With("resolved")) <= Cardinality(A)
    <3>1. IsFiniteSet(With("escalated")) /\ IsFiniteSet(With("resolved"))
      BY <2>2 DEF K!Status
    <3>2. Cardinality(With("escalated") \cup With("resolved"))
               = Cardinality(With("escalated")) + Cardinality(With("resolved"))
                 - Cardinality(With("escalated") \cap With("resolved"))
      BY <3>1, FS_Union
    <3>3. Cardinality(With("escalated") \cap With("resolved")) = 0
      BY <2>3, FS_EmptySet
    <3>4. Cardinality(With("escalated")) \in Nat /\ Cardinality(With("resolved")) \in Nat
      BY <2>2 DEF K!Status
    <3>5. Cardinality(With("escalated") \cup With("resolved")) <= Cardinality(A)
      BY <2>1, <2>3, FS_Subset
    <3> HIDE DEF With
    <3> QED BY <3>2, <3>3, <3>4, <3>5
  <2>5. /\ K!OpsMetrics.escalated = Cardinality(With("escalated"))
        /\ K!OpsMetrics.terminal = Cardinality(With("escalated")) + Cardinality(With("resolved"))
        /\ K!OpsMetrics.total = Cardinality(A)
    <3>1. /\ K!OpsMetrics.escalated = K!Cardinality(With("escalated"))
          /\ K!OpsMetrics.terminal = K!Cardinality(With("escalated")) + K!Cardinality(With("resolved"))
          /\ K!OpsMetrics.total = K!Cardinality(A)
      BY DEF K!OpsMetrics, K!Status
    <3>2. \A set : K!Cardinality(set) = Cardinality(set)
      BY Zenon DEF K!Cardinality, Cardinality
    <3> HIDE DEF With
    <3> QED BY <3>1, <3>2
  <2>6. Cardinality(With("escalated")) \in Nat /\ Cardinality(With("resolved")) \in Nat
    BY <2>2 DEF K!Status
  <2> HIDE DEF With
  <2> QED BY <2>4, <2>5, <2>6
<1>2. CASE snapshot \in {None, Unreadable}
  BY <1>1, <1>2 DEF K!EvalMetrics
<1>3. CASE snapshot \notin {None, Unreadable}
  <2>1. /\ snapshot["match"] \in Nat /\ snapshot["partial"] \in Nat
        /\ snapshot["mismatch"] \in Nat /\ snapshot["judge_failed"] \in Nat
    BY <1>3 DEF DeskInv, K!SnapshotsAssumption
  <2>2. /\ K!EvalMetrics.hits = snapshot["match"] + snapshot["partial"]
        /\ K!EvalMetrics.graded = snapshot["match"] + snapshot["partial"] + snapshot["mismatch"]
        /\ K!EvalMetrics.sample = snapshot["match"] + snapshot["partial"] + snapshot["mismatch"]
                                  + snapshot["judge_failed"]
    BY <1>3 DEF K!EvalMetrics
  <2> QED BY <1>1, <2>1, <2>2
<1> QED BY <1>2, <1>3

(* A reviewer's decision on a case is replaced only by one whose checks were *)
(* made before it was written (routers/reviews.py:180-219).                  *)
THEOREM DecisionsCorrect == Spec => DecisionsStand
<1>1. K!Init => DeskInv
  BY PartsAssumption DEF PartsAssumption, K!BoundAssumption, K!Init, DeskInv, RequestsInv, K!Case, K!Status
<1>2. DeskInv /\ [K!Next]_(K!vars) =>
          DeskInv' /\ K!StandsOrOverlapped
  BY PartsAssumption, DeskStep DEF PartsAssumption
<1>3. DeskInv => (part = "desk" => K!TypeOK)
  BY PartsAssumption, FiguresAreFractions DEF PartsAssumption, K!TypeOK, DeskInv, RequestsInv
<1> QED BY <1>1, <1>2, <1>3, PartsOfSpec, PTL
        DEF K!Spec, DecisionsStand, K!DecisionsStandUnlessOverlapped

-----------------------------------------------------------------------------
(* The precedent index: one thread at most builds the vectors, holding the   *)
(* lock, and nobody asks for the service meanwhile; the vectors are of the   *)
(* corpus the process has read.                                              *)

Building(t) ==
    \/ search[t].at \in {"provider", "embed", "save", "write", "keep"}
    \/ P!At(t, "probe") /\ search[t].then = "provider"

Querying(t) ==
    \/ search[t].at \in {"query", "ask", "semantic"}
    \/ P!At(t, "probe") /\ search[t].then = "query"

DiskInv ==
    /\ corpus \in 1 .. MaxEdits + 1 /\ stored \in P!Vectors \cup {None, Torn}
    /\ ollama \in {"up", "down", "no_model"}

ProcessInv ==
    /\ embedder \in Models /\ loaded \in 1 .. MaxEdits + 1 \cup {None}
    /\ checked \in BOOLEAN /\ provider \in BOOLEAN /\ built \in BOOLEAN /\ failed \in BOOLEAN
    /\ indexLock \in A \cup {None}
    /\ vectors \in P!Vectors \cup {None}
    /\ vectors # None => built /\ loaded # None /\ vectors.corpus = loaded
    /\ indexLock # None => built /\ vectors = None
    /\ built /\ indexLock = None /\ vectors = None => failed

SearchesInv ==
    /\ DOMAIN search = A
    /\ \A t \in A :
        /\ \/ search[t].at \in {"idle", "ensure", "keyword"}
           \/ Building(t)
           \/ Querying(t)
        /\ ~P!At(t, "idle") => loaded # None
        /\ Building(t) => indexLock = t
        /\ Querying(t) => vectors # None
        /\ P!At(t, "keyword") => failed \/ search[t].racing
    /\ checked /\ ~provider => failed \/ \E t \in A : P!At(t, "probe")

IndexInv == DiskInv /\ ProcessInv /\ SearchesInv

LEMMA SearchMoves ==
    ASSUME SearchesInv, NEW t \in A, NEW s, search' = [search EXCEPT ![t] = s]
    PROVE  DOMAIN search' = A /\ search'[t] = s /\ \A u \in A \ {t} : search'[u] = search[u]
BY DEF SearchesInv

LEMMA BeginStep ==
    ASSUME IndexInv, P!NoneAssumption, NEW t \in A, P!Begin(t)
    PROVE  IndexInv'
<1>1. /\ loaded' = IF loaded = None THEN corpus ELSE loaded
      /\ UNCHANGED <<corpus, stored, ollama, embedder, checked, provider, built, vectors,
                     indexLock, failed>>
      /\ P!At(t, "idle") /\ search' = [search EXCEPT ![t] = [at |-> "ensure"]]
  BY DEF P!Begin, P!disk, P!Goto
<1>2. /\ DOMAIN search' = A /\ search'[t] = [at |-> "ensure"]
      /\ \A u \in A \ {t} : search'[u] = search[u]
  BY <1>1, SearchMoves DEF IndexInv
<1>3. loaded' \in 1 .. MaxEdits + 1 /\ loaded' # None /\ (loaded # None => loaded' = loaded)
  BY <1>1 DEF IndexInv, DiskInv, ProcessInv, P!NoneAssumption
<1>4. DiskInv' /\ ProcessInv'
  BY <1>1, <1>3 DEF IndexInv, DiskInv, ProcessInv, P!Vectors
<1>5. SearchesInv'
  <2>1. \A u \in A : /\ Building(u)' => Building(u)
                     /\ Querying(u)' => Querying(u)
                     /\ P!At(u, "keyword")' => P!At(u, "keyword") /\ search'[u] = search[u]
    BY <1>2 DEF Building, Querying, P!At
  <2>2. \A u \in A : \/ search'[u].at \in {"idle", "ensure", "keyword"}
                     \/ Building(u)'
                     \/ Querying(u)'
    BY <1>2 DEF IndexInv, SearchesInv, Building, Querying, P!At
  <2>3. \A u \in A : P!At(u, "probe") => P!At(u, "probe")'
    BY <1>1, <1>2 DEF P!At
  <2> QED BY <1>1, <1>2, <1>3, <2>1, <2>2, <2>3 DEF IndexInv, SearchesInv
<1> QED BY <1>4, <1>5 DEF IndexInv

LEMMA SearchStep ==
    ASSUME IndexInv, NEW t \in A, NEW s, search' = [search EXCEPT ![t] = s],
           \/ s.at \in {"idle", "ensure", "keyword"}
           \/ Building(t)' /\ indexLock' = t
           \/ Querying(t)' /\ vectors' # None,
           s.at = "keyword" => failed' \/ s.racing,
           ~P!At(t, "idle"), loaded' = loaded,
           failed => failed', vectors # None => vectors' # None,
           \A u \in A \ {t} : indexLock = u => indexLock' = u,
           checked' /\ ~provider' => failed' \/ \E u \in A : P!At(u, "probe")'
    PROVE  SearchesInv'
<1>1. DOMAIN search' = A /\ search'[t] = s /\ \A u \in A \ {t} : search'[u] = search[u]
  BY SearchMoves DEF IndexInv
<1>2. ASSUME NEW u \in A \ {t}
      PROVE  /\ Building(u)' <=> Building(u)
             /\ Querying(u)' <=> Querying(u)
             /\ \A at : P!At(u, at)' <=> P!At(u, at)
  BY <1>1, <1>2 DEF Building, Querying, P!At
<1>3. /\ Building(t)' => indexLock' = t
      /\ Querying(t)' => vectors' # None
      /\ P!At(t, "keyword")' => failed' \/ search'[t].racing
      /\ \/ search'[t].at \in {"idle", "ensure", "keyword"}
         \/ Building(t)'
         \/ Querying(t)'
      /\ loaded' # None
  BY <1>1 DEF Building, Querying, P!At, IndexInv, SearchesInv
<1>4. ASSUME NEW u \in A \ {t}
      PROVE  /\ \/ search'[u].at \in {"idle", "ensure", "keyword"}
                \/ Building(u)'
                \/ Querying(u)'
             /\ ~P!At(u, "idle")' => loaded' # None
             /\ Building(u)' => indexLock' = u
             /\ Querying(u)' => vectors' # None
             /\ P!At(u, "keyword")' => failed' \/ search'[u].racing
  BY <1>1, <1>2, <1>3, <1>4 DEF IndexInv, SearchesInv
<1> QED BY <1>1, <1>3, <1>4 DEF SearchesInv

(* Whoever gives up has seen the service fail, or does not hold the lock.    *)
LEMMA GiveUpStep ==
    ASSUME IndexInv, P!NoneAssumption, NEW t \in A, Building(t) \/ Querying(t),
           P!GiveUp(t), failed' \/ (checked /\ ~provider /\ ~P!At(t, "probe")),
           failed => failed', failed' \in BOOLEAN, checked' = checked, provider' = provider,
           UNCHANGED <<P!disk, ollama, embedder, loaded, built, vectors>>
    PROVE  IndexInv'
<1> DEFINE racing == \E u \in A \ {t} : P!At(u, "probe")
           s == [at |-> "keyword", racing |-> racing]
<1>1. /\ indexLock' = IF indexLock = t THEN None ELSE indexLock
      /\ search' = [search EXCEPT ![t] = s] /\ s.at = "keyword" /\ s.racing = racing
      /\ UNCHANGED <<corpus, stored>>
  BY DEF P!GiveUp, P!ByKeyword, P!disk
<1>2. failed' \/ racing
  BY DEF IndexInv, SearchesInv
<1>3. racing => ~(indexLock = t) \/ failed'
  (* The thread that builds is alone in asking. *)
  <2>1. SUFFICES ASSUME racing, indexLock = t, ~failed' PROVE FALSE
    OBVIOUS
  <2>2. PICK u \in A \ {t} : P!At(u, "probe")
    BY <2>1
  <2>3. Building(u) \/ Querying(u)
    BY <2>2 DEF IndexInv, SearchesInv, P!At
  <2>4. t # None /\ vectors = None
    BY <2>1 DEF P!NoneAssumption, IndexInv, ProcessInv
  <2> QED BY <2>1, <2>3, <2>4 DEF IndexInv, SearchesInv
<1> HIDE DEF s
<1>4. indexLock' = None /\ built /\ vectors = None => failed'
  <2>1. CASE indexLock = t
    <3>1. failed'
      BY <1>2, <1>3, <2>1
    <3> QED BY <3>1
  <2>2. CASE indexLock # t
    BY <1>1, <2>2 DEF IndexInv, ProcessInv
  <2> QED BY <2>1, <2>2
<1> HIDE DEF racing
<1>5. ProcessInv'
  BY <1>1, <1>4 DEF IndexInv, ProcessInv, P!Vectors
<1>6. \A u \in A \ {t} : indexLock = u => indexLock' = u
  BY <1>1
<1>7. ~P!At(t, "idle")
  BY DEF Building, Querying, P!At
<1>8. checked' /\ ~provider' => failed' \/ \E u \in A : P!At(u, "probe")'
  <2>1. ASSUME racing PROVE \E u \in A : P!At(u, "probe")'
    <3>1. PICK u \in A \ {t} : P!At(u, "probe")
      BY <2>1 DEF racing
    <3>2. search'[u] = search[u]
      BY <1>1, SearchMoves DEF IndexInv
    <3> QED BY <3>1, <3>2 DEF P!At
  <2> QED BY <1>2, <2>1
<1>9. SearchesInv'
  BY <1>1, <1>2, <1>6, <1>7, <1>8, SearchStep
<1> QED BY <1>1, <1>5, <1>9 DEF IndexInv, DiskInv

LEMMA BuiltStep ==
    ASSUME IndexInv, NEW t \in A, P!Built(t)
    PROVE  IndexInv'
<1>1. /\ P!At(t, "ensure") /\ indexLock = None /\ built
      /\ UNCHANGED <<corpus, stored, ollama, embedder, loaded, checked, provider, built, vectors,
                     indexLock, failed>>
  BY DEF P!Built, P!Free, P!disk, P!process
<1>2. DiskInv' /\ ProcessInv'
  BY <1>1 DEF IndexInv, DiskInv, ProcessInv, P!Vectors
<1>3. checked' /\ ~provider' => failed' \/ \E u \in A : P!At(u, "probe")'
  <2>1. ASSUME NEW u \in A, P!At(u, "probe") PROVE P!At(u, "probe")'
    <3>1. u # t
      BY <1>1, <2>1 DEF P!At
    <3>2. \E s : search' = [search EXCEPT ![t] = s]
      BY DEF P!Built, P!Goto, P!ByKeyword
    <3> QED BY <2>1, <3>1, <3>2, SearchMoves DEF IndexInv, P!At
  <2> QED BY <1>1, <2>1 DEF IndexInv, SearchesInv
<1>4. SearchesInv'
  <2>1. ~P!At(t, "idle")
    BY <1>1 DEF P!At
  <2>2. CASE vectors # None
    <3>1. search' = [search EXCEPT ![t] = [at |-> "query"]]
      BY <2>2 DEF P!Built, P!Goto
    <3>2. Querying(t)'
      BY <3>1, SearchMoves DEF IndexInv, Querying
    <3> QED BY <1>1, <1>3, <2>1, <2>2, <3>1, <3>2, SearchStep
  <2>3. CASE vectors = None
    <3>1. search' = [search EXCEPT ![t] = [at |-> "keyword", racing |-> FALSE]]
      BY <2>3 DEF P!Built, P!ByKeyword
    <3>2. failed
      BY <1>1, <2>3 DEF IndexInv, ProcessInv
    <3> QED BY <1>1, <1>3, <2>1, <3>1, <3>2, SearchStep
  <2> QED BY <2>2, <2>3
<1> QED BY <1>2, <1>4 DEF IndexInv

LEMMA LoadStep ==
    ASSUME IndexInv, P!NoneAssumption, NEW t \in A, P!LoadCached(t)
    PROVE  IndexInv'
<1>1. /\ P!At(t, "ensure") /\ indexLock = None /\ ~built /\ built'
      /\ UNCHANGED <<corpus, stored, ollama, embedder, loaded, checked, provider, failed>>
      /\ built' \in BOOLEAN
  BY DEF P!LoadCached, P!Free, P!disk
<1>2. vectors = None /\ ~P!At(t, "idle") /\ loaded # None
  BY <1>1 DEF IndexInv, ProcessInv, SearchesInv, P!At
<1>3. checked' /\ ~provider' => failed' \/ \E u \in A : P!At(u, "probe")'
  <2>1. ASSUME NEW u \in A, P!At(u, "probe") PROVE P!At(u, "probe")'
    <3>1. u # t
      BY <1>1, <2>1 DEF P!At
    <3>2. \E s : search' = [search EXCEPT ![t] = s]
      BY DEF P!LoadCached, P!Goto
    <3> QED BY <2>1, <3>1, <3>2, SearchMoves DEF IndexInv, P!At
  <2> QED BY <1>1, <2>1 DEF IndexInv, SearchesInv
<1>4. CASE P!Usable(stored)
  <2>1. /\ vectors' = stored /\ indexLock' = indexLock
        /\ search' = [search EXCEPT ![t] = [at |-> "query"]]
    BY <1>4 DEF P!LoadCached, P!Goto
  <2>2. vectors' \in P!Vectors /\ vectors' # None /\ vectors'.corpus = loaded
    BY <1>4, <2>1 DEF P!Usable, IndexInv, DiskInv
  <2>3. ProcessInv'
    BY <1>1, <1>2, <2>1, <2>2 DEF IndexInv, ProcessInv, P!Vectors
  <2>4. Querying(t)'
    BY <2>1, SearchMoves DEF IndexInv, Querying
  <2>5. SearchesInv'
    BY <1>1, <1>2, <1>3, <2>1, <2>2, <2>4, SearchStep
  <2> QED BY <1>1, <2>3, <2>5 DEF IndexInv, DiskInv, P!Vectors
<1>5. CASE ~P!Usable(stored)
  <2>1. /\ vectors' = vectors /\ indexLock' = t
        /\ search' = [search EXCEPT ![t] = [at |-> "provider"]]
    BY <1>5 DEF P!LoadCached, P!Goto
  <2>2. t # None
    BY DEF P!NoneAssumption
  <2>3. ProcessInv'
    BY <1>1, <1>2, <2>1, <2>2 DEF IndexInv, ProcessInv, P!Vectors
  <2>4. Building(t)'
    BY <2>1, SearchMoves DEF IndexInv, Building
  <2>5. \A u \in A \ {t} : indexLock = u => indexLock' = u
    BY <1>1 DEF P!NoneAssumption
  <2>6. SearchesInv'
    BY <1>1, <1>2, <1>3, <2>1, <2>4, <2>5, SearchStep
  <2> QED BY <1>1, <2>3, <2>6 DEF IndexInv, DiskInv, P!Vectors
<1> QED BY <1>4, <1>5

LEMMA GetProviderStep ==
    ASSUME IndexInv, P!NoneAssumption, NEW t \in A, P!GetProvider(t)
    PROVE  IndexInv'
<1>1. /\ search[t].at \in {"provider", "query"}
      /\ UNCHANGED <<corpus, stored, ollama, embedder, loaded, provider, built, vectors, failed>>
  BY DEF P!GetProvider, P!disk
<1>2. /\ Building(t) \/ Querying(t)
      /\ search[t].at = "provider" => indexLock = t
      /\ search[t].at = "query" => vectors # None
      /\ ~P!At(t, "idle") /\ ~P!At(t, "probe")
  BY <1>1 DEF IndexInv, SearchesInv, Building, Querying, P!At
<1>3. CASE ~checked
  <2> DEFINE s == [at |-> "probe", then |-> search[t].at]
  <2>1. checked' = TRUE /\ indexLock' = indexLock /\ search' = [search EXCEPT ![t] = s]
    BY <1>3 DEF P!GetProvider, IndexInv, SearchesInv
  <2>2. search'[t] = s
    BY <2>1, SearchMoves DEF IndexInv
  <2>3. P!At(t, "probe")' /\ ((Building(t)' /\ indexLock' = t) \/ (Querying(t)' /\ vectors' # None))
    <3>1. search'[t].at = "probe" /\ search'[t].then = search[t].at
      BY <2>2
    <3>2. CASE search[t].at = "provider"
      BY <1>2, <2>1, <3>1, <3>2 DEF Building, P!At
    <3>3. CASE search[t].at = "query"
      BY <1>1, <1>2, <3>1, <3>3 DEF Querying, P!At
    <3> QED BY <1>1, <3>2, <3>3
  <2>4. s.at # "keyword"
    OBVIOUS
  <2> HIDE DEF s
  <2>5. SearchesInv'
    BY <1>1, <1>2, <2>1, <2>3, <2>4, SearchStep
  <2> QED BY <1>1, <2>1, <2>5 DEF IndexInv, DiskInv, ProcessInv, P!Vectors
<1>4. CASE checked /\ provider
  <2> DEFINE s == [at |-> IF search[t].at = "query" THEN "ask" ELSE "embed", n |-> 0]
  <2>1. checked' = checked /\ indexLock' = indexLock /\ search' = [search EXCEPT ![t] = s]
    BY <1>4 DEF P!GetProvider, IndexInv, SearchesInv
  <2>2. search'[t] = s
    BY <2>1, SearchMoves DEF IndexInv
  <2>3. (Building(t)' /\ indexLock' = t) \/ (Querying(t)' /\ vectors' # None)
    <3>1. CASE search[t].at = "provider"
      BY <1>2, <2>1, <2>2, <3>1 DEF Building
    <3>2. CASE search[t].at = "query"
      BY <1>1, <1>2, <2>2, <3>2 DEF Querying
    <3> QED BY <1>1, <3>1, <3>2
  <2>4. s.at # "keyword"
    OBVIOUS
  <2> HIDE DEF s
  <2>5. SearchesInv'
    BY <1>1, <1>2, <1>4, <2>1, <2>3, <2>4, SearchStep
  <2> QED BY <1>1, <2>1, <2>5 DEF IndexInv, DiskInv, ProcessInv, P!Vectors
<1>5. CASE checked /\ ~provider
  <2>1. checked' = checked /\ P!GiveUp(t)
    BY <1>5 DEF P!GetProvider
  <2> QED BY <1>1, <1>2, <1>5, <2>1, GiveUpStep DEF IndexInv, ProcessInv, P!disk
<1> QED BY <1>3, <1>4, <1>5 DEF IndexInv, ProcessInv

LEMMA ProbeStep ==
    ASSUME IndexInv, NEW t \in A, P!Probe(t)
    PROVE  IndexInv'
<1> DEFINE s == [at |-> search[t].then]
<1>1. /\ P!At(t, "probe") /\ provider' = (ollama # "down")
      /\ failed' = (failed \/ ollama = "down") /\ search' = [search EXCEPT ![t] = s]
      /\ UNCHANGED <<corpus, stored, ollama, embedder, loaded, checked, built, vectors, indexLock>>
  BY DEF P!Probe, P!disk, P!Goto
<1>2. /\ search[t].then \in {"provider", "query"}
      /\ search[t].then = "provider" => indexLock = t
      /\ search[t].then = "query" => vectors # None
      /\ ~P!At(t, "idle")
  BY <1>1 DEF IndexInv, SearchesInv, Building, Querying, P!At
<1>3. search'[t] = s
  BY <1>1, SearchMoves DEF IndexInv
<1>4. (Building(t)' /\ indexLock' = t) \/ (Querying(t)' /\ vectors' # None)
  <2>1. CASE search[t].then = "provider"
    BY <1>1, <1>2, <1>3, <2>1 DEF Building
  <2>2. CASE search[t].then = "query"
    BY <1>1, <1>2, <1>3, <2>2 DEF Querying
  <2> QED BY <1>2, <2>1, <2>2
<1>5. s.at # "keyword"
  BY <1>2
<1> HIDE DEF s
<1>6. SearchesInv'
  BY <1>1, <1>2, <1>4, <1>5, SearchStep
<1> QED BY <1>1, <1>6 DEF IndexInv, DiskInv, ProcessInv, P!Vectors

(* Whoever asks for the service goes on asking while another thread moves.   *)
LEMMA ProbeStays ==
    ASSUME IndexInv, NEW t \in A, NEW s, search' = [search EXCEPT ![t] = s], ~P!At(t, "probe"),
           checked' = checked, provider' = provider, failed => failed'
    PROVE  checked' /\ ~provider' => failed' \/ \E u \in A : P!At(u, "probe")'
<1>1. ASSUME NEW u \in A, P!At(u, "probe") PROVE P!At(u, "probe")'
  <2>1. u # t
    BY <1>1
  <2> QED BY <1>1, <2>1, SearchMoves DEF IndexInv, P!At
<1> QED BY <1>1 DEF IndexInv, SearchesInv

LEMMA EmbedStep ==
    ASSUME IndexInv, P!NoneAssumption, NEW t \in A, P!EmbedCorpus(t)
    PROVE  IndexInv'
<1>1. /\ P!At(t, "embed") /\ failed' = (failed \/ ollama # "up") /\ failed' \in BOOLEAN
      /\ UNCHANGED <<corpus, stored, ollama, embedder, loaded, checked, provider, built, vectors>>
  BY DEF P!EmbedCorpus, P!disk
<1>2. Building(t) /\ indexLock = t /\ ~P!At(t, "idle") /\ ~P!At(t, "probe")
  BY <1>1 DEF IndexInv, SearchesInv, Building, P!At
<1>3. CASE ollama # "up"
  BY <1>1, <1>2, <1>3, GiveUpStep DEF P!EmbedCorpus, P!disk
<1>4. CASE ollama = "up"
  <2> DEFINE s == IF search[t].n + 1 < CorpusSize THEN [at |-> "embed", n |-> search[t].n + 1]
                  ELSE [at |-> "save"]
  <2>1. search' = [search EXCEPT ![t] = s] /\ indexLock' = indexLock
    BY <1>4 DEF P!EmbedCorpus, IndexInv, SearchesInv
  <2>2. s.at \in {"embed", "save"}
    OBVIOUS
  <2> HIDE DEF s
  <2>3. Building(t)' /\ s.at # "keyword"
    BY <2>1, <2>2, SearchMoves DEF IndexInv, Building
  <2>4. SearchesInv'
    BY <1>1, <1>2, <2>1, <2>3, SearchStep, ProbeStays
  <2> QED BY <1>1, <2>1, <2>4 DEF IndexInv, DiskInv, ProcessInv, P!Vectors
<1> QED BY <1>3, <1>4

LEMMA EmbeddedType ==
    ASSUME IndexInv, NEW t \in A, Building(t)
    PROVE  P!Embedded \in P!Vectors /\ P!Embedded.corpus = loaded
<1>1. loaded \in 1 .. MaxEdits + 1 /\ embedder \in Models
  BY DEF IndexInv, ProcessInv, SearchesInv, Building, P!At
<1> QED BY <1>1 DEF P!Embedded, P!Vectors

LEMMA CacheStep ==
    ASSUME IndexInv, NEW t \in A, P!OpenCache(t) \/ P!WriteCache(t)
    PROVE  IndexInv'
<1>1. /\ search[t].at \in {"save", "write"} /\ stored' \in {stored, Torn, P!Embedded}
      /\ UNCHANGED <<corpus, ollama, embedder, loaded, checked, provider, built, vectors,
                     indexLock, failed>>
      /\ \/ search' = [search EXCEPT ![t] = [at |-> "write"]]
         \/ search' = [search EXCEPT ![t] = [at |-> "keep"]]
  BY DEF P!OpenCache, P!WriteCache, P!At, P!Goto, P!process
<1>2. Building(t) /\ indexLock = t /\ ~P!At(t, "idle") /\ ~P!At(t, "probe")
  BY <1>1 DEF IndexInv, SearchesInv, Building, P!At
<1>3. PICK at \in {"write", "keep"} : search' = [search EXCEPT ![t] = [at |-> at]]
  BY <1>1
<1>4. Building(t)' /\ at # "keyword"
  BY <1>3, SearchMoves DEF IndexInv, Building
<1>5. SearchesInv'
  BY <1>1, <1>2, <1>3, <1>4, SearchStep, ProbeStays
<1> QED BY <1>1, <1>2, <1>5, EmbeddedType DEF IndexInv, DiskInv, ProcessInv, P!Vectors

LEMMA KeepStep ==
    ASSUME IndexInv, P!NoneAssumption, NEW t \in A, P!Keep(t)
    PROVE  IndexInv'
<1>1. /\ P!At(t, "keep") /\ vectors' = P!Embedded /\ indexLock' = None
      /\ search' = [search EXCEPT ![t] = [at |-> "query"]]
      /\ UNCHANGED <<corpus, stored, ollama, embedder, loaded, checked, provider, built, failed>>
  BY DEF P!Keep, P!disk, P!Goto
<1>2. Building(t) /\ indexLock = t /\ ~P!At(t, "idle") /\ ~P!At(t, "probe") /\ loaded # None
  BY <1>1 DEF IndexInv, SearchesInv, Building, P!At
<1>3. vectors' \in P!Vectors /\ vectors' # None /\ vectors'.corpus = loaded /\ t # None
  BY <1>1, <1>2, EmbeddedType DEF P!NoneAssumption
<1>4. ProcessInv'
  BY <1>1, <1>2, <1>3 DEF IndexInv, ProcessInv, P!Vectors
<1>5. Querying(t)'
  BY <1>1, SearchMoves DEF IndexInv, Querying
<1>6. \A u \in A \ {t} : indexLock = u => indexLock' = u
  BY <1>2
<1>7. SearchesInv'
  BY <1>1, <1>2, <1>3, <1>5, <1>6, SearchStep, ProbeStays
<1> QED BY <1>1, <1>4, <1>7 DEF IndexInv, DiskInv, P!Vectors

LEMMA QueryStep ==
    ASSUME IndexInv, NEW t \in A, P!EmbedQuery(t)
    PROVE  IndexInv'
<1>1. /\ P!At(t, "ask") /\ failed' = (failed \/ ollama # "up") /\ failed' \in BOOLEAN
      /\ UNCHANGED <<corpus, stored, ollama, embedder, loaded, checked, provider, built, vectors,
                     indexLock>>
      /\ IF ollama = "up" THEN search' = [search EXCEPT ![t] = [at |-> "semantic"]]
         ELSE search' = [search EXCEPT ![t] = [at |-> "keyword", racing |-> FALSE]]
  BY DEF P!EmbedQuery, P!disk, P!Goto, P!ByKeyword
<1>2. vectors # None /\ ~P!At(t, "idle") /\ ~P!At(t, "probe")
  BY <1>1 DEF IndexInv, SearchesInv, Querying, P!At
<1> DEFINE s == IF ollama = "up" THEN [at |-> "semantic"]
                ELSE [at |-> "keyword", racing |-> FALSE]
<1>3. /\ search' = [search EXCEPT ![t] = s]
      /\ \/ s.at = "semantic"
         \/ s.at = "keyword" /\ failed'
  BY <1>1
<1> HIDE DEF s
<1>4. s.at = "semantic" => Querying(t)'
  BY <1>3, SearchMoves DEF IndexInv, Querying
<1>5. SearchesInv'
  BY <1>1, <1>2, <1>3, <1>4, SearchStep, ProbeStays
<1> QED BY <1>1, <1>5 DEF IndexInv, DiskInv, ProcessInv, P!Vectors

LEMMA AnswerStep ==
    ASSUME IndexInv, NEW t \in A, P!Answer(t)
    PROVE  IndexInv'
<1>1. /\ search[t].at \in {"semantic", "keyword"}
      /\ search' = [search EXCEPT ![t] = [at |-> "idle"]]
      /\ UNCHANGED <<corpus, stored, ollama, embedder, loaded, checked, provider, built, vectors,
                     indexLock, failed>>
  BY DEF P!Answer, P!disk, P!process, P!Goto
<1>2. ~P!At(t, "idle") /\ ~P!At(t, "probe")
  BY <1>1 DEF P!At
<1>3. SearchesInv'
  BY <1>1, <1>2, SearchStep, ProbeStays
<1> QED BY <1>1, <1>3 DEF IndexInv, DiskInv, ProcessInv, P!Vectors

LEMMA RestartStep ==
    ASSUME IndexInv, P!Restart
    PROVE  IndexInv'
<1>1. /\ embedder' \in Models /\ loaded' = None /\ vectors' = None /\ indexLock' = None
      /\ checked' = FALSE /\ provider' = FALSE /\ built' = FALSE /\ failed' = FALSE
      /\ search' = [t \in A |-> [at |-> "idle"]] /\ UNCHANGED <<corpus, stored, ollama>>
  BY DEF P!Restart, P!disk, P!Idle
<1>2. SearchesInv'
  BY <1>1 DEF SearchesInv, Building, Querying, P!At
<1> QED BY <1>1, <1>2 DEF IndexInv, DiskInv, ProcessInv, P!Vectors

LEMMA IndexStep ==
    ASSUME IndexInv, P!SizesAssumption, P!NoneAssumption, [P!Next]_(P!vars)
    PROVE  IndexInv'
<1>1. CASE P!EditCorpus \/ P!Change \/ UNCHANGED P!vars
  <2>1. /\ UNCHANGED <<stored, embedder, loaded, checked, provider, built, vectors,
                       indexLock, failed, search>>
        /\ corpus' = corpus \/ (corpus <= MaxEdits /\ corpus' = corpus + 1)
        /\ ollama' \in {ollama, "up", "down", "no_model"}
    BY <1>1 DEF P!EditCorpus, P!Change, P!vars, P!disk, P!process
  <2>2. DiskInv'
    BY <2>1 DEF IndexInv, DiskInv, P!SizesAssumption, P!Vectors
  <2>3. ProcessInv'
    BY <2>1 DEF IndexInv, ProcessInv, P!Vectors
  <2>4. SearchesInv'
    BY <2>1 DEF IndexInv, SearchesInv, Building, Querying, P!At
  <2> QED BY <2>2, <2>3, <2>4 DEF IndexInv
<1> QED BY <1>1, BeginStep, BuiltStep, LoadStep, GetProviderStep, ProbeStep, EmbedStep, CacheStep,
           KeepStep, QueryStep, AnswerStep, RestartStep DEF P!Next

(* A ranking is by the vectors of the corpus the process has read, or by     *)
(* keywords when the service has failed or another thread asks for it, in    *)
(* every interleaving of the searches (rag/index.py).                        *)
THEOREM RankingsCorrect == Spec => []RankingsAreFounded
<1>1. P!Init => IndexInv
  <2>1. SUFFICES ASSUME P!Init PROVE IndexInv
    OBVIOUS
  <2>2. DiskInv
    BY <2>1, PartsAssumption DEF P!Init, DiskInv, PartsAssumption, P!SizesAssumption
  <2>3. ProcessInv
    BY <2>1 DEF P!Init, ProcessInv
  <2>4. SearchesInv
    BY <2>1 DEF P!Init, SearchesInv, Building, Querying, P!At, P!Idle
  <2> QED BY <2>2, <2>3, <2>4 DEF IndexInv
<1>2. IndexInv /\ [P!Next]_(P!vars) => IndexInv'
  BY PartsAssumption, IndexStep DEF PartsAssumption
<1>3. IndexInv => RankingsAreFounded
  <2>1. ASSUME IndexInv PROVE P!TypeOK
    BY <2>1 DEF IndexInv, DiskInv, ProcessInv, SearchesInv, Building, P!TypeOK
  <2>2. ASSUME IndexInv PROVE P!RankingIsFounded
    BY <2>2 DEF IndexInv, ProcessInv, SearchesInv, Querying, P!RankingIsFounded
  <2> QED BY <2>1, <2>2 DEF RankingsAreFounded
<1> QED BY <1>1, <1>2, <1>3, PartsOfSpec, PTL DEF P!Spec

-----------------------------------------------------------------------------
(* Extraction: a job is where its kind of document leads, a result follows   *)
(* from the document it is of, and a breaker counts the documents whose call *)
(* raised, each at most once: a job asks a service once.                     *)

Explains(f, r) ==
    /\ r.error => f.broken \/ f.kind = "audio" \/ (f.kind # "native" /\ ~Tesseract)
    /\ f.kind = "audio" /\ ~r.error => r.raw # "nothing"

Suits(f, at) ==
    /\ at = "stt" => f.kind = "audio"
    /\ at = "ocr" => f.kind \in {"scanned", "image"}
    /\ at = "local" => f.kind \in {"scanned", "long", "image"}

JobsInv ==
    /\ file \in [A -> D!File \cup {None}]
    /\ result \in [A -> D!Result \cup {None}]
    /\ job \in [B -> {D!Idle} \cup [doc : A, at : {"ocr", "stt", "local"}]]
    /\ \A t \in B : job[t] # D!Idle =>
           /\ file[job[t].doc] \in D!File /\ result[job[t].doc] = None
           /\ Suits(file[job[t].doc], job[t].at)
           /\ \A u \in B \ {t} : job[u].doc # job[t].doc
    /\ \A d \in A : result[d] # None => file[d] \in D!File /\ Explains(file[d], result[d])

BlameInv ==
    /\ breaker \in [D!Services -> [failures : 0 .. ServiceThreshold, open : BOOLEAN]]
    /\ raised \in [D!Services -> SUBSET A]
    /\ \A s \in D!Services :
           /\ breaker[s].failures <= Cardinality(raised[s])
           /\ breaker[s].open => breaker[s].failures = ServiceThreshold
           /\ \A d \in raised[s] : file[d] # None /\ Suits(file[d], s)
           /\ \A t \in B : D!At(t, s) => job[t].doc \notin raised[s]

(* A thread returns the result of a document that is its own.                *)
LEMMA ReturnStep ==
    ASSUME JobsInv, D!NoneAssumption, NEW t \in B, NEW d \in A, NEW f \in D!File, NEW r \in D!Result,
           file' = [file EXCEPT ![d] = f], Explains(f, r), D!Return(t, d, r),
           \A u \in B \ {t} : job[u].doc # d
    PROVE  JobsInv'
<1>1. /\ file' \in [A -> D!File \cup {None}] /\ file'[d] = f
      /\ \A e \in A \ {d} : file'[e] = file[e]
  BY DEF JobsInv
<1>2. /\ result' \in [A -> D!Result \cup {None}] /\ result'[d] = r
      /\ \A e \in A \ {d} : result'[e] = result[e]
  BY DEF JobsInv, D!Return
<1>3. /\ job' \in [B -> {D!Idle} \cup [doc : A, at : {"ocr", "stt", "local"}]]
      /\ job'[t] = D!Idle /\ \A u \in B \ {t} : job'[u] = job[u]
  BY DEF JobsInv, D!Return
<1>4. ASSUME NEW u \in B, job'[u] # D!Idle
      PROVE  /\ file'[job'[u].doc] \in D!File /\ result'[job'[u].doc] = None
             /\ Suits(file'[job'[u].doc], job'[u].at)
             /\ \A v \in B \ {u} : job'[v].doc # job'[u].doc
  <2>1. u # t /\ job'[u] = job[u] /\ job[u].doc \in A \ {d} /\ job[u].doc # None
    BY <1>3, <1>4 DEF JobsInv, D!NoneAssumption
  <2>2. ASSUME NEW v \in B \ {u} PROVE job'[v].doc # job'[u].doc
    <3>1. CASE v = t
      BY <1>3, <2>1, <3>1 DEF D!Idle
    <3>2. CASE v # t
      BY <1>3, <1>4, <2>1, <3>2 DEF JobsInv
    <3> QED BY <3>1, <3>2
  <2> QED BY <1>1, <1>2, <1>4, <2>1, <2>2 DEF JobsInv
<1>5. ASSUME NEW e \in A, result'[e] # None
      PROVE  file'[e] \in D!File /\ Explains(file'[e], result'[e])
  <2>1. CASE e = d
    BY <1>1, <1>2, <2>1
  <2>2. CASE e # d
    BY <1>1, <1>2, <1>5, <2>2 DEF JobsInv
  <2> QED BY <2>1, <2>2
<1> QED BY <1>1, <1>2, <1>3, <1>4, <1>5 DEF JobsInv

(* A thread goes on to another engine.                                       *)
LEMMA GotoStep ==
    ASSUME JobsInv, D!NoneAssumption, NEW t \in B, NEW d \in A, NEW f \in D!File,
           NEW at \in {"ocr", "stt", "local"},
           file' = [file EXCEPT ![d] = f], Suits(f, at), D!Goto(t, d, at), result[d] = None,
           \A u \in B \ {t} : job[u].doc # d
    PROVE  JobsInv'
<1>1. /\ file' \in [A -> D!File \cup {None}] /\ file'[d] = f
      /\ \A e \in A \ {d} : file'[e] = file[e]
  BY DEF JobsInv
<1>2. result' = result
  BY DEF D!Goto
<1>3. /\ job' \in [B -> {D!Idle} \cup [doc : A, at : {"ocr", "stt", "local"}]]
      /\ job'[t] = [doc |-> d, at |-> at] /\ \A u \in B \ {t} : job'[u] = job[u]
  BY DEF JobsInv, D!Goto
<1>4. ASSUME NEW u \in B, job'[u] # D!Idle
      PROVE  /\ file'[job'[u].doc] \in D!File /\ result'[job'[u].doc] = None
             /\ Suits(file'[job'[u].doc], job'[u].at)
             /\ \A v \in B \ {u} : job'[v].doc # job'[u].doc
  <2>1. CASE u = t
    BY <1>1, <1>2, <1>3, <2>1
  <2>2. CASE u # t
    <3>1. job'[u] = job[u] /\ job[u].doc \in A \ {d}
      BY <1>3, <1>4, <2>2 DEF JobsInv
    <3> QED BY <1>1, <1>2, <1>3, <1>4, <2>2, <3>1 DEF JobsInv
  <2> QED BY <2>1, <2>2
<1>5. ASSUME NEW e \in A, result'[e] # None
      PROVE  file'[e] \in D!File /\ Explains(file'[e], result'[e])
  BY <1>1, <1>2, <1>5 DEF JobsInv
<1> QED BY <1>1, <1>2, <1>3, <1>4, <1>5 DEF JobsInv

LEMMA ResultTypes ==
    /\ D!Failed \in D!Result /\ D!Failed.error
    /\ \A text \in D!Reading, engine \in {"native", "sarvam_doc_ai", "tesseract", "sarvam_stt"},
          confidence \in {None, "whole", "partial", "measured", "fixed"} :
           /\ D!Extracted(text, engine, confidence) \in D!Result
           /\ ~D!Extracted(text, engine, confidence).error
           /\ D!Extracted(text, engine, confidence).raw = text
BY DEF D!Failed, D!Result, D!Extracted, D!Reading, D!NormalizeText

LEMMA StartStep ==
    ASSUME JobsInv, D!NoneAssumption, NEW t \in B, NEW d \in A, NEW f \in D!File, D!Start(t, d, f)
    PROVE  JobsInv'
<1>1. /\ file[d] = None /\ file' = [file EXCEPT ![d] = f] /\ file[d] \notin D!File
      /\ \A u \in B \ {t} : job[u].doc # d
  BY DEF D!Start, JobsInv, D!NoneAssumption, D!Idle
<1>2. result[d] = None
  BY <1>1 DEF JobsInv
<1>3. f.holds \in D!Reading /\ (f.kind = "native" => f.holds = "words")
  BY DEF D!File
<1>4. CASE f.kind = "audio" /\ D!Goto(t, d, "stt")
  BY <1>1, <1>2, <1>4, GotoStep DEF Suits
<1>5. CASE f.kind = "audio" /\ D!Return(t, d, D!Failed)
  BY <1>1, <1>5, ReturnStep, ResultTypes DEF Explains
<1>6. CASE f.kind = "native" /\ D!Return(t, d, D!Extracted(f.holds, "native", None))
  <2> DEFINE r == D!Extracted(f.holds, "native", None)
  <2>1. r \in D!Result /\ ~r.error
    BY <1>3, ResultTypes
  <2>2. Explains(f, r) /\ D!Return(t, d, r)
    BY <1>6, <2>1 DEF Explains
  <2> HIDE DEF r
  <2> QED BY <1>1, <2>1, <2>2, ReturnStep
<1>7. CASE f.kind \in {"scanned", "long"} /\ f.broken /\ D!Return(t, d, D!Failed)
  BY <1>1, <1>7, ReturnStep, ResultTypes DEF Explains
<1>8. CASE f.kind \in {"image", "scanned", "long"} /\ D!Goto(t, d, "local")
  BY <1>1, <1>2, <1>8, GotoStep DEF Suits
<1>9. CASE f.kind \in {"image", "scanned"} /\ D!Goto(t, d, "ocr")
  BY <1>1, <1>2, <1>9, GotoStep DEF Suits
<1> QED BY <1>4, <1>5, <1>6, <1>7, <1>8, <1>9 DEF D!Start

(* The document of a job under way.                                          *)
LEMMA OwnDocument ==
    ASSUME JobsInv, NEW t \in B, NEW at \in {"ocr", "stt", "local"}, D!At(t, at)
    PROVE  /\ job[t].doc \in A /\ file[job[t].doc] \in D!File /\ result[job[t].doc] = None
           /\ Suits(file[job[t].doc], at)
           /\ \A u \in B \ {t} : job[u].doc # job[t].doc
           /\ file = [file EXCEPT ![job[t].doc] = file[job[t].doc]]
           /\ file[job[t].doc].holds \in D!Reading
<1>1. job[t] # D!Idle /\ job[t] \in [doc : A, at : {"ocr", "stt", "local"}]
  BY DEF JobsInv, D!At, D!Idle
<1>2. file[job[t].doc] \in D!File
  BY <1>1 DEF JobsInv
<1> QED BY <1>1, <1>2 DEF JobsInv, D!At, D!File

LEMMA OcrStep ==
    ASSUME JobsInv, D!NoneAssumption, NEW t \in B, D!OcrAnswers(t) \/ D!OcrRaises(t)
    PROVE  JobsInv'
<1> DEFINE d == job[t].doc
<1>1. D!At(t, "ocr") /\ file' = file
  BY DEF D!OcrAnswers, D!OcrRaises
<1>2. /\ d \in A /\ file[d] \in D!File /\ result[d] = None /\ Suits(file[d], "ocr")
      /\ \A u \in B \ {t} : job[u].doc # d
      /\ file' = [file EXCEPT ![d] = file[d]] /\ file[d].holds \in D!Reading
  BY <1>1, OwnDocument
<1>3. CASE D!Goto(t, d, "local")
  BY <1>2, <1>3, GotoStep DEF Suits
<1>4. CASE \E confidence \in {"whole", "partial"} :
               D!Return(t, d, D!Extracted(file[d].holds, "sarvam_doc_ai", confidence))
  <2>1. PICK confidence \in {"whole", "partial"} :
               D!Return(t, d, D!Extracted(file[d].holds, "sarvam_doc_ai", confidence))
    BY <1>4
  <2> DEFINE r == D!Extracted(file[d].holds, "sarvam_doc_ai", confidence)
  <2>2. r \in D!Result /\ ~r.error
    BY <1>2, ResultTypes
  <2>3. Explains(file[d], r)
    BY <1>2, <2>2 DEF Explains, Suits
  <2> HIDE DEF r, d
  <2> QED BY <1>2, <2>1, <2>2, <2>3, ReturnStep DEF r
<1> QED BY <1>3, <1>4 DEF D!OcrAnswers, D!OcrRaises

LEMMA LocalStep ==
    ASSUME JobsInv, D!NoneAssumption, NEW t \in B, D!OcrImage(t)
    PROVE  JobsInv'
<1> DEFINE d == job[t].doc
<1>1. D!At(t, "local") /\ file' = file
  BY DEF D!OcrImage
<1>2. /\ d \in A /\ file[d] \in D!File /\ result[d] = None /\ Suits(file[d], "local")
      /\ \A u \in B \ {t} : job[u].doc # d
      /\ file' = [file EXCEPT ![d] = file[d]] /\ file[d].holds \in D!Reading
  BY <1>1, OwnDocument
<1>3. CASE \E text \in {file[d].holds, "noise", "nothing"} :
               D!Return(t, d, D!Extracted(text, "tesseract", "measured"))
  <2>1. PICK text \in {file[d].holds, "noise", "nothing"} :
               D!Return(t, d, D!Extracted(text, "tesseract", "measured"))
    BY <1>3
  <2> DEFINE r == D!Extracted(text, "tesseract", "measured")
  <2>2. text \in D!Reading
    BY <1>2 DEF D!Reading
  <2>3. r \in D!Result /\ ~r.error
    BY <2>2, ResultTypes
  <2>4. Explains(file[d], r)
    BY <1>2, <2>3 DEF Explains, Suits
  <2> HIDE DEF r, d
  <2> QED BY <1>2, <2>1, <2>3, <2>4, ReturnStep DEF r
<1>4. CASE ~(Tesseract /\ ~file[d].broken) /\ D!Return(t, d, D!Failed)
  <2>1. Explains(file[d], D!Failed)
    BY <1>2, <1>4, ResultTypes DEF Explains, Suits
  <2> HIDE DEF d
  <2> QED BY <1>2, <1>4, <2>1, ReturnStep, ResultTypes
<1> QED BY <1>3, <1>4 DEF D!OcrImage

LEMMA SttStep ==
    ASSUME JobsInv, D!NoneAssumption, NEW t \in B, D!SttAnswers(t) \/ D!SttRaises(t)
    PROVE  JobsInv'
<1> DEFINE d == job[t].doc
<1>1. D!At(t, "stt") /\ file' = file
  BY DEF D!SttAnswers, D!SttRaises
<1>2. /\ d \in A /\ file[d] \in D!File /\ result[d] = None /\ Suits(file[d], "stt")
      /\ \A u \in B \ {t} : job[u].doc # d
      /\ file' = [file EXCEPT ![d] = file[d]] /\ file[d].holds \in D!Reading
  BY <1>1, OwnDocument
<1>3. CASE D!Return(t, d, D!Failed)
  <2>1. Explains(file[d], D!Failed)
    BY <1>2, ResultTypes DEF Explains, Suits
  <2> HIDE DEF d
  <2> QED BY <1>2, <1>3, <2>1, ReturnStep, ResultTypes
<1>4. CASE /\ file[d].holds # "nothing"
           /\ D!Return(t, d, D!Extracted(file[d].holds, "sarvam_stt", "fixed"))
  <2> DEFINE r == D!Extracted(file[d].holds, "sarvam_stt", "fixed")
  <2>1. r \in D!Result /\ ~r.error /\ r.raw = file[d].holds
    BY <1>2, ResultTypes
  <2>2. Explains(file[d], r)
    BY <1>4, <2>1 DEF Explains
  <2>3. D!Return(t, d, r)
    BY <1>4
  <2> HIDE DEF r, d
  <2> QED BY <1>2, <2>1, <2>2, <2>3, ReturnStep
<1> QED BY <1>3, <1>4 DEF D!SttAnswers, D!SttRaises

(* A service has answered: nothing is held against it.                       *)
LEMMA SucceedBlame ==
    ASSUME BlameInv, D!ThresholdAssumption, NEW s \in D!Services, D!Succeed(s), file' = file,
           NEW t \in B, \A u \in B \ {t} : job'[u] = job[u],
           job'[t].at \notin D!Services
    PROVE  BlameInv'
<1>1. D!Closed \in [failures : 0 .. ServiceThreshold, open : BOOLEAN] /\ ~D!Closed.open
      /\ D!Closed.failures = 0
  BY DEF D!Closed, D!ThresholdAssumption
<1>2. breaker' = [breaker EXCEPT ![s] = D!Closed] /\ raised' = [raised EXCEPT ![s] = {}]
  BY DEF D!Succeed, D!BreakerOf
<1>3. Cardinality({}) = 0
  BY FS_EmptySet
<1>4. ASSUME NEW u \in B, NEW r \in D!Services, D!At(u, r)' PROVE job'[u].doc \notin raised'[r]
  BY <1>2, <1>4 DEF BlameInv, D!At
<1> QED BY <1>1, <1>2, <1>3, <1>4 DEF BlameInv

(* It has raised: of a document it had not been asked about.                 *)
LEMMA FailBlame ==
    ASSUME JobsInv, BlameInv, D!ThresholdAssumption, D!DocsAssumption, NEW s \in D!Services,
           NEW t \in B, D!At(t, s), D!Fail(s, job[t].doc), file' = file,
           \A u \in B \ {t} : job'[u] = job[u],
           job'[t].at \notin D!Services
    PROVE  BlameInv'
<1> DEFINE n == IF breaker[s].failures = ServiceThreshold THEN ServiceThreshold
                ELSE breaker[s].failures + 1
           counted == [failures |-> n, open |-> breaker[s].open \/ n = ServiceThreshold]
           d == job[t].doc
<1>1. breaker' = [breaker EXCEPT ![s] = counted] /\ raised' = [raised EXCEPT ![s] = raised[s] \cup {d}]
  BY DEF D!Fail, D!BreakerOf, BlameInv
<1>2. /\ counted \in [failures : 0 .. ServiceThreshold, open : BOOLEAN]
      /\ counted.open => counted.failures = ServiceThreshold
      /\ counted.failures <= breaker[s].failures + 1
  BY DEF BlameInv, D!ThresholdAssumption
<1>3. /\ d \in A /\ file[d] \in D!File /\ Suits(file[d], s)
      /\ \A u \in B \ {t} : job[u].doc # d
  BY OwnDocument DEF D!Services
<1>4. /\ IsFiniteSet(raised[s]) /\ d \notin raised[s]
      /\ Cardinality(raised[s] \cup {d}) = Cardinality(raised[s]) + 1
      /\ Cardinality(raised[s]) \in Nat
  <2>1. IsFiniteSet(A)
    BY Zenon DEF D!DocsAssumption, D!IsFiniteSet, IsFiniteSet
  <2>3. raised[s] \subseteq A
    BY DEF BlameInv
  <2>4. d \notin raised[s]
    BY DEF BlameInv
  <2>2. IsFiniteSet(raised[s])
    BY <2>1, <2>3, FS_Subset
  <2> HIDE DEF d
  <2> QED BY <2>2, <2>4, FS_AddElement, FS_CardinalityType
<1>5. breaker[s].failures \in Nat /\ breaker[s].failures <= Cardinality(raised[s])
  BY DEF BlameInv, D!ThresholdAssumption
<1>6. counted.failures <= Cardinality(raised[s] \cup {d})
  <2>1. counted.failures \in Nat
    BY <1>2, PartsAssumption DEF PartsAssumption, D!ThresholdAssumption
  <2> HIDE DEF counted, d
  <2> QED BY <1>2, <1>4, <1>5, <2>1
<1>7. ASSUME NEW u \in B, NEW r \in D!Services, D!At(u, r)' PROVE job'[u].doc \notin raised'[r]
  BY <1>1, <1>3, <1>7 DEF BlameInv, D!At
<1>8. file[d] # None
  BY <1>3, PartsAssumption DEF PartsAssumption, D!NoneAssumption
<1> HIDE DEF counted, d
<1> QED BY <1>1, <1>2, <1>3, <1>6, <1>7, <1>8 DEF BlameInv

(* A job goes on, or a document's begins.                                    *)
LEMMA MoveBlame ==
    ASSUME BlameInv, UNCHANGED <<breaker, raised>>,
           \A d \in A : file[d] # None => file'[d] = file[d],
           \A t \in B, s \in D!Services : D!At(t, s)' =>
               (D!At(t, s) /\ job'[t] = job[t]) \/ file[job'[t].doc] = None
    PROVE  BlameInv'
<1>1. ASSUME NEW s \in D!Services, NEW d \in raised[s]
      PROVE  d \in A /\ file[d] # None /\ file'[d] = file[d] /\ Suits(file[d], s)
  BY DEF BlameInv
<1>2. ASSUME NEW s \in D!Services, NEW t \in B, D!At(t, s)' PROVE job'[t].doc \notin raised[s]
  BY <1>1, <1>2 DEF BlameInv
<1>3. /\ raised' \in [D!Services -> SUBSET A]
      /\ breaker' \in [D!Services -> [failures : 0 .. ServiceThreshold, open : BOOLEAN]]
  BY DEF BlameInv
<1> QED BY <1>1, <1>2, <1>3 DEF BlameInv

LEMMA BlameStep ==
    ASSUME JobsInv, BlameInv, D!ThresholdAssumption, D!DocsAssumption, D!NoneAssumption,
           [D!Next]_(D!vars)
    PROVE  BlameInv'
<1>1. ASSUME NEW t \in B, D!OcrAnswers(t) \/ D!SttAnswers(t)
      PROVE  BlameInv'
  <2>1. /\ file' = file /\ \A u \in B \ {t} : job'[u] = job[u]
        /\ job'[t].at \notin D!Services
    BY <1>1 DEF D!OcrAnswers, D!SttAnswers, D!Return, D!Goto, D!Idle, D!Services, JobsInv
  <2> QED BY <1>1, <2>1, SucceedBlame DEF D!OcrAnswers, D!SttAnswers, D!Services
<1>2. ASSUME NEW t \in B, D!OcrRaises(t) \/ D!SttRaises(t)
      PROVE  BlameInv'
  <2>1. /\ file' = file /\ \A u \in B \ {t} : job'[u] = job[u]
        /\ job'[t].at \notin D!Services
    BY <1>2 DEF D!OcrRaises, D!SttRaises, D!Return, D!Goto, D!Idle, D!Services, JobsInv
  <2> QED BY <1>2, <2>1, FailBlame DEF D!OcrRaises, D!SttRaises, D!Services
<1>3. ASSUME NEW t \in B, D!OcrImage(t)
      PROVE  BlameInv'
  <2>1. /\ file' = file /\ \A u \in B \ {t} : job'[u] = job[u]
        /\ job'[t].at \notin D!Services /\ UNCHANGED <<breaker, raised>>
    BY <1>3 DEF D!OcrImage, D!Return, D!Idle, D!Services, JobsInv
  <2> QED BY <2>1, MoveBlame DEF D!At
<1>4. ASSUME NEW t \in B, NEW d \in A, NEW f \in D!File, D!Start(t, d, f)
      PROVE  BlameInv'
  <2>1. /\ file[d] = None /\ \A e \in A : file[e] # None => file'[e] = file[e]
        /\ UNCHANGED <<breaker, raised>>
    BY <1>4 DEF D!Start, JobsInv
  <2>2. /\ \A u \in B \ {t} : job'[u] = job[u]
        /\ job'[t].at \in D!Services => job'[t].doc = d
    BY <1>4 DEF D!Start, D!Return, D!Goto, D!Idle, D!Services, JobsInv
  <2> QED BY <2>1, <2>2, MoveBlame DEF D!At
<1>5. ASSUME NEW s \in D!Services, D!CoolDown(s)
      PROVE  BlameInv'
  <2>1. /\ breaker' = [breaker EXCEPT ![s] = [breaker[s] EXCEPT !.open = FALSE]]
        /\ UNCHANGED <<file, job, raised>>
    BY <1>5 DEF D!CoolDown, BlameInv
  <2> QED BY <2>1 DEF BlameInv, D!At
<1>6. CASE UNCHANGED D!vars
  BY <1>6 DEF BlameInv, D!At, D!vars
<1> QED BY <1>1, <1>2, <1>3, <1>4, <1>5, <1>6 DEF D!Next

(* A document without text has the reason, and a breaker counts the calls to *)
(* its own service that raised, whatever it answered about other documents   *)
(* (documents/extraction.py:59-424).                                         *)
THEOREM ExtractionCorrect == Spec => []ExtractionIsExplained
<1>1. D!Init => JobsInv /\ BlameInv
  <2>1. SUFFICES ASSUME D!Init PROVE JobsInv /\ BlameInv
    OBVIOUS
  <2>2. ServiceThreshold \in Nat
    BY PartsAssumption DEF PartsAssumption, D!ThresholdAssumption
  <2>3. Cardinality({}) = 0
    BY FS_EmptySet
  <2> QED BY <2>1, <2>2, <2>3 DEF D!Init, JobsInv, BlameInv, D!Closed, D!At, D!Idle, D!Services
<1>2. JobsInv /\ BlameInv /\ [D!Next]_(D!vars) => JobsInv' /\ BlameInv'
  <2>1. SUFFICES ASSUME JobsInv, BlameInv, [D!Next]_(D!vars) PROVE JobsInv' /\ BlameInv'
    OBVIOUS
  <2>2. D!NoneAssumption /\ D!ThresholdAssumption /\ D!DocsAssumption
    BY PartsAssumption DEF PartsAssumption
  <2>3. CASE \E s \in D!Services : D!CoolDown(s)
    <3>1. UNCHANGED <<file, job, result>>
      BY <2>3 DEF D!CoolDown
    <3> QED BY <2>1, <2>2, <3>1, BlameStep DEF JobsInv
  <2>4. CASE UNCHANGED D!vars
    BY <2>1, <2>2, <2>4, BlameStep DEF D!vars, JobsInv
  <2> QED BY <2>1, <2>2, <2>3, <2>4, StartStep, OcrStep, LocalStep, SttStep, BlameStep DEF D!Next
<1>3. JobsInv /\ BlameInv => ExtractionIsExplained
  <2>1. ASSUME JobsInv, BlameInv PROVE D!TypeOK
    <3>1. ASSUME NEW t \in B
          PROVE  /\ D!At(t, "idle") <=> job[t].doc = None
                 /\ ~D!At(t, "idle") => job[t] # D!Idle
      <4>1. None \notin A
        BY PartsAssumption DEF PartsAssumption, D!NoneAssumption
      <4> QED BY <2>1, <4>1 DEF JobsInv, D!At, D!Idle
    <3> QED BY <2>1, <3>1 DEF JobsInv, BlameInv, D!TypeOK
  <2>2. ASSUME JobsInv PROVE D!FailuresAreExplained
    BY <2>2 DEF JobsInv, Explains, D!FailuresAreExplained
  <2>3. ASSUME BlameInv PROVE D!BreakersBlameTheirService
    <3>1. ASSUME NEW s \in D!Services, NEW d \in raised[s]
          PROVE  file[d].kind \in IF s = "stt" THEN {"audio"} ELSE {"image", "scanned"}
      <4>1. Suits(file[d], s)
        BY <2>3 DEF BlameInv
      <4> QED BY <4>1 DEF Suits, D!Services
    <3>2. ASSUME NEW s \in D!Services
          PROVE  /\ breaker[s].failures <= Cardinality(raised[s])
                 /\ breaker[s].open => breaker[s].failures = ServiceThreshold
      BY <2>3 DEF BlameInv
    <3>3. \A set : D!Cardinality(set) = Cardinality(set)
      BY Zenon DEF D!Cardinality, Cardinality
    <3> QED BY <3>1, <3>2, <3>3, Zenon DEF D!BreakersBlameTheirService
  <2> QED BY <2>1, <2>2, <2>3 DEF ExtractionIsExplained
<1> QED BY <1>1, <1>2, <1>3, PartsOfSpec, PTL DEF D!Spec

-----------------------------------------------------------------------------
(* Outages: while a breaker is open, the calls it has let through and the    *)
(* failures since it opened are fewer than the threads, and those calls were *)
(* let through before.                                                       *)

OutageInv ==
    \A b \in M!Breakers :
        /\ callBreaker[b].failures < CallThreshold =>
               callBreaker[b].left = 0 /\ late[b] <= callBreaker[b].failures
        /\ callBreaker[b].failures = CallThreshold => late[b] <= Cardinality(A) - 1
        /\ callBreaker[b].left > 0 =>
               /\ late[b] + Cardinality(M!Calling(b)) <= Cardinality(A) - 1
               /\ \A t \in M!Calling(b) : call[t].stale

CallsInv == M!TypeOK /\ OutageInv

LEMMA ThreadsAreFinite ==
    ASSUME M!ThreadsAssumption
    PROVE  /\ IsFiniteSet(A) /\ Cardinality(A) \in Nat
           /\ \A b : IsFiniteSet(M!Calling(b)) /\ Cardinality(M!Calling(b)) \in Nat
           /\ A # {} => Cardinality(A) >= 1
<1>1. IsFiniteSet(A)
  BY Zenon DEF M!ThreadsAssumption, M!IsFiniteSet, IsFiniteSet
<1>2. Cardinality(A) \in Nat /\ (A # {} => Cardinality(A) # 0)
  BY <1>1, FS_CardinalityType, FS_EmptySet
<1>3. ASSUME NEW b PROVE IsFiniteSet(M!Calling(b)) /\ Cardinality(M!Calling(b)) \in Nat
  <2>1. M!Calling(b) \subseteq A
    BY DEF M!Calling
  <2> QED BY <1>1, <2>1, FS_Subset, FS_CardinalityType
<1> QED BY <1>1, <1>2, <1>3

LEMMA CallMoves ==
    ASSUME M!TypeOK, NEW t \in A, NEW s \in {M!Idle} \cup M!CallType,
           call' = [call EXCEPT ![t] = s]
    PROVE  /\ call' \in [A -> {M!Idle} \cup M!CallType]
           /\ call'[t] = s /\ \A u \in A \ {t} : call'[u] = call[u]
BY DEF M!TypeOK

LEMMA CallingBreaker ==
    ASSUME M!TypeOK, NEW t \in A, ~M!At(t, "idle")
    PROVE  /\ call[t] \in M!CallType
           /\ M!BreakerOf(call[t].kind) \in M!Breakers
           /\ t \in M!Calling(M!BreakerOf(call[t].kind))
<1>1. call[t] \in M!CallType
  BY DEF M!TypeOK, M!At, M!Idle
<1> QED BY <1>1 DEF M!Breakers, M!Calling, M!CallType

(* A step of a call that neither asks its breaker nor tells it anything.     *)
LEMMA QuietStep ==
    ASSUME OutageInv, UNCHANGED <<callBreaker, late>>,
           \A b \in M!Breakers : callBreaker[b].left > 0 =>
               /\ M!Calling(b)' \subseteq M!Calling(b)
               /\ \A t \in M!Calling(b)' : call'[t].stale = call[t].stale,
           M!ThreadsAssumption, M!TypeOK
    PROVE  OutageInv'
<1>1. ASSUME NEW b \in M!Breakers, callBreaker[b].left > 0
      PROVE  Cardinality(M!Calling(b)') <= Cardinality(M!Calling(b))
             /\ Cardinality(M!Calling(b)') \in Nat
  <2>1. M!Calling(b)' \subseteq M!Calling(b) /\ IsFiniteSet(M!Calling(b))
    BY <1>1, ThreadsAreFinite
  <2> QED BY <2>1, FS_Subset, FS_CardinalityType
<1>2. \A b \in M!Breakers : late[b] \in Nat
  BY DEF M!TypeOK
<1>3. Cardinality(A) \in Nat /\ \A b : Cardinality(M!Calling(b)) \in Nat
  BY ThreadsAreFinite
<1>4. ASSUME NEW b \in M!Breakers, callBreaker[b].left > 0
      PROVE  /\ late[b] + Cardinality(M!Calling(b)') <= Cardinality(A) - 1
             /\ \A t \in M!Calling(b)' : call'[t].stale
  BY <1>1, <1>2, <1>3, <1>4 DEF OutageInv
<1> QED BY <1>4 DEF OutageInv

(* The call goes on, of the same kind and let through at the same time.      *)
LEMMA CallGoesOn ==
    ASSUME M!TypeOK, NEW t \in A, ~M!At(t, "idle"), NEW s \in M!CallType,
           s.kind = call[t].kind, s.stale = call[t].stale, call' = [call EXCEPT ![t] = s]
    PROVE  \A b : /\ M!Calling(b)' = M!Calling(b)
                  /\ \A u \in M!Calling(b)' : call'[u].stale = call[u].stale
<1>1. call'[t] = s /\ \A u \in A \ {t} : call'[u] = call[u]
  BY CallMoves
<1>2. s.at # "idle"
  BY DEF M!CallType
<1>3. \A u \in A : /\ M!At(u, "idle")' <=> M!At(u, "idle")
                   /\ ~M!At(u, "idle") => call'[u].kind = call[u].kind
                   /\ call'[u].stale = call[u].stale
  BY <1>1, <1>2 DEF M!At
<1> QED BY <1>3 DEF M!Calling

(* The call ends.                                                            *)
LEMMA CallEnds ==
    ASSUME M!TypeOK, NEW t \in A, call' = [call EXCEPT ![t] = M!Idle]
    PROVE  \A b : /\ M!Calling(b)' = M!Calling(b) \ {t}
                  /\ \A u \in M!Calling(b)' : call'[u].stale = call[u].stale
<1>1. call'[t] = M!Idle /\ \A u \in A \ {t} : call'[u] = call[u]
  BY CallMoves
<1>2. M!At(t, "idle")' /\ \A u \in A \ {t} : M!At(u, "idle")' <=> M!At(u, "idle")
  BY <1>1 DEF M!At, M!Idle
<1> QED BY <1>1, <1>2 DEF M!Calling

LEMMA AdmitStep ==
    ASSUME CallsInv, M!ThreadsAssumption, M!BoundsAssumption, NEW t \in A, NEW kind \in CallKinds,
           M!Admit(t, kind)
    PROVE  CallsInv' /\ M!ClosesOnTimeOrByStale
<1> DEFINE s == [at |-> IF kind \in M!Chat THEN "provider" ELSE "post", kind |-> kind,
                 tries |-> 1, stale |-> FALSE]
           k == M!BreakerOf(kind)
<1>1. /\ callBreaker[k].left = 0 /\ M!At(t, "idle") /\ call' = [call EXCEPT ![t] = s]
      /\ UNCHANGED <<callBreaker, callService, chat, late>>
  BY DEF M!Admit, M!Allows
<1>2. s \in M!CallType /\ s.kind = kind /\ (s.at = "post" => kind \notin M!Chat)
  BY DEF M!CallType, M!BoundsAssumption
<1> HIDE DEF s
<1>3. /\ call' \in [A -> {M!Idle} \cup M!CallType]
      /\ call'[t] = s /\ \A u \in A \ {t} : call'[u] = call[u]
  BY <1>1, <1>2, CallMoves DEF CallsInv
<1>4. M!TypeOK'
  BY <1>1, <1>2, <1>3 DEF CallsInv, M!TypeOK, M!At
<1>5. ASSUME NEW b \in M!Breakers, callBreaker[b].left > 0
      PROVE  M!Calling(b)' \subseteq M!Calling(b) /\ t \notin M!Calling(b)'
  <2>1. b # k
    BY <1>1, <1>5
  <2>2. t \notin M!Calling(b)'
    BY <1>2, <1>3, <2>1 DEF M!Calling
  <2> QED BY <1>3, <2>2 DEF M!Calling, M!At
<1>6. OutageInv'
  <2>1. \A b \in M!Breakers : callBreaker[b].left > 0 =>
            /\ M!Calling(b)' \subseteq M!Calling(b)
            /\ \A u \in M!Calling(b)' : call'[u].stale = call[u].stale
    BY <1>3, <1>5 DEF M!Calling
  <2> QED BY <1>1, <2>1, QuietStep DEF CallsInv
<1>7. M!ClosesOnTimeOrByStale
  BY <1>1 DEF M!ClosesOnTimeOrByStale, CallsInv, M!TypeOK
<1> QED BY <1>4, <1>6, <1>7 DEF CallsInv

(* A step of a call that leaves its breaker alone.                           *)
LEMMA GoesOnStep ==
    ASSUME CallsInv, M!ThreadsAssumption, NEW t \in A, ~M!At(t, "idle"), NEW s \in M!CallType,
           s.kind = call[t].kind, s.stale = call[t].stale,
           s.at = "post" /\ s.kind \in M!Chat => chat' # None,
           call' = [call EXCEPT ![t] = s], chat # None => chat' # None,
           chat' \in M!Services \cup {"mock", None},
           UNCHANGED <<callBreaker, callService, late>>
    PROVE  CallsInv' /\ M!ClosesOnTimeOrByStale
<1>1. /\ call' \in [A -> {M!Idle} \cup M!CallType]
      /\ call'[t] = s /\ \A u \in A \ {t} : call'[u] = call[u]
  BY CallMoves DEF CallsInv
<1>2. M!TypeOK'
  BY <1>1 DEF CallsInv, M!TypeOK, M!At
<1>3. OutageInv'
  BY CallGoesOn, QuietStep DEF CallsInv
<1>4. M!ClosesOnTimeOrByStale
  BY DEF M!ClosesOnTimeOrByStale, CallsInv, M!TypeOK
<1> QED BY <1>2, <1>3, <1>4 DEF CallsInv

LEMMA ProviderStep ==
    ASSUME CallsInv, M!ThreadsAssumption, M!SettingAssumption, M!NoneAssumption, NEW t \in A,
           M!GetProvider(t) \/ M!CreateProvider(t)
    PROVE  CallsInv' /\ M!ClosesOnTimeOrByStale
<1>1. /\ call[t].at \in {"provider", "create"} /\ ~M!At(t, "idle")
      /\ UNCHANGED <<callBreaker, callService, late>>
  BY DEF M!GetProvider, M!CreateProvider, M!At
<1>2. call[t] \in M!CallType /\ chat \in M!Services \cup {"mock", None}
  BY <1>1, CallingBreaker DEF CallsInv, M!TypeOK
<1>3. /\ chat' \in M!Services \cup {"mock", None} /\ (chat # None => chat' # None)
      /\ \E at \in {"create", "post", "failed"} :
             call' = [call EXCEPT ![t].at = at] /\ (at = "post" => chat' # None)
  <2>1. CASE M!GetProvider(t)
    <3>1. chat' = chat /\ call' = [call EXCEPT ![t].at = IF chat = None THEN "create" ELSE "post"]
      BY <2>1 DEF M!GetProvider, M!Goto
    <3>2. CASE chat = None
      BY <1>2, <3>1, <3>2
    <3>3. CASE chat # None
      BY <1>2, <3>1, <3>3
    <3> QED BY <3>2, <3>3
  <2>2. CASE M!CreateProvider(t) /\ chat' = chat /\ M!Goto(t, "failed")
    BY <1>2, <2>2 DEF M!Goto
  <2>3. CASE M!CreateProvider(t) /\ Setting \notin M!Services \ M!Reachable
    <3>1. /\ chat' = IF Setting # "auto" THEN Setting
                     ELSE IF "sarvam" \in M!Reachable THEN "sarvam"
                     ELSE IF "ollama" \in M!Reachable THEN "ollama"
                     ELSE "mock"
          /\ call' = [call EXCEPT ![t].at = "post"]
      BY <2>3 DEF M!CreateProvider, M!Goto
    <3>2. chat' \in {"sarvam", "ollama", "mock"}
      BY <3>1 DEF M!SettingAssumption
    <3>3. chat' \in M!Services \cup {"mock", None} /\ chat' # None
      BY <3>2 DEF M!Services, M!NoneAssumption
    <3> QED BY <3>1, <3>3
  <2> QED BY <2>1, <2>2, <2>3 DEF M!CreateProvider
<1>4. PICK at \in {"create", "post", "failed"} :
             call' = [call EXCEPT ![t].at = at] /\ (at = "post" => chat' # None)
  BY <1>3
<1> DEFINE s == [call[t] EXCEPT !.at = at]
<1>5. call' = [call EXCEPT ![t] = s]
  BY <1>4 DEF CallsInv, M!TypeOK
<1>6. /\ s \in M!CallType /\ s.kind = call[t].kind /\ s.stale = call[t].stale
      /\ s.at = "post" => chat' # None
  BY <1>2, <1>4 DEF M!CallType
<1> HIDE DEF s
<1> QED BY <1>1, <1>3, <1>5, <1>6, GoesOnStep

(* Another try of a request, or none.                                        *)
LEMMA AgainType ==
    ASSUME CallsInv, M!BoundsAssumption, NEW t \in A, M!At(t, "post"), M!Again(t)
    PROVE  \E s \in M!CallType : /\ call' = [call EXCEPT ![t] = s] /\ s # call[t]
                                 /\ s.kind = call[t].kind /\ s.stale = call[t].stale
                                 /\ s.at = "post" \/ s.at = "failed"
<1>1. call[t] \in M!CallType
  BY CallingBreaker DEF CallsInv, M!At
<1>2. CASE M!Retries(t)
  <2> DEFINE s == [call[t] EXCEPT !.tries = call[t].tries + 1]
  <2>1. call' = [call EXCEPT ![t] = s]
    BY <1>2 DEF M!Again, CallsInv, M!TypeOK
  <2>2. call[t].tries < Attempts /\ call[t].tries \in 1 .. Attempts
    BY <1>1, <1>2 DEF M!Retries, M!CallType
  <2>3. /\ s \in M!CallType /\ s.kind = call[t].kind /\ s.stale = call[t].stale
        /\ s.at = "post" /\ s.tries # call[t].tries
    BY <1>1, <2>2 DEF M!CallType, M!BoundsAssumption, M!At
  <2> HIDE DEF s
  <2> QED BY <2>1, <2>3
<1>3. CASE ~M!Retries(t)
  <2> DEFINE s == [call[t] EXCEPT !.at = "failed"]
  <2>1. call' = [call EXCEPT ![t] = s]
    BY <1>3 DEF M!Again, M!Goto, CallsInv, M!TypeOK
  <2>2. /\ s \in M!CallType /\ s.kind = call[t].kind /\ s.stale = call[t].stale
        /\ s.at = "failed" /\ s.at # call[t].at
    BY <1>1 DEF M!CallType, M!At
  <2> HIDE DEF s
  <2> QED BY <2>1, <2>2
<1> QED BY <1>2, <1>3

LEMMA NoAnswerStep ==
    ASSUME CallsInv, M!ThreadsAssumption, M!BoundsAssumption, NEW t \in A, M!NoAnswer(t)
    PROVE  CallsInv' /\ M!ClosesOnTimeOrByStale
<1>1. M!At(t, "post") /\ ~M!At(t, "idle") /\ M!Again(t)
      /\ UNCHANGED <<callBreaker, callService, chat, late>>
  BY DEF M!NoAnswer, M!At
<1>2. PICK s \in M!CallType : /\ call' = [call EXCEPT ![t] = s]
                              /\ s.kind = call[t].kind /\ s.stale = call[t].stale
  BY <1>1, AgainType
<1>3. /\ chat \in M!Services \cup {"mock", None}
      /\ call[t].kind \in M!Chat => chat # None
  BY <1>1 DEF CallsInv, M!TypeOK
<1> QED BY <1>1, <1>2, <1>3, GoesOnStep

LEMMA AbandonStep ==
    ASSUME CallsInv, M!ThreadsAssumption, NEW t \in A, M!Abandon(t)
    PROVE  CallsInv' /\ M!ClosesOnTimeOrByStale
<1>1. call' = [call EXCEPT ![t] = M!Idle] /\ UNCHANGED <<callBreaker, callService, chat, late>>
  BY DEF M!Abandon, M!Return
<1>2. /\ call' \in [A -> {M!Idle} \cup M!CallType]
      /\ call'[t] = M!Idle /\ \A u \in A \ {t} : call'[u] = call[u]
  BY <1>1, CallMoves DEF CallsInv
<1>3. M!TypeOK'
  BY <1>1, <1>2 DEF CallsInv, M!TypeOK, M!At, M!Idle
<1>4. OutageInv'
  BY <1>1, CallEnds, QuietStep DEF CallsInv
<1>5. M!ClosesOnTimeOrByStale
  BY <1>1 DEF M!ClosesOnTimeOrByStale, CallsInv, M!TypeOK
<1> QED BY <1>3, <1>4, <1>5 DEF CallsInv

(* A call tells its breaker of a success, and goes on or ends.               *)
LEMMA SucceedStep ==
    ASSUME CallsInv, M!ThreadsAssumption, M!BoundsAssumption, NEW t \in A, M!At(t, "post"),
           M!Succeed(M!BreakerOf(call[t].kind)), M!Return(t) \/ M!Again(t),
           UNCHANGED <<callService, chat>>
    PROVE  CallsInv' /\ M!ClosesOnTimeOrByStale
<1> DEFINE k == M!BreakerOf(call[t].kind)
<1>1. call[t] \in M!CallType /\ k \in M!Breakers /\ t \in M!Calling(k) /\ ~M!At(t, "idle")
  BY CallingBreaker DEF CallsInv, M!At
<1>2. PICK s \in {M!Idle} \cup M!CallType :
          /\ call' = [call EXCEPT ![t] = s] /\ s # call[t]
          /\ s # M!Idle => s.kind = call[t].kind /\ s.stale = call[t].stale
  <2>1. CASE M!Return(t)
    <3>1. call' = [call EXCEPT ![t] = M!Idle] /\ M!Idle # call[t]
      BY <1>1, <2>1 DEF M!Return, M!Idle, M!At
    <3> QED BY <3>1
  <2>2. CASE M!Again(t)
    BY <2>2, AgainType
  <2> QED BY <2>1, <2>2
<1>3. /\ call' \in [A -> {M!Idle} \cup M!CallType]
      /\ call'[t] = s /\ \A u \in A \ {t} : call'[u] = call[u]
  BY <1>2, CallMoves DEF CallsInv
<1>4. /\ callBreaker' = [callBreaker EXCEPT ![k] = M!Closed]
      /\ late' = [late EXCEPT ![k] = 0]
  BY DEF M!Succeed
<1> HIDE DEF k
<1>5. /\ callBreaker'[k].failures = 0 /\ callBreaker'[k].left = 0 /\ late'[k] = 0
      /\ M!Closed \in [failures : 0 .. CallThreshold, left : 0 .. Cooldown]
      /\ \A b \in M!Breakers \ {k} : callBreaker'[b] = callBreaker[b] /\ late'[b] = late[b]
  BY <1>1, <1>4 DEF CallsInv, M!TypeOK, M!Closed, M!BoundsAssumption
<1>6. M!TypeOK'
  <2>1. \A u \in A : M!At(u, "post")' /\ call'[u].kind \in M!Chat => chat # None
    <3>1. M!At(t, "post")' /\ call'[t].kind \in M!Chat => call[t].kind \in M!Chat
      BY <1>2, <1>3 DEF M!At, M!Idle
    <3> QED BY <1>3, <3>1 DEF CallsInv, M!TypeOK, M!At
  <2> QED BY <1>3, <1>4, <1>5, <2>1 DEF CallsInv, M!TypeOK
<1>7. OutageInv'
  <2>1. ASSUME NEW b \in M!Breakers \ {k}
        PROVE  /\ M!Calling(b)' \subseteq M!Calling(b)
               /\ \A u \in M!Calling(b)' : call'[u].stale = call[u].stale
    <3>1. CASE s = M!Idle
      BY <1>2, <3>1, CallEnds DEF CallsInv
    <3>2. CASE s # M!Idle
      BY <1>1, <1>2, <3>2, CallGoesOn DEF CallsInv
    <3> QED BY <3>1, <3>2
  <2>2. \A b \in M!Breakers \ {k} : Cardinality(M!Calling(b)') <= Cardinality(M!Calling(b))
                                    /\ Cardinality(M!Calling(b)') \in Nat
    BY <2>1, ThreadsAreFinite, FS_Subset, FS_CardinalityType
  <2>3. Cardinality(A) \in Nat /\ Cardinality(A) >= 1 /\ \A b : Cardinality(M!Calling(b)) \in Nat
    BY ThreadsAreFinite
  <2>4. \A b \in M!Breakers : late[b] \in Nat
    BY DEF CallsInv, M!TypeOK
  <2>5. ASSUME NEW b \in M!Breakers \ {k}, callBreaker[b].left > 0
        PROVE  late[b] + Cardinality(M!Calling(b)') <= Cardinality(A) - 1
               /\ \A u \in M!Calling(b)' : call'[u].stale
    BY <2>1, <2>2, <2>3, <2>4, <2>5 DEF CallsInv, OutageInv
  <2>6. CallThreshold > 0 /\ CallThreshold \in Nat
    BY DEF M!BoundsAssumption
  <2> QED BY <1>5, <2>3, <2>5, <2>6 DEF CallsInv, OutageInv
<1>8. M!ClosesOnTimeOrByStale
  <2>1. SUFFICES ASSUME NEW b \in M!Breakers, callBreaker'[b].left + 1 < callBreaker[b].left
                 PROVE  \E u \in M!Calling(b) : call[u].stale /\ call'[u] # call[u]
    BY DEF M!ClosesOnTimeOrByStale
  <2>2. b = k /\ callBreaker[k].left > 0
    BY <1>1, <1>5, <2>1 DEF CallsInv, M!TypeOK
  <2> QED BY <1>1, <1>2, <1>3, <2>2 DEF CallsInv, OutageInv
<1> QED BY <1>6, <1>7, <1>8 DEF CallsInv

LEMMA AnswersStep ==
    ASSUME CallsInv, M!ThreadsAssumption, M!BoundsAssumption, NEW t \in A,
           M!Answer(t) \/ M!OddAnswer(t) \/ M!OddTranslation(t)
    PROVE  CallsInv' /\ M!ClosesOnTimeOrByStale
<1>1. M!At(t, "post") /\ ~M!At(t, "idle") /\ UNCHANGED <<callService, chat>>
  BY DEF M!Answer, M!OddAnswer, M!OddTranslation, M!At
<1>2. CASE M!Succeed(M!BreakerOf(call[t].kind)) /\ (M!Return(t) \/ M!Again(t))
  BY <1>1, <1>2, SucceedStep
<1>3. CASE M!Goto(t, "failed") /\ UNCHANGED <<callBreaker, late>>
  <2> DEFINE s == [call[t] EXCEPT !.at = "failed"]
  <2>1. call' = [call EXCEPT ![t] = s]
    BY <1>3 DEF M!Goto, CallsInv, M!TypeOK
  <2>2. call[t] \in M!CallType
    BY <1>1, CallingBreaker DEF CallsInv
  <2>3. s \in M!CallType /\ s.kind = call[t].kind /\ s.stale = call[t].stale /\ s.at # "post"
    BY <2>2 DEF M!CallType
  <2>4. chat \in M!Services \cup {"mock", None}
    BY DEF CallsInv, M!TypeOK
  <2> HIDE DEF s
  <2> QED BY <1>1, <1>3, <2>1, <2>3, <2>4, GoesOnStep
<1> QED BY <1>2, <1>3 DEF M!Answer, M!OddAnswer, M!OddTranslation

(* The calls after one has failed: the others of an opening breaker are of   *)
(* before it opened.                                                         *)
LEMMA CallsAfterFailure ==
    ASSUME CallsInv, NEW t \in A, NEW b \in M!Breakers, M!Fail(t, b)
    PROVE  LET opens == M!Reopens(b, M!Counted(b)) IN
           /\ call' \in [A -> {M!Idle} \cup M!CallType] /\ call'[t] = M!Idle
           /\ \A u \in A \ {t} :
                  /\ \A at : M!At(u, at)' <=> M!At(u, at)
                  /\ ~M!At(u, "idle") => call'[u].kind = call[u].kind
                  /\ ~opens \/ u \notin M!Calling(b) => call'[u] = call[u]
                  /\ opens /\ u \in M!Calling(b) => call'[u].stale
           /\ \A c : M!Calling(c)' = M!Calling(c) \ {t}
<1> DEFINE opens == M!Reopens(b, M!Counted(b))
           before == IF opens THEN M!Overtaken(b) ELSE call
<1>1. call' = [before EXCEPT ![t] = M!Idle]
  BY DEF M!Fail
<1>2. ASSUME NEW u \in A
      PROVE  /\ before[u] \in {M!Idle} \cup M!CallType
             /\ before[u].at = call[u].at
             /\ ~M!At(u, "idle") => before[u].kind = call[u].kind
             /\ ~opens \/ u \notin M!Calling(b) => before[u] = call[u]
             /\ opens /\ u \in M!Calling(b) => before[u].stale
  <2>1. CASE opens /\ u \in M!Calling(b)
    <3>1. before[u] = [call[u] EXCEPT !.stale = TRUE]
      BY <2>1 DEF M!Overtaken
    <3>2. call[u] \in M!CallType
      BY <2>1, CallingBreaker DEF CallsInv, M!Calling
    <3> QED BY <2>1, <3>1, <3>2 DEF M!CallType
  <2>2. CASE ~(opens /\ u \in M!Calling(b))
    <3>1. before[u] = call[u]
      BY <2>2 DEF M!Overtaken
    <3> QED BY <2>2, <3>1 DEF CallsInv, M!TypeOK
  <2> QED BY <2>1, <2>2
<1>3. before \in [A -> {M!Idle} \cup M!CallType]
  <2>1. before = [u \in A |-> before[u]]
    BY DEF M!Overtaken, CallsInv, M!TypeOK
  <2> HIDE DEF before
  <2> QED BY <1>2, <2>1
<1> HIDE DEF before
<1>4. /\ call' \in [A -> {M!Idle} \cup M!CallType] /\ call'[t] = M!Idle
      /\ \A u \in A \ {t} : call'[u] = before[u]
  BY <1>1, <1>3
<1> HIDE DEF opens
<1>5. \A u \in A \ {t} :
          /\ \A at : M!At(u, at)' <=> M!At(u, at)
          /\ ~M!At(u, "idle") => call'[u].kind = call[u].kind
          /\ ~opens \/ u \notin M!Calling(b) => call'[u] = call[u]
          /\ opens /\ u \in M!Calling(b) => call'[u].stale
  BY <1>2, <1>4 DEF M!At
<1>6. M!At(t, "idle")'
  BY <1>4 DEF M!At, M!Idle
<1>7. \A c : M!Calling(c)' = M!Calling(c) \ {t}
  BY <1>5, <1>6 DEF M!Calling
<1> QED BY <1>4, <1>5, <1>7 DEF opens

LEMMA FailureStep ==
    ASSUME CallsInv, M!ThreadsAssumption, M!BoundsAssumption, NEW t \in A, M!RecordFailure(t)
    PROVE  CallsInv' /\ M!ClosesOnTimeOrByStale
<1>0. PICK k \in M!Breakers : k = M!BreakerOf(call[t].kind)
  BY CallingBreaker DEF M!RecordFailure, CallsInv, M!At
<1> DEFINE n == M!Counted(k)
           opens == M!Reopens(k, n)
<1>1. M!Fail(t, k) /\ ~M!At(t, "idle") /\ UNCHANGED <<callService, chat>>
  BY <1>0 DEF M!RecordFailure, M!At
<1>2. call[t] \in M!CallType /\ k \in M!Breakers /\ t \in M!Calling(k)
  BY <1>0, <1>1, CallingBreaker DEF CallsInv
<1>3. /\ call' \in [A -> {M!Idle} \cup M!CallType] /\ call'[t] = M!Idle
      /\ \A u \in A \ {t} :
             /\ \A at : M!At(u, at)' <=> M!At(u, at)
             /\ ~M!At(u, "idle") => call'[u].kind = call[u].kind
             /\ ~opens \/ u \notin M!Calling(k) => call'[u] = call[u]
             /\ opens /\ u \in M!Calling(k) => call'[u].stale
      /\ \A c : M!Calling(c)' = M!Calling(c) \ {t}
  BY <1>1, <1>2, CallsAfterFailure
<1> DEFINE row == [failures |-> n, left |-> IF opens THEN Cooldown ELSE callBreaker[k].left]
<1>4. /\ callBreaker' = [callBreaker EXCEPT ![k] = row]
      /\ late' = [late EXCEPT ![k] = IF opens THEN 0 ELSE late[k] + 1]
  BY <1>1, <1>2 DEF M!Fail, CallsInv, M!TypeOK
<1>5. /\ callBreaker[k].failures \in 0 .. CallThreshold /\ callBreaker[k].left \in 0 .. Cooldown
      /\ late[k] \in Nat /\ CallThreshold \in Nat \ {0} /\ Cooldown \in Nat \ {0}
  BY <1>2 DEF CallsInv, M!TypeOK, M!BoundsAssumption
<1>6. /\ n \in 0 .. CallThreshold
      /\ n = IF callBreaker[k].failures = CallThreshold THEN CallThreshold
             ELSE callBreaker[k].failures + 1
      /\ opens <=> n >= CallThreshold /\ callBreaker[k].left = 0
  BY <1>5 DEF M!Counted, M!Reopens
<1> HIDE DEF n, opens
<1>7. row \in [failures : 0 .. CallThreshold, left : 0 .. Cooldown]
  BY <1>5, <1>6
<1>8. /\ callBreaker'[k] = row /\ row.failures = n
      /\ row.left = IF opens THEN Cooldown ELSE callBreaker[k].left
      /\ late'[k] = IF opens THEN 0 ELSE late[k] + 1
      /\ \A b \in M!Breakers \ {k} : callBreaker'[b] = callBreaker[b] /\ late'[b] = late[b]
  BY <1>2, <1>4 DEF CallsInv, M!TypeOK
<1> HIDE DEF row
<1>9. M!TypeOK'
  <2>1. \A u \in A : M!At(u, "post")' /\ call'[u].kind \in M!Chat => chat # None
    <3>1. ~M!At(t, "post")'
      BY <1>3 DEF M!At, M!Idle
    <3>2. \A u \in A \ {t} : M!At(u, "post")' => M!At(u, "post") /\ call'[u].kind = call[u].kind
      BY <1>3 DEF M!At
    <3> QED BY <3>1, <3>2 DEF CallsInv, M!TypeOK
  <2>2. late' \in [M!Breakers -> Nat]
    <3> DEFINE m == IF opens THEN 0 ELSE late[k] + 1
    <3>1. m \in Nat
      BY <1>5
    <3>2. late' = [late EXCEPT ![k] = m]
      BY <1>4
    <3> HIDE DEF m
    <3> QED BY <3>1, <3>2 DEF CallsInv, M!TypeOK
  <2> QED BY <1>1, <1>3, <1>4, <1>7, <2>1, <2>2 DEF CallsInv, M!TypeOK
<1>10. Cardinality(A) \in Nat /\ Cardinality(A) >= 1 /\ \A b : Cardinality(M!Calling(b)) \in Nat
  BY ThreadsAreFinite
<1>11. ASSUME NEW b \in M!Breakers
       PROVE  /\ IsFiniteSet(M!Calling(b)) /\ M!Calling(b)' \subseteq M!Calling(b)
              /\ Cardinality(M!Calling(b)') <= Cardinality(M!Calling(b))
              /\ Cardinality(M!Calling(b)') \in Nat
  BY <1>3, ThreadsAreFinite, FS_Subset, FS_CardinalityType
<1>12. Cardinality(M!Calling(k)') = Cardinality(M!Calling(k)) - 1
       /\ Cardinality(M!Calling(k)) <= Cardinality(A)
  <2>1. M!Calling(k) \subseteq A /\ IsFiniteSet(A) /\ IsFiniteSet(M!Calling(k))
    BY ThreadsAreFinite DEF M!Calling
  <2>2. Cardinality(M!Calling(k) \ {t}) = Cardinality(M!Calling(k)) - 1
    BY <1>2, <2>1, FS_RemoveElement
  <2> QED BY <1>3, <2>1, <2>2, FS_Subset
<1>13. /\ callBreaker'[k].failures < CallThreshold =>
              callBreaker'[k].left = 0 /\ late'[k] <= callBreaker'[k].failures
       /\ callBreaker'[k].failures = CallThreshold => late'[k] <= Cardinality(A) - 1
       /\ callBreaker'[k].left > 0 =>
              /\ late'[k] + Cardinality(M!Calling(k)') <= Cardinality(A) - 1
              /\ \A u \in M!Calling(k)' : call'[u].stale
  <2>1. /\ callBreaker[k].failures < CallThreshold =>
               callBreaker[k].left = 0 /\ late[k] <= callBreaker[k].failures
        /\ callBreaker[k].failures = CallThreshold => late[k] <= Cardinality(A) - 1
        /\ callBreaker[k].left > 0 =>
               /\ late[k] + Cardinality(M!Calling(k)) <= Cardinality(A) - 1
               /\ \A u \in M!Calling(k) : call[u].stale
    BY <1>2 DEF CallsInv, OutageInv
  <2>2. CASE opens
    <3>1. \A u \in M!Calling(k)' : call'[u].stale
      BY <1>3, <2>2 DEF M!Calling
    <3>2. /\ callBreaker'[k].failures = CallThreshold /\ late'[k] = 0
          /\ Cardinality(M!Calling(k)') <= Cardinality(A) - 1
          /\ Cardinality(M!Calling(k)') \in Nat
      BY <1>2, <1>5, <1>6, <1>8, <1>10, <1>11, <1>12, <2>2
    <3> QED BY <1>5, <1>10, <3>1, <3>2
  <2>3. CASE ~opens /\ callBreaker[k].left > 0
    <3>1. \A u \in M!Calling(k)' : call'[u].stale
      BY <1>3, <2>1, <2>3 DEF M!Calling
    <3>2. /\ callBreaker[k].failures = CallThreshold
          /\ callBreaker'[k].failures = CallThreshold /\ late'[k] = late[k] + 1
      BY <1>5, <1>6, <1>8, <2>1, <2>3
    <3>3. late'[k] + Cardinality(M!Calling(k)') <= Cardinality(A) - 1
          /\ Cardinality(M!Calling(k)') \in Nat
      BY <1>2, <1>5, <1>10, <1>11, <1>12, <2>1, <2>3, <3>2
    <3> QED BY <1>5, <1>10, <3>1, <3>2, <3>3
  <2>4. CASE ~opens /\ callBreaker[k].left = 0
    <3>1. n < CallThreshold
      BY <1>5, <1>6, <2>4
    <3> QED BY <1>5, <1>6, <1>8, <2>1, <2>4, <3>1
  <2> QED BY <1>5, <2>2, <2>3, <2>4
<1>14. ASSUME NEW b \in M!Breakers \ {k}
       PROVE  /\ callBreaker'[b].failures < CallThreshold =>
                     callBreaker'[b].left = 0 /\ late'[b] <= callBreaker'[b].failures
              /\ callBreaker'[b].failures = CallThreshold => late'[b] <= Cardinality(A) - 1
              /\ callBreaker'[b].left > 0 =>
                     /\ late'[b] + Cardinality(M!Calling(b)') <= Cardinality(A) - 1
                     /\ \A u \in M!Calling(b)' : call'[u].stale
  <2>1. \A u \in M!Calling(b)' : \/ u \in M!Calling(b) /\ call'[u] = call[u]
                                 \/ call'[u].stale
    BY <1>3 DEF M!Calling
  <2>2. late[b] \in Nat
    BY DEF CallsInv, M!TypeOK
  <2>3. callBreaker[b].left > 0 =>
            /\ late[b] + Cardinality(M!Calling(b)) <= Cardinality(A) - 1
            /\ \A u \in M!Calling(b) : call[u].stale
    BY DEF CallsInv, OutageInv
  <2>4. callBreaker[b].left > 0 =>
            /\ late[b] + Cardinality(M!Calling(b)') <= Cardinality(A) - 1
            /\ \A u \in M!Calling(b)' : call'[u].stale
    BY <1>10, <1>11, <2>1, <2>2, <2>3
  <2> QED BY <1>8, <2>4 DEF CallsInv, OutageInv
<1>15. OutageInv'
  BY <1>13, <1>14 DEF OutageInv
<1>16. M!ClosesOnTimeOrByStale
  <2>1. SUFFICES ASSUME NEW b \in M!Breakers
                 PROVE  ~(callBreaker'[b].left + 1 < callBreaker[b].left)
    BY DEF M!ClosesOnTimeOrByStale
  <2>2. callBreaker[b].left \in Nat
    BY DEF CallsInv, M!TypeOK
  <2> QED BY <1>5, <1>6, <1>8, <2>2
<1> QED BY <1>9, <1>15, <1>16 DEF CallsInv

LEMMA TickStep ==
    ASSUME CallsInv, M!BoundsAssumption, M!Tick
    PROVE  CallsInv' /\ M!ClosesOnTimeOrByStale
<1> DEFINE row(b) == [callBreaker[b] EXCEPT !.left = IF callBreaker[b].left > 0
                                                     THEN callBreaker[b].left - 1 ELSE 0]
<1>1. callBreaker' = [b \in M!Breakers |-> row(b)] /\ UNCHANGED <<callService, chat, call, late>>
  BY DEF M!Tick
<1>2. ASSUME NEW b \in M!Breakers
      PROVE  /\ callBreaker[b].left \in 0 .. Cooldown /\ Cooldown \in Nat
             /\ row(b) \in [failures : 0 .. CallThreshold, left : 0 .. Cooldown]
             /\ row(b).failures = callBreaker[b].failures
             /\ row(b).left = IF callBreaker[b].left > 0 THEN callBreaker[b].left - 1 ELSE 0
  <2>1. callBreaker[b] \in [failures : 0 .. CallThreshold, left : 0 .. Cooldown]
        /\ Cooldown \in Nat
    BY DEF CallsInv, M!TypeOK, M!BoundsAssumption
  <2> QED BY <2>1
<1> HIDE DEF row
<1>3. M!TypeOK'
  <2>1. callBreaker' \in [M!Breakers -> [failures : 0 .. CallThreshold, left : 0 .. Cooldown]]
    BY <1>1, <1>2
  <2> QED BY <1>1, <2>1 DEF CallsInv, M!TypeOK, M!At
<1>4. \A b : M!Calling(b)' = M!Calling(b)
  BY <1>1 DEF M!Calling, M!At
<1>5. ASSUME NEW b \in M!Breakers
      PROVE  /\ callBreaker'[b].failures = callBreaker[b].failures
             /\ callBreaker'[b].left > 0 => callBreaker[b].left > 0
             /\ callBreaker[b].left = 0 => callBreaker'[b].left = 0
             /\ ~(callBreaker'[b].left + 1 < callBreaker[b].left)
  BY <1>1, <1>2
<1>6. OutageInv'
  BY <1>1, <1>4, <1>5 DEF CallsInv, OutageInv
<1>7. M!ClosesOnTimeOrByStale
  BY <1>5 DEF M!ClosesOnTimeOrByStale
<1> QED BY <1>3, <1>6, <1>7 DEF CallsInv

LEMMA CallsStep ==
    ASSUME CallsInv, M!ThreadsAssumption, M!BoundsAssumption, M!SettingAssumption,
           M!NoneAssumption, [M!Next]_(M!vars)
    PROVE  CallsInv' /\ (M!ClosesOnTimeOrByStale \/ UNCHANGED M!vars)
<1>1. CASE \E s \in M!Services : M!Change(s)
  <2>1. UNCHANGED <<callBreaker, chat, call, late>>
        /\ callService' \in [M!Services -> {"up", "odd", "down"}]
    BY <1>1 DEF M!Change, CallsInv, M!TypeOK
  <2>2. M!TypeOK'
    BY <2>1 DEF CallsInv, M!TypeOK, M!At
  <2>3. OutageInv'
    BY <2>1 DEF CallsInv, OutageInv, M!Calling, M!At
  <2>4. M!ClosesOnTimeOrByStale
    BY <2>1 DEF M!ClosesOnTimeOrByStale, CallsInv, M!TypeOK
  <2> QED BY <2>2, <2>3, <2>4 DEF CallsInv
<1>2. CASE UNCHANGED M!vars
  BY <1>2 DEF M!vars, CallsInv, M!TypeOK, M!At, OutageInv, M!Calling
<1> QED BY <1>1, <1>2, AdmitStep, ProviderStep, AnswersStep, NoAnswerStep, FailureStep, AbandonStep,
           TickStep DEF M!Next, M!Serve

(* An outage costs few timeouts, and an open breaker closes early only       *)
(* through a call it admitted before it opened (core/circuit_breaker.py).    *)
THEOREM OutageCorrect == Spec => OutageIsContained
<1>1. M!Init => CallsInv
  <2>1. SUFFICES ASSUME M!Init PROVE CallsInv
    OBVIOUS
  <2>2. CallThreshold \in Nat \ {0} /\ Cooldown \in Nat
    BY PartsAssumption DEF PartsAssumption, M!BoundsAssumption
  <2>3. M!TypeOK
    BY <2>1, <2>2 DEF M!Init, M!TypeOK, M!Closed, M!At, M!Idle
  <2>4. OutageInv
    BY <2>1, <2>2 DEF M!Init, OutageInv, M!Closed
  <2> QED BY <2>3, <2>4 DEF CallsInv
<1>2. CallsInv /\ [M!Next]_(M!vars) => CallsInv' /\ (M!ClosesOnTimeOrByStale \/ UNCHANGED M!vars)
  BY PartsAssumption, CallsStep DEF PartsAssumption
<1>3. CallsInv => (part = "calls" => M!TypeOK /\ M!OutageIsCheap)
  <2>1. SUFFICES ASSUME CallsInv, NEW b \in M!Breakers
                 PROVE  late[b] <= M!Larger(CallThreshold, M!Cardinality(A)) - 1
    BY DEF CallsInv, M!OutageIsCheap
  <2>2. M!Cardinality(A) = Cardinality(A)
    BY Zenon DEF M!Cardinality, Cardinality
  <2>3. Cardinality(A) \in Nat /\ CallThreshold \in Nat
    BY PartsAssumption, ThreadsAreFinite DEF PartsAssumption, M!BoundsAssumption
  <2>4. late[b] \in Nat /\ callBreaker[b].failures \in 0 .. CallThreshold
    BY <2>1 DEF CallsInv, M!TypeOK
  <2>5. late[b] <= CallThreshold - 1 \/ late[b] <= Cardinality(A) - 1
    BY <2>1, <2>3, <2>4 DEF CallsInv, OutageInv
  <2> QED BY <2>2, <2>3, <2>4, <2>5 DEF M!Larger
<1> QED BY <1>1, <1>2, <1>3, PartsOfSpec, PTL
        DEF M!Spec, OutageIsContained, M!EarlyCloseIsStale

-----------------------------------------------------------------------------
(* The preliminary review: only what is read to the end has been judged, and *)
(* what the claimant is told follows from the lists it was told of.          *)

JudgedInv ==
    review # None => \A d \in A :
        /\ review.relevant[d] # Unread => d \in R!Has(review.docs, "complete")
        /\ review.relevant[d] = TRUE => review.docs[d].text

ReviewInv == R!TypeOK /\ JudgedInv /\ R!NoteIsTrue /\ R!ScoreIsFounded

(* Numbers of documents, and none.                                           *)
LEMMA CountOfDocs ==
    ASSUME R!DocsAssumption, NEW few, few \subseteq A
    PROVE  R!Cardinality(few) \in Nat /\ (R!Cardinality(few) = 0 <=> few = {})
<1>1. IsFiniteSet(A) /\ R!Cardinality(few) = Cardinality(few)
  BY Zenon DEF R!DocsAssumption, R!IsFiniteSet, IsFiniteSet, R!Cardinality, Cardinality
<1>2. IsFiniteSet(few)
  BY <1>1, FS_Subset
<1> QED BY <1>1, <1>2, FS_CardinalityType, FS_EmptySet

(* What a review that ends has listed and judged.                            *)
LEMMA ListedAndJudged ==
    ASSUME ReviewInv, R!NoneAssumption, review # None, R!Unasked = {}
    PROVE  LET relevant == {d \in A : review.relevant[d] = TRUE}
               complete == R!Has(review.docs, "complete") IN
           /\ relevant \subseteq {d \in complete : review.docs[d].text}
           /\ \A d \in complete \ relevant : review.relevant[d] \in {FALSE, None}
           /\ \A d \in A : review.docs[d] # None =>
                  \/ d \in complete \/ d \in R!Has(review.docs, "pending")
                  \/ d \in R!Has(review.docs, "processing") \/ d \in R!Has(review.docs, "failed")
<1>1. review.docs \in [A -> R!Document \cup {None}] /\ review.relevant \in R!Relevance
  BY DEF ReviewInv, R!TypeOK
<1>2. \A d \in R!Has(review.docs, "complete") : d \in A /\ review.relevant[d] # Unread
  BY DEF R!Unasked, R!Has
<1>3. \A d \in A : review.relevant[d] = TRUE =>
          d \in R!Has(review.docs, "complete") /\ review.docs[d].text
  BY DEF ReviewInv, JudgedInv, R!NoneAssumption
<1>4. \A d \in A : review.relevant[d] \in {TRUE, FALSE, None, Unread}
  BY <1>1 DEF R!Relevance
<1>5. \A d \in A : review.docs[d] # None =>
          review.docs[d].status \in {"pending", "processing", "complete", "failed"}
  BY <1>1 DEF R!Document, R!Status
<1> QED BY <1>2, <1>3, <1>4, <1>5 DEF R!Has

LEMMA NoteStep ==
    ASSUME ReviewInv, R!DocsAssumption, R!NoneAssumption, R!Finish
    PROVE  R!NoteIsTrue' /\ R!ScoreIsFounded'
<1> DEFINE relevant == {d \in A : review.relevant[d] = TRUE}
           listed == {d \in A : review.docs[d] # None}
           pending == R!Has(review.docs, "pending")
           failures == R!Has(review.docs, "failed")
           n == R!Cardinality(relevant)
           size == R!Cardinality(listed)
           note == R!Note(size, n, R!Count("pending"), R!Count("failed"))
<1>1. review # None /\ R!Unasked = {}
  BY DEF R!Finish
<1>2. PICK win \in R!Winnability(n, size), detailed \in R!DetailedEnough :
          told' = [docs |-> review.docs, relevant |-> review.relevant, note |-> note,
                   detailed |-> detailed, winnability |-> win]
  BY DEF R!Finish
<1>3. /\ told'.docs = review.docs /\ told'.relevant = review.relevant
      /\ told'.note = note /\ told'.winnability = win
  BY <1>2
<1>4. /\ n \in Nat /\ (n = 0 <=> relevant = {})
      /\ size \in Nat /\ (size = 0 <=> listed = {})
      /\ R!Count("pending") \in Nat /\ (R!Count("pending") = 0 <=> pending = {})
      /\ R!Count("failed") \in Nat /\ (R!Count("failed") = 0 <=> failures = {})
  BY CountOfDocs DEF R!Count, R!Has
<1>5. R!NoteIsTrue'
  <2>1. /\ note = "none" <=> size = 0
        /\ note = "processing" => R!Count("pending") > 0
        /\ note = "unreadable" => R!Count("failed") > 0 /\ R!Count("pending") = 0 /\ n = 0
        /\ note = "irrelevant" => n = 0 /\ R!Count("pending") = 0 /\ R!Count("failed") = 0
        /\ note = "relevant" => n # 0 /\ R!Count("pending") = 0
    <3> HIDE DEF size, n
    <3> QED BY <1>4 DEF R!Note
  <2>2. /\ relevant \subseteq {d \in R!Has(review.docs, "complete") : review.docs[d].text}
        /\ \A d \in R!Has(review.docs, "complete") \ relevant : review.relevant[d] \in {FALSE, None}
        /\ \A d \in listed :
               \/ d \in R!Has(review.docs, "complete") \/ d \in pending
               \/ d \in R!Has(review.docs, "processing") \/ d \in failures
    BY <1>1, ListedAndJudged
  <2>3. /\ {d \in A : told'.docs[d] # None} = listed
        /\ R!Has(told'.docs, "pending") = pending /\ R!Has(told'.docs, "failed") = failures
        /\ R!Has(told'.docs, "processing") = R!Has(review.docs, "processing")
        /\ R!Has(told'.docs, "complete") = R!Has(review.docs, "complete")
        /\ {d \in A : told'.relevant[d] = TRUE} = relevant
    BY <1>3
  <2> HIDE DEF relevant, listed, pending, failures, n, size, note
  <2>4. note = "irrelevant" => \A d \in listed \ R!Has(review.docs, "processing") :
                                   told'.relevant[d] \in {FALSE, None}
    BY <1>3, <1>4, <2>1, <2>2
  <2>5. /\ note = "none" <=> listed = {}
        /\ note = "processing" => pending # {}
        /\ note = "unreadable" => failures # {} /\ pending = {} /\ relevant = {}
        /\ note = "relevant" => relevant # {} /\ pending = {}
    BY <1>4, <2>1
  <2>6. relevant \subseteq {d \in R!Has(told'.docs, "complete") : told'.docs[d].text}
    BY <1>3, <2>2
  <2> QED BY <1>3, <2>3, <2>4, <2>5, <2>6 DEF R!NoteIsTrue
<1>6. R!ScoreIsFounded'
  <2> DEFINE score == R!ScriptedWinnability(n, size)
  <2>1. /\ score \in 0 .. 100 /\ (size = 0 => score <= 25)
        /\ score >= 70 => size # 0 /\ n # 0
    <3>1. R!Least(n, 3) \in 0 .. 3 /\ (n = 0 => R!Least(n, 3) = 0)
      BY <1>4 DEF R!Least
    <3> DEFINE m == R!Least(n, 3)
               full == 20 + (IF description \in {"wordy", "full"} THEN 15 ELSE 0) + 20 * m
    <3>2. score = IF size = 0 THEN R!Least(full, 25) ELSE full
      BY DEF R!ScriptedWinnability
    <3> HIDE DEF size, n, m, score
    <3>3. full \in 20 .. 95 /\ (m = 0 => full <= 35)
      BY <3>1 DEF m
    <3> HIDE DEF full
    <3> QED BY <1>4, <3>1, <3>2, <3>3 DEF R!Least, m
  <2>2. R!Label(score) = "strong" => score >= 70
    <3> HIDE DEF score, n, size
    <3> QED BY <2>1 DEF R!Label
  <2>3. /\ win.score \in 0 .. 100
        /\ win.scripted => win.score = score /\ win.label = R!Label(score)
    <3>1. \/ win = [score |-> score, label |-> R!Label(score), scripted |-> TRUE]
          \/ \E x \in {0, 40, 100}, label \in {"weak", "moderate", "strong"} :
                 win = [score |-> x, label |-> label, scripted |-> FALSE]
      BY <1>2 DEF R!Winnability
    <3> HIDE DEF score
    <3> QED BY <2>1, <3>1
  <2>4. size # 0 /\ n # 0 => note \in {"relevant", "processing"}
    <3> HIDE DEF size, n
    <3> QED BY <1>4 DEF R!Note
  <2>5. (\A d \in A : told'.docs[d] = None) => size = 0
    BY <1>3, <1>4
  <2> HIDE DEF score, size, n, note
  <2> QED BY <1>3, <2>1, <2>2, <2>3, <2>4, <2>5 DEF R!ScoreIsFounded
<1> QED BY <1>5, <1>6

LEMMA RelevanceStep ==
    ASSUME ReviewInv, R!NoneAssumption, NEW d \in A, R!DocumentRelevance(d)
    PROVE  ReviewInv' /\ R!NoneCondemnedInOutage
<1>1. /\ review # None /\ d \in R!Has(review.docs, "complete")
      /\ UNCHANGED <<type, description, document, model, told, suggestion>>
  BY DEF R!DocumentRelevance, R!Unasked
<1>2. PICK answer \in R!Told(review.docs[d]) : review' = [review EXCEPT !.relevant[d] = answer]
  BY DEF R!DocumentRelevance
<1>3. /\ answer \in BOOLEAN \cup {None}
      /\ model # "answers" => answer # FALSE
      /\ answer = TRUE => review.docs[d].text
  BY <1>2 DEF R!Told, R!NoneAssumption
<1>4. review \in [docs : [A -> R!Document \cup {None}], relevant : R!Relevance]
  BY <1>1 DEF ReviewInv, R!TypeOK
<1>5. /\ review' \in [docs : [A -> R!Document \cup {None}], relevant : R!Relevance]
      /\ review'.docs = review.docs /\ review'.relevant[d] = answer
      /\ \A e \in A \ {d} : review'.relevant[e] = review.relevant[e]
  BY <1>2, <1>3, <1>4 DEF R!Relevance
<1>6. R!TypeOK'
  BY <1>1, <1>5 DEF ReviewInv, R!TypeOK
<1>7. JudgedInv'
  BY <1>1, <1>3, <1>5 DEF ReviewInv, JudgedInv, R!Has
<1>8. R!NoteIsTrue' /\ R!ScoreIsFounded'
  BY <1>1 DEF ReviewInv, R!NoteIsTrue, R!ScoreIsFounded
<1>9. R!NoneCondemnedInOutage
  BY <1>3, <1>5 DEF R!NoneCondemnedInOutage
<1> QED BY <1>6, <1>7, <1>8, <1>9 DEF ReviewInv

LEMMA ReviewStep ==
    ASSUME ReviewInv, R!DocsAssumption, R!NoneAssumption, [R!Next]_(R!vars)
    PROVE  ReviewInv' /\ (R!NoneCondemnedInOutage \/ UNCHANGED R!vars)
<1>1. CASE R!Begin
  <2>1. /\ review = None /\ told' = None
        /\ review' = [docs |-> document, relevant |-> [d \in A |-> Unread]]
        /\ UNCHANGED <<type, description, document, model, suggestion>>
    BY <1>1 DEF R!Begin
  <2>2. R!TypeOK'
    BY <2>1 DEF ReviewInv, R!TypeOK, R!Relevance
  <2>3. JudgedInv' /\ R!NoteIsTrue' /\ R!ScoreIsFounded'
    BY <2>1 DEF R!NoneAssumption, JudgedInv, R!NoteIsTrue, R!ScoreIsFounded
  <2>4. R!NoneCondemnedInOutage
    BY <2>1 DEF R!NoneCondemnedInOutage
  <2> QED BY <2>2, <2>3, <2>4 DEF ReviewInv
<1>2. CASE R!Finish
  <2>1. review' = None /\ UNCHANGED <<type, description, document, model, suggestion>>
    BY <1>2 DEF R!Finish
  <2>2. R!TypeOK' /\ JudgedInv'
    BY <2>1 DEF ReviewInv, R!TypeOK, JudgedInv
  <2>3. R!NoneCondemnedInOutage
    BY <2>1 DEF R!NoneCondemnedInOutage
  <2> QED BY <1>2, <2>2, <2>3, NoteStep DEF ReviewInv
<1>3. CASE \E d \in A : R!Upload(d) \/ R!Extract(d)
  <2>1. /\ document' \in [A -> R!Document \cup {None}]
        /\ UNCHANGED <<type, description, model, review, told, suggestion>>
    <3>1. PICK d \in A : \E row \in R!Document : document' = [document EXCEPT ![d] = row]
      <4>1. PICK d \in A : R!Upload(d) \/ R!Extract(d)
        BY <1>3
      <4>2. document[d] # None => document[d] \in R!Document
        BY DEF ReviewInv, R!TypeOK
      <4>3. \A status \in R!Status : document[d] # None =>
                [document[d] EXCEPT !.status = status] \in R!Document
        BY <4>2 DEF R!Document
      <4>4. [status |-> "pending", text |-> FALSE] \in R!Document
            /\ \A text \in BOOLEAN : [status |-> "complete", text |-> text] \in R!Document
        BY DEF R!Document, R!Status
      <4>5. CASE R!Upload(d)
        BY <4>4, <4>5 DEF R!Upload
      <4>6. CASE R!Extract(d)
        <5>1. document \in [A -> R!Document \cup {None}]
          BY DEF ReviewInv, R!TypeOK
        <5> QED BY <4>3, <4>4, <4>6, <5>1 DEF R!Extract, R!Has, R!Status
      <4> QED BY <4>1, <4>5, <4>6
    <3> QED BY <1>3, <3>1 DEF R!Upload, R!Extract, ReviewInv, R!TypeOK
  <2> QED BY <2>1 DEF ReviewInv, R!TypeOK, JudgedInv, R!NoteIsTrue, R!ScoreIsFounded,
              R!NoneCondemnedInOutage
<1>4. CASE R!Change \/ R!Restart \/ (\E long \in BOOLEAN : R!SuggestDisputeType(long))
           \/ UNCHANGED R!vars
  <2>1. /\ UNCHANGED <<type, description, document, told>> /\ model' \in R!Model
        /\ review' \in {review, None} /\ suggestion' \in (Active \ {type}) \cup {None}
    BY <1>4 DEF R!Change, R!Restart, R!SuggestDisputeType, R!vars, ReviewInv, R!TypeOK
  <2>2. R!TypeOK'
    BY <2>1 DEF ReviewInv, R!TypeOK
  <2>3. JudgedInv'
    BY <2>1 DEF ReviewInv, JudgedInv
  <2>4. R!NoteIsTrue' /\ R!ScoreIsFounded'
    BY <2>1 DEF ReviewInv, R!NoteIsTrue, R!ScoreIsFounded
  <2>5. R!NoneCondemnedInOutage
    BY <2>1 DEF R!NoneCondemnedInOutage
  <2> QED BY <2>2, <2>3, <2>4, <2>5 DEF ReviewInv
<1> QED BY <1>1, <1>2, <1>3, <1>4, RelevanceStep DEF R!Next

(* What the claimant is told is true of the documents listed that are not    *)
(* being processed, a score has what it rests on, and an outage makes no     *)
(* document irrelevant (agents/preliminary_review.py), for any number of     *)
(* documents.                                                                *)
THEOREM ReviewsCorrect == Spec => ReviewsAreFair
<1>1. R!Init => ReviewInv
  BY DEF R!Init, ReviewInv, R!TypeOK, JudgedInv, R!NoteIsTrue, R!ScoreIsFounded
<1>2. ReviewInv /\ [R!Next]_(R!vars) => ReviewInv' /\ (R!NoneCondemnedInOutage \/ UNCHANGED R!vars)
  BY PartsAssumption, ReviewStep DEF PartsAssumption
<1>3. ReviewInv => (part = "review" => R!TypeOK /\ R!NoteIsTrue /\ R!ScoreIsFounded)
  BY DEF ReviewInv
<1> QED BY <1>1, <1>2, <1>3, PartsOfSpec, PTL
        DEF R!Spec, ReviewsAreFair, R!OutageCondemnsNoDocument

-----------------------------------------------------------------------------
(* The chained audit log. What Walk leaves of a log is proved of every       *)
(* length by a least counterexample: n is the first length it fails for.     *)

(* The cardinalities of the instance are the ones of the theorems.           *)
LEMMA SameSizes == \A set : E!Cardinality(set) = Cardinality(set)
BY Zenon DEF E!Cardinality, Cardinality

LEMMA LeastNumber ==
    ASSUME NEW Failing, Failing \subseteq Nat, Failing # {}
    PROVE  \E n \in Failing : \A m \in Failing : n <= m
<1>1. PICK n \in Failing : \A m \in Failing : <<m, n>> \notin OpToRel(<, Nat)
  BY NatLessThanWellFounded, WFMin
<1>2. ASSUME NEW m \in Failing PROVE n <= m
  <2>1. ~(m < n)
    BY <1>1 DEF OpToRel
  <2> QED BY <2>1
<1> QED BY <1>2

IsWalk(c, log, n, f) == f = [k \in 0 .. n |-> IF k = 0 THEN E!Start ELSE E!Check(c, f[k - 1], log[k])]

LEMMA WalkExists ==
    ASSUME NEW c, NEW log, Len(log) \in Nat, NEW n \in 0 .. Len(log)
    PROVE  \E f : IsWalk(c, log, n, f)
<1> DEFINE Known(k) == \E f : IsWalk(c, log, k, f)
           Failing == {k \in Nat : k <= Len(log) /\ ~Known(k)}
<1>1. SUFFICES ASSUME Failing # {} PROVE FALSE
  <2>1. Failing = {} => Known(n)
    <3> HIDE DEF Known
    <3> QED BY DEF Failing
  <2> QED BY <1>1, <2>1
<1>2. PICK k \in Failing : \A m \in Failing : k <= m
  <2> HIDE DEF Failing
  <2>1. Failing \subseteq Nat
    BY DEF Failing
  <2> QED BY <1>1, <2>1, LeastNumber
<1>3. k # 0
  <2>1. [i \in 0 .. 0 |-> E!Start] =
        [i \in 0 .. 0 |-> IF i = 0 THEN E!Start ELSE E!Check(c, [j \in 0 .. 0 |-> E!Start][i - 1], log[i])]
    OBVIOUS
  <2>2. Known(0)
    BY <2>1 DEF IsWalk
  <2> QED BY <2>2
<1>4. k - 1 \in Nat /\ k - 1 <= Len(log) /\ k - 1 \notin Failing /\ k \in Nat
  <2> HIDE DEF Known
  <2> QED BY <1>2, <1>3
<1>5. PICK g : g = [i \in 0 .. k - 1 |-> IF i = 0 THEN E!Start ELSE E!Check(c, g[i - 1], log[i])]
  <2>1. Known(k - 1)
    <3> HIDE DEF Known
    <3> QED BY <1>4
  <2> QED BY <2>1 DEF IsWalk
<1> DEFINE f == [i \in 0 .. k |-> IF i = 0 THEN E!Start ELSE E!Check(c, g[i - 1], log[i])]
<1>6. \A i \in 0 .. k - 1 : f[i] = g[i]
  <2>1. ASSUME NEW i \in 0 .. k - 1
        PROVE  f[i] = IF i = 0 THEN E!Start ELSE E!Check(c, g[i - 1], log[i])
    BY <1>4
  <2>2. ASSUME NEW i \in 0 .. k - 1
        PROVE  g[i] = IF i = 0 THEN E!Start ELSE E!Check(c, g[i - 1], log[i])
    BY <1>5, Zenon
  <2> HIDE DEF f
  <2> QED BY <2>1, <2>2
<1>7. f = [i \in 0 .. k |-> IF i = 0 THEN E!Start ELSE E!Check(c, f[i - 1], log[i])]
  <2>1. ASSUME NEW i \in 0 .. k, i # 0 PROVE f[i - 1] = g[i - 1]
    <3> HIDE DEF f
    <3>1. i - 1 \in 0 .. k - 1
      BY <1>4, <2>1
    <3> QED BY <1>6, <3>1
  <2> HIDE DEF f
  <2>2. f = [i \in 0 .. k |-> IF i = 0 THEN E!Start ELSE E!Check(c, g[i - 1], log[i])]
    BY DEF f
  <2> QED BY <2>1, <2>2
<1>8. Known(k)
  <2> HIDE DEF f
  <2> QED BY <1>7 DEF IsWalk
<1> QED BY <1>8

LEMMA WalkDef ==
    ASSUME NEW c, NEW log, Len(log) \in Nat
    PROVE  /\ E!Walk(c, log)[0] = E!Start
           /\ \A n \in 1 .. Len(log) :
                  E!Walk(c, log)[n] = E!Check(c, E!Walk(c, log)[n - 1], log[n])
<1> DEFINE w == E!Walk(c, log)
<1>1. w = [k \in 0 .. Len(log) |-> IF k = 0 THEN E!Start ELSE E!Check(c, w[k - 1], log[k])]
  <2>1. PICK f : IsWalk(c, log, Len(log), f)
    <3>1. Len(log) \in 0 .. Len(log)
      OBVIOUS
    <3> QED BY <3>1, WalkExists
  <2>2. \E g : g = [k \in 0 .. Len(log) |-> IF k = 0 THEN E!Start ELSE E!Check(c, g[k - 1], log[k])]
    BY <2>1 DEF IsWalk
  <2> QED BY <2>2 DEF E!Walk
<1> HIDE DEF w
<1>2. w[0] = E!Start
  BY <1>1
<1>3. ASSUME NEW n \in 1 .. Len(log) PROVE w[n] = E!Check(c, w[n - 1], log[n])
  BY <1>1
<1> QED BY <1>2, <1>3 DEF w

RowN == [seq : Nat, event : Events, created : Nat, prev : E!Hashes \cup {None}, hash : E!Hashes \cup {None}]
Sealed(log, n) == {i \in 1 .. n : E!Hashed(log[i])}
Unsound(c, log, n) == {i \in 1 .. n : ~E!Sound(c, log, i)}

Located(c, log, n, k) ==
    \A i \in Unsound(c, log, n) :
        (\A j \in Unsound(c, log, n) : i <= j)
            => k.first = log[i].seq /\ k.verified = Cardinality(Sealed(log, i - 1))

Knows(c, log, n, k) ==
    /\ k \in [expected : E!Hashes, first : Nat \cup {None}, verified : Nat, unverifiable : Nat]
    /\ k.expected = E!Before(log, n + 1)
    /\ k.first = None <=> Unsound(c, log, n) = {}
    /\ k.first = None => k.verified = Cardinality(Sealed(log, n))
    /\ Located(c, log, n, k)
    /\ k.unverifiable + Cardinality(Sealed(log, n)) = n

LEMMA SealedGrow ==
    ASSUME NEW log, NEW n \in Nat \ {0}
    PROVE  /\ Cardinality(Sealed(log, n - 1)) \in Nat
           /\ E!Hashed(log[n]) => Cardinality(Sealed(log, n)) = Cardinality(Sealed(log, n - 1)) + 1
           /\ ~E!Hashed(log[n]) => Sealed(log, n) = Sealed(log, n - 1)
<1>1. IsFiniteSet(Sealed(log, n - 1))
  <2>1. IsFiniteSet(1 .. n - 1) /\ Sealed(log, n - 1) \subseteq 1 .. n - 1
    BY FS_Interval DEF Sealed
  <2> QED BY <2>1, FS_Subset
<1>2. Cardinality(Sealed(log, n - 1)) \in Nat
  BY <1>1, FS_CardinalityType
<1>3. ASSUME E!Hashed(log[n])
      PROVE  Cardinality(Sealed(log, n)) = Cardinality(Sealed(log, n - 1)) + 1
  <2>1. Sealed(log, n) = Sealed(log, n - 1) \cup {n} /\ n \notin Sealed(log, n - 1)
    BY <1>3 DEF Sealed
  <2> QED BY <1>1, <2>1, FS_AddElement
<1>4. ASSUME ~E!Hashed(log[n]) PROVE Sealed(log, n) = Sealed(log, n - 1)
  BY <1>4 DEF Sealed
<1> QED BY <1>2, <1>3, <1>4

LEMMA UnsoundGrow ==
    ASSUME NEW c, NEW log, NEW n \in Nat \ {0}
    PROVE  Unsound(c, log, n) =
               IF E!Sound(c, log, n) THEN Unsound(c, log, n - 1) ELSE Unsound(c, log, n - 1) \cup {n}
BY DEF Unsound

LEMMA CheckKnows ==
    ASSUME NEW c \in B, NEW log \in Seq(RowN), NEW n \in 1 .. Len(log), NEW k,
           None \notin Nat, None \notin E!Hashes, Knows(c, log, n - 1, k)
    PROVE  Knows(c, log, n, E!Check(c, k, log[n]))
<1> DEFINE r == E!Check(c, k, log[n])
<1>1. /\ n \in Nat \ {0} /\ log[n] \in RowN /\ k.expected = E!Before(log, n)
      /\ k \in [expected : E!Hashes, first : Nat \cup {None}, verified : Nat, unverifiable : Nat]
  BY DEF Knows
<1>2. \A i \in Unsound(c, log, n - 1) : i < n /\ i \in Nat /\ log[i].seq \in Nat
  <2>1. ASSUME NEW i \in Unsound(c, log, n - 1) PROVE i < n /\ i \in Nat /\ i \in 1 .. Len(log)
    BY DEF Unsound
  <2>2. \A i \in 1 .. Len(log) : log[i] \in RowN
    OBVIOUS
  <2> QED BY <2>1, <2>2 DEF RowN
<1> DEFINE Record == [expected : E!Hashes, first : Nat \cup {None}, verified : Nat, unverifiable : Nat]
<1>6. k.first \in Nat \cup {None} /\ k.verified \in Nat /\ k.unverifiable \in Nat /\ k.expected \in E!Hashes
  BY <1>1
<1>3. CASE ~E!Hashed(log[n])
  <2>2. /\ r \in Record
        /\ r.expected = E!Genesis /\ r.first = k.first /\ r.verified = k.verified
        /\ r.unverifiable = k.unverifiable + 1
    <3>1. E!Genesis \in E!Hashes
      BY DEF E!Genesis, E!Hashes
    <3>2. r = [expected |-> E!Genesis, first |-> k.first, verified |-> k.verified + 0,
               unverifiable |-> k.unverifiable + 1]
      BY <1>3 DEF E!Check
    <3> HIDE DEF r
    <3> QED BY <1>6, <3>1, <3>2
  <2>3. E!Before(log, n + 1) = E!Genesis /\ E!Sound(c, log, n)
    BY <1>1, <1>3 DEF E!Before, E!Sound
  <2>4. Unsound(c, log, n) = Unsound(c, log, n - 1) /\ Sealed(log, n) = Sealed(log, n - 1)
        /\ Cardinality(Sealed(log, n - 1)) \in Nat
    BY <1>1, <1>3, <2>3, UnsoundGrow, SealedGrow
  <2> HIDE DEF r
  <2>5. k.unverifiable \in Nat
    BY <1>1
  <2>6. r.unverifiable + Cardinality(Sealed(log, n)) = n
    BY <1>1, <2>2, <2>4, <2>5 DEF Knows
  <2>7. Located(c, log, n, r)
    BY <2>2, <2>4 DEF Knows, Located
  <2>8. r.first = None <=> Unsound(c, log, n) = {}
    BY <2>2, <2>4 DEF Knows
  <2>9. r.first = None => r.verified = Cardinality(Sealed(log, n))
    BY <2>2, <2>4 DEF Knows
  <2>10. Knows(c, log, n, r)
    BY <2>2, <2>3, <2>6, <2>7, <2>8, <2>9 DEF Knows
  <2> QED BY <2>10 DEF r
<1>4. CASE E!Hashed(log[n])
  <2> DEFINE first == IF ~E!Sound(c, log, n) /\ k.first = None THEN log[n].seq ELSE k.first
  <2>1. r = [expected |-> log[n].hash, first |-> first,
             verified |-> k.verified + IF first = None THEN 1 ELSE 0,
             unverifiable |-> k.unverifiable + 0]
    <3>1. ~E!Sound(c, log, n) <=> \/ log[n].prev # k.expected
                                \/ log[n].hash # E!Hash(c, log[n].event, k.expected)
      BY <1>1, <1>4 DEF E!Sound
    <3> QED BY <1>4, <3>1 DEF E!Check
  <2>2. first \in Nat \cup {None} /\ (first = None <=> E!Sound(c, log, n) /\ k.first = None)
    BY <1>1 DEF RowN
  <2> HIDE DEF first
  <2> HIDE DEF r
  <2>3. /\ r \in Record
        /\ r.expected = log[n].hash /\ r.first = first
        /\ r.verified = (IF first = None THEN k.verified + 1 ELSE k.verified)
        /\ r.unverifiable = k.unverifiable
    <3>1. log[n].hash \in E!Hashes
      BY <1>1, <1>4 DEF RowN, E!Hashed
    <3> QED BY <1>6, <2>1, <2>2, <3>1
  <2>4. E!Before(log, n + 1) = log[n].hash
    BY <1>1, <1>4 DEF E!Before
  <2>5. /\ Cardinality(Sealed(log, n)) = Cardinality(Sealed(log, n - 1)) + 1
        /\ Cardinality(Sealed(log, n - 1)) \in Nat
    BY <1>1, <1>4, SealedGrow
  <2> HIDE DEF r
  <2>6. r.first = None <=> Unsound(c, log, n) = {}
    <3>1. k.first = None <=> Unsound(c, log, n - 1) = {}
      BY DEF Knows
    <3>2. Unsound(c, log, n) = {} <=> E!Sound(c, log, n) /\ Unsound(c, log, n - 1) = {}
      <4>1. CASE E!Sound(c, log, n)
        BY <1>1, <4>1, UnsoundGrow
      <4>2. CASE ~E!Sound(c, log, n)
        <5>1. Unsound(c, log, n) = Unsound(c, log, n - 1) \cup {n}
          BY <1>1, <4>2, UnsoundGrow
        <5>2. n \in Unsound(c, log, n)
          BY <5>1
        <5> QED BY <4>2, <5>2
      <4> QED BY <4>1, <4>2
    <3> QED BY <3>1, <3>2, <2>2, <2>3
  <2>7. r.first = None => r.verified = Cardinality(Sealed(log, n))
    BY <2>2, <2>3, <2>5 DEF Knows
  <2>8. ASSUME NEW i \in Unsound(c, log, n), \A j \in Unsound(c, log, n) : i <= j
        PROVE  r.first = log[i].seq /\ r.verified = Cardinality(Sealed(log, i - 1))
    <3>1. first # None
      BY <2>6, <2>3
    <3>2. CASE k.first = None
      <4>1. Unsound(c, log, n - 1) = {} /\ ~E!Sound(c, log, n)
        BY <3>1, <3>2, <2>2 DEF Knows
      <4>2. i = n
        BY <4>1, <1>1, UnsoundGrow
      <4>3. first = log[n].seq
        BY <4>1, <3>2 DEF first
      <4> QED BY <4>2, <4>3, <3>1, <3>2, <2>3 DEF Knows
    <3>3. CASE k.first # None
      <4>1. Unsound(c, log, n - 1) # {} /\ first = k.first
        BY <3>3 DEF Knows, first
      <4>2. i \in Unsound(c, log, n - 1) /\ \A j \in Unsound(c, log, n - 1) : i <= j
        <5>1. PICK m \in Unsound(c, log, n - 1) : TRUE
          BY <4>1
        <5>2. Unsound(c, log, n - 1) \subseteq Unsound(c, log, n)
              /\ Unsound(c, log, n) \subseteq Unsound(c, log, n - 1) \cup {n}
          BY <1>1, UnsoundGrow
        <5>3. i <= m /\ m < n
          BY <5>1, <5>2, <2>8, <1>2
        <5>4. i # n
          BY <5>3, <1>1, <1>2
        <5> QED BY <5>2, <5>4, <2>8
      <4> QED BY <4>1, <4>2, <3>1, <2>3 DEF Knows, Located
    <3> QED BY <3>2, <3>3
  <2>9. r.unverifiable + Cardinality(Sealed(log, n)) = n
    <3>1. k.unverifiable + Cardinality(Sealed(log, n - 1)) = n - 1 /\ k.unverifiable \in Nat
      BY <1>1 DEF Knows
    <3> QED BY <3>1, <2>3, <2>5
  <2>10. Located(c, log, n, r)
    BY <2>8 DEF Located
  <2>11. Knows(c, log, n, r)
    BY <2>3, <2>4, <2>6, <2>7, <2>10, <2>9 DEF Knows
  <2> QED BY <2>11 DEF r
<1> QED BY <1>3, <1>4

LEMMA WalkKnows ==
    ASSUME NEW c \in B, NEW log \in Seq(RowN), None \notin Nat, None \notin E!Hashes
    PROVE  Knows(c, log, Len(log), E!Walk(c, log)[Len(log)])
<1> DEFINE w == E!Walk(c, log)
           Failing == {n \in Nat : n <= Len(log) /\ ~Knows(c, log, n, w[n])}
<1>1. /\ Len(log) \in Nat /\ w[0] = E!Start
      /\ \A n \in 1 .. Len(log) : w[n] = E!Check(c, w[n - 1], log[n])
  BY WalkDef
<1> HIDE DEF w
<1>2. SUFFICES ASSUME Failing # {} PROVE FALSE
  BY <1>1 DEF w
<1>3. PICK n \in Failing : \A m \in Failing : n <= m
  <2> HIDE DEF Failing
  <2>1. Failing \subseteq Nat
    BY DEF Failing
  <2> QED BY <1>2, <2>1, LeastNumber
<1>4. n # 0
  <2>1. Sealed(log, 0) = {} /\ Unsound(c, log, 0) = {} /\ E!Before(log, 1) = E!Genesis
    BY DEF Sealed, Unsound, E!Before
  <2>2. E!Start \in [expected : E!Hashes, first : Nat \cup {None}, verified : Nat, unverifiable : Nat]
    <3>1. E!Genesis \in E!Hashes
      BY DEF E!Genesis, E!Hashes
    <3> QED BY <3>1 DEF E!Start
  <2>3. Knows(c, log, 0, E!Start)
    <3>1. /\ E!Start.expected = E!Genesis /\ E!Start.first = None /\ E!Start.verified = 0
          /\ E!Start.unverifiable = 0
      BY DEF E!Start
    <3>2. Cardinality(Sealed(log, 0)) = 0
      BY <2>1, FS_EmptySet
    <3>3. Located(c, log, 0, E!Start)
      BY <2>1 DEF Located
    <3>4. E!Start.expected = E!Before(log, 0 + 1)
      BY <2>1, <3>1
    <3> HIDE DEF E!Start
    <3> QED BY <2>1, <2>2, <3>1, <3>2, <3>3, <3>4 DEF Knows
  <2> QED BY <2>3, <1>1
<1>5. Knows(c, log, n - 1, w[n - 1]) /\ n \in 1 .. Len(log)
  BY <1>1, <1>3, <1>4
<1>6. Knows(c, log, n, w[n])
  BY <1>1, <1>5, CheckKnows
<1> QED BY <1>6

(* What verify_case_events answers about a log. *)
LEMMA VerifyKnows ==
    ASSUME NEW c \in B, NEW log \in Seq(RowN), E!NoneAssumption
    PROVE  LET v == E!Walk(c, log)[Len(log)] IN
           /\ v.first = None <=> \A i \in DOMAIN log : E!Sound(c, log, i)
           /\ v.first = None => v.verified = Cardinality({i \in DOMAIN log : E!Hashed(log[i])})
           /\ \A i \in DOMAIN log :
                  ~E!Sound(c, log, i) /\ (\A j \in 1 .. i - 1 : E!Sound(c, log, j)) =>
                     /\ v.first = log[i].seq
                     /\ v.verified = Cardinality({j \in 1 .. i - 1 : E!Hashed(log[j])})
           /\ v.verified \in Nat /\ v.unverifiable \in Nat
           /\ v.unverifiable + Cardinality({i \in DOMAIN log : E!Hashed(log[i])}) = Len(log)
<1> DEFINE v == E!Walk(c, log)[Len(log)]
<1>1. Knows(c, log, Len(log), v) /\ DOMAIN log = 1 .. Len(log) /\ Len(log) \in Nat
  BY WalkKnows DEF E!NoneAssumption
<1> HIDE DEF v
<1>2. v.first = None <=> \A i \in DOMAIN log : E!Sound(c, log, i)
  BY <1>1 DEF Knows, Unsound
<1>3. Sealed(log, Len(log)) = {i \in DOMAIN log : E!Hashed(log[i])}
  BY <1>1 DEF Sealed
<1>4. /\ v.first = None => v.verified = Cardinality(Sealed(log, Len(log)))
      /\ v.verified \in Nat /\ v.unverifiable \in Nat
      /\ v.unverifiable + Cardinality(Sealed(log, Len(log))) = Len(log)
  BY <1>1 DEF Knows
<1>5. ASSUME NEW i \in DOMAIN log, ~E!Sound(c, log, i), \A j \in 1 .. i - 1 : E!Sound(c, log, j)
      PROVE  v.first = log[i].seq /\ v.verified = Cardinality(Sealed(log, i - 1))
  <2>1. i \in Unsound(c, log, Len(log)) /\ \A j \in Unsound(c, log, Len(log)) : i <= j
    BY <1>1, <1>5 DEF Unsound
  <2> QED BY <1>1, <2>1 DEF Knows, Located
<1>6. \A i \in DOMAIN log : Sealed(log, i - 1) = {j \in 1 .. i - 1 : E!Hashed(log[j])}
  BY DEF Sealed
<1> QED BY <1>2, <1>3, <1>4, <1>5, <1>6 DEF v

Ordered(log) == \A i, j \in DOMAIN log : i < j => log[i].seq < log[j].seq

(* The case a hash was made for. *)
OfCase(hash) == hash[Len(hash)].case

From(cases, row) == E!Hashed(row) => row.hash = E!Genesis \/ OfCase(row.hash) \in cases

(* What a thread has read while it holds the lock, what is stored of the     *)
(* cases nobody has touched, and for which cases the stored hashes were made.*)
ChainInv ==
    /\ E!TypeOK
    /\ \A c \in B : \A i \in DOMAIN rows[c] : From(touched \cup {c}, rows[c][i])
    /\ \A t \in A :
           append[t] # None =>
               /\ lock = t
               /\ append[t].case \notin touched =>
                      append[t].prev = E!Before(rows[append[t].case], Len(rows[append[t].case]) + 1)
    /\ \A c \in B \ touched : \A i \in DOMAIN rows[c] : E!Sound(c, rows[c], i)

LEMMA RowsAreN == E!TypeOK => \A c \in B : rows[c] \in Seq(RowN) /\ rows[c] \in Seq(E!Row)
<1> SUFFICES ASSUME E!TypeOK, NEW c \in B PROVE rows[c] \in Seq(RowN) /\ rows[c] \in Seq(E!Row)
  OBVIOUS
<1>1. rows[c] \in Seq(E!Row)
  BY DEF E!TypeOK
<1>2. E!Row \subseteq RowN
  BY DEF E!TypeOK, E!Row, RowN
<1> QED BY <1>1, <1>2, SeqMonotonic

LEMMA AppendedRow ==
    ASSUME NEW Elems, NEW log \in Seq(Elems), NEW row \in Elems
    PROVE  LET new == Append(log, row) IN
           /\ new \in Seq(Elems) /\ Len(new) = Len(log) + 1 /\ Len(log) \in Nat
           /\ DOMAIN new = 1 .. Len(log) + 1 /\ DOMAIN log = 1 .. Len(log)
           /\ \A i \in 1 .. Len(log) : new[i] = log[i]
           /\ new[Len(log) + 1] = row
OBVIOUS

LEMMA AppendSound ==
    ASSUME NEW c, NEW Elems, NEW log \in Seq(Elems), NEW row \in Elems,
           \A i \in DOMAIN log : E!Sound(c, log, i),
           E!Hashed(row) => /\ row.prev = E!Before(log, Len(log) + 1)
                            /\ row.hash = E!Hash(c, row.event, E!Before(log, Len(log) + 1))
    PROVE  \A i \in DOMAIN Append(log, row) : E!Sound(c, Append(log, row), i)
<1> DEFINE new == Append(log, row)
<1>1. /\ Len(log) \in Nat /\ DOMAIN new = 1 .. Len(log) + 1 /\ DOMAIN log = 1 .. Len(log)
      /\ \A i \in 1 .. Len(log) : new[i] = log[i]
      /\ new[Len(log) + 1] = row
  BY AppendedRow
<1> HIDE DEF new
<1>2. \A i \in 1 .. Len(log) + 1 : E!Before(new, i) = E!Before(log, i)
  BY <1>1 DEF E!Before
<1>3. ASSUME NEW i \in DOMAIN new PROVE E!Sound(c, new, i)
  <2>1. CASE i = Len(log) + 1
    BY <1>1, <1>2, <2>1 DEF E!Sound
  <2>2. CASE i \in 1 .. Len(log)
    BY <1>1, <1>2, <2>2 DEF E!Sound
  <2> QED BY <1>1, <2>1, <2>2
<1> QED BY <1>3 DEF new

LEMMA RemovedRow ==
    ASSUME NEW Elems, NEW log \in Seq(Elems), NEW k \in DOMAIN log
    PROVE  LET new == E!RemoveAt(log, k) IN
           /\ new \in Seq(Elems) /\ Len(new) = Len(log) - 1 /\ Len(log) \in Nat
           /\ DOMAIN new = 1 .. Len(log) - 1 /\ DOMAIN log = 1 .. Len(log)
           /\ \A i \in 1 .. Len(log) - 1 : new[i] = IF i < k THEN log[i] ELSE log[i + 1]
<1> DEFINE first == SubSeq(log, 1, k - 1)
           last == SubSeq(log, k + 1, Len(log))
<1>1. Len(log) \in Nat /\ DOMAIN log = 1 .. Len(log) /\ k \in 1 .. Len(log)
  OBVIOUS
<1>2. first \in Seq(Elems) /\ Len(first) = k - 1 /\ \A i \in 1 .. k - 1 : first[i] = log[i]
  BY <1>1
<1>3. last \in Seq(Elems) /\ Len(last) = Len(log) - k /\ \A i \in 1 .. Len(log) - k : last[i] = log[k + i]
  BY <1>1
<1>4. E!RemoveAt(log, k) = first \o last
  BY DEF E!RemoveAt
<1> HIDE DEF first, last
<1>5. /\ first \o last \in Seq(Elems) /\ Len(first \o last) = Len(log) - 1
      /\ DOMAIN (first \o last) = 1 .. Len(log) - 1
  <2>1. first \o last \in Seq(Elems) /\ Len(first \o last) = Len(first) + Len(last)
    BY <1>2, <1>3, ConcatProperties
  <2>2. Len(first) + Len(last) = Len(log) - 1
    BY <1>1, <1>2, <1>3
  <2> QED BY <2>1, <2>2
<1>6. ASSUME NEW i \in 1 .. Len(log) - 1
      PROVE  (first \o last)[i] = IF i < k THEN log[i] ELSE log[i + 1]
  <2>1. CASE i < k
    BY <1>1, <1>2, <1>3, <2>1
  <2>2. CASE ~(i < k)
    <3>1. (first \o last)[i] = last[i - (k - 1)] /\ i - (k - 1) \in 1 .. Len(log) - k
      BY <1>1, <1>2, <1>3, <2>2
    <3>2. last[i - (k - 1)] = log[k + (i - (k - 1))]
      BY <1>3, <3>1
    <3>3. k + (i - (k - 1)) = i + 1
      BY <1>1
    <3> QED BY <3>1, <3>2, <3>3, <2>2
  <2> QED BY <2>1, <2>2
<1> QED BY <1>1, <1>4, <1>5, <1>6

NewRow == [seq : {seq + 1}, event : Events, created : {seq + 1},
           prev : E!Hashes \cup {None}, hash : E!Hashes \cup {None}]

(* A step that adds one row to a log, or leaves them all alone.              *)
LEMMA InsertedType ==
    ASSUME E!TypeOK, NEW c \in B, NEW row, seq' = seq + 1,
           row \in NewRow,
           rows' = [rows EXCEPT ![c] = Append(@, row)]
    PROVE  /\ seq' \in Nat
           /\ rows' \in [B -> Seq(E!Row')]
           /\ \A d \in B : \A i, j \in DOMAIN rows'[d] : i < j => rows'[d][i].seq < rows'[d][j].seq
<1>1. seq' \in Nat /\ E!Row \subseteq E!Row' /\ row \in E!Row' /\ row.seq = seq + 1
  <2>1. seq \in Nat /\ seq' = seq + 1
    BY DEF E!TypeOK
  <2>2. row \in E!Row' /\ row.seq = seq + 1
    BY <2>1 DEF E!Row, NewRow
  <2>3. E!Row \subseteq E!Row'
    BY <2>1 DEF E!Row
  <2> QED BY <2>1, <2>2, <2>3
<1>2. \A d \in B : rows[d] \in Seq(E!Row) /\ rows[d] \in Seq(E!Row')
  BY <1>1, SeqMonotonic DEF E!TypeOK
<1>3. rows'[c] = Append(rows[c], row) /\ \A d \in B \ {c} : rows'[d] = rows[d]
  BY DEF E!TypeOK
<1>4. rows' \in [B -> Seq(E!Row')]
  BY <1>1, <1>2, <1>3, AppendedRow DEF E!TypeOK
<1>5. ASSUME NEW i \in DOMAIN rows'[c], NEW j \in DOMAIN rows'[c], i < j
      PROVE  rows'[c][i].seq < rows'[c][j].seq
  <2> DEFINE log == rows[c] new == rows'[c]
  <2>1. /\ Len(log) \in Nat /\ DOMAIN new = 1 .. Len(log) + 1 /\ DOMAIN log = 1 .. Len(log)
        /\ \A m \in 1 .. Len(log) : new[m] = log[m] /\ log[m].seq \in 1 .. seq
        /\ new[Len(log) + 1] = row
    <3>1. \A m \in 1 .. Len(log) : log[m] \in E!Row
      BY <1>2
    <3> QED BY <1>1, <1>2, <1>3, <3>1, AppendedRow DEF E!Row
  <2>2. row.seq = seq + 1 /\ seq \in Nat
    BY <1>1 DEF E!TypeOK
  <2>3. \A m, n \in DOMAIN log : m < n => log[m].seq < log[n].seq
    BY DEF E!TypeOK
  <2> HIDE DEF log, new
  <2>4. new[i].seq < new[j].seq
    <3>1. i \in 1 .. Len(log)
      BY <1>5, <2>1 DEF new
    <3>2. CASE j = Len(log) + 1
      BY <2>1, <2>2, <3>1, <3>2
    <3>3. CASE j \in 1 .. Len(log)
      BY <1>5, <2>1, <2>3, <3>1, <3>3
    <3> QED BY <2>1, <3>2, <3>3 DEF new
  <2> QED BY <2>4 DEF new
<1>6. \A d \in B \ {c} : \A i, j \in DOMAIN rows'[d] : i < j => rows'[d][i].seq < rows'[d][j].seq
  BY <1>3 DEF E!TypeOK
<1> QED BY <1>1, <1>4, <1>5, <1>6

LEMMA BeforeType ==
    ASSUME NEW log \in Seq(RowN), NEW i \in 1 .. Len(log) + 1
    PROVE  E!Before(log, i) \in E!Hashes
<1>1. E!Genesis \in E!Hashes
  BY DEF E!Genesis, E!Hashes
<1>2. i > 1 => log[i - 1] \in RowN
  OBVIOUS
<1> QED BY <1>1, <1>2 DEF E!Before, RowN, E!Hashed

LEMMA HashType ==
    ASSUME NEW c \in B, NEW event \in Events, NEW prev \in E!Hashes
    PROVE  E!Hash(c, event, prev) \in E!Hashes /\ Len(E!Hash(c, event, prev)) = Len(prev) + 1 /\ Len(prev) \in Nat
BY DEF E!Hash, E!Hashes

LEMMA AddedFrom ==
    ASSUME NEW Elems, rows \in [B -> Seq(Elems)], NEW c \in B, NEW row, From({c}, row),
           rows' = [rows EXCEPT ![c] = Append(@, row)], touched' = touched,
           \A d \in B : \A i \in DOMAIN rows[d] : From(touched \cup {d}, rows[d][i])
    PROVE  \A d \in B : \A i \in DOMAIN rows'[d] : From(touched' \cup {d}, rows'[d][i])
<1>1. ASSUME NEW i \in DOMAIN rows'[c] PROVE From(touched \cup {c}, rows'[c][i])
  <2> DEFINE log == rows[c]
  <2>1. log \in Seq(Elems) /\ rows'[c] = Append(log, row)
    OBVIOUS
  <2>2. rows'[c][i] = row \/ (i \in DOMAIN log /\ rows'[c][i] = log[i])
    <3> HIDE DEF log
    <3>1. log \in Seq(Elems \cup {row})
      BY <2>1, SeqMonotonic
    <3>2. /\ Len(log) \in Nat /\ DOMAIN log = 1 .. Len(log)
          /\ DOMAIN Append(log, row) = 1 .. Len(log) + 1
          /\ \A m \in 1 .. Len(log) : Append(log, row)[m] = log[m]
          /\ Append(log, row)[Len(log) + 1] = row
      BY <3>1, AppendedRow
    <3>3. i \in 1 .. Len(log) + 1
      BY <1>1, <2>1, <3>2
    <3> QED BY <2>1, <3>2, <3>3
  <2>3. From(touched \cup {c}, row)
    BY DEF From
  <2> QED BY <2>2, <2>3
<1>2. \A d \in B \ {c} : rows'[d] = rows[d]
  OBVIOUS
<1> QED BY <1>1, <1>2

LEMMA ReadLastStep ==
    ASSUME ChainInv, E!NoneAssumption, NEW t \in A, NEW c \in B, NEW event \in Events,
           E!ReadLast(t, c, event)
    PROVE  ChainInv'
<1>1. /\ append[t] = None /\ lock = None /\ lock' = t
      /\ append' = [append EXCEPT ![t] = [case |-> c, event |-> event, prev |-> E!Before(rows[c], Len(rows[c]) + 1)]]
      /\ UNCHANGED <<rows, seq, legacy, edits, touched>>
  BY DEF E!ReadLast, E!Lock
<1>2. E!Before(rows[c], Len(rows[c]) + 1) \in E!Hashes
  <2>1. rows[c] \in Seq(RowN)
    BY RowsAreN DEF ChainInv
  <2>2. Len(rows[c]) + 1 \in 1 .. Len(rows[c]) + 1
    BY <2>1
  <2> QED BY <2>1, <2>2, BeforeType
<1>3. append' \in [A -> E!Appending \cup {None}]
  BY <1>1, <1>2 DEF ChainInv, E!TypeOK, E!Appending
<1>4. E!TypeOK'
  <2>1. E!Row' = E!Row
    BY <1>1 DEF E!Row
  <2> QED BY <1>1, <1>3, <2>1 DEF ChainInv, E!TypeOK
<1>5. \A u \in A : append'[u] # None =>
          u = t /\ append'[u].case = c /\ append'[u].prev = E!Before(rows[c], Len(rows[c]) + 1)
  BY <1>1 DEF ChainInv, E!TypeOK, E!NoneAssumption
<1> QED BY <1>1, <1>4, <1>5 DEF ChainInv

LEMMA InsertStep ==
    ASSUME ChainInv, E!NoneAssumption, NEW t \in A, E!Insert(t)
    PROVE  ChainInv'
<1> DEFINE a == append[t] c == append[t].case
           row == [seq |-> seq + 1, event |-> a.event, created |-> seq + 1,
                  prev |-> a.prev, hash |-> E!Hash(a.case, a.event, a.prev)]
<1>1. /\ a # None /\ seq' = seq + 1 /\ lock' = None
      /\ rows' = [rows EXCEPT ![c] = Append(@, row)]
      /\ append' = [append EXCEPT ![t] = None]
      /\ UNCHANGED <<legacy, edits, touched>>
  BY DEF E!Insert
<1>2. a \in E!Appending /\ lock = t /\ c \in B
  BY <1>1 DEF ChainInv, E!TypeOK, E!Appending
<1>3. row \in NewRow
  BY <1>2, HashType DEF E!Appending, NewRow
<1>4. row.prev = a.prev /\ row.hash = E!Hash(c, a.event, a.prev) /\ row.event = a.event
  OBVIOUS
<1> HIDE DEF row
<1>5. \A u \in A : append'[u] = None
  BY <1>1, <1>2 DEF ChainInv, E!TypeOK
<1>6. append' \in [A -> E!Appending' \cup {None}]
  BY <1>1, <1>5 DEF ChainInv, E!TypeOK, E!Appending
<1>7. E!TypeOK'
  BY <1>1, <1>2, <1>3, <1>6, InsertedType DEF ChainInv, E!TypeOK
<1>8. ASSUME NEW d \in B \ touched PROVE \A i \in DOMAIN rows'[d] : E!Sound(d, rows'[d], i)
  <2>1. CASE d = c
    <3>1. rows[c] \in Seq(RowN) /\ row \in RowN
      <4>1. rows[c] \in Seq(RowN)
        BY <1>2, RowsAreN DEF ChainInv
      <4>2. seq + 1 \in Nat
        BY DEF ChainInv, E!TypeOK
      <4> QED BY <1>3, <4>1, <4>2 DEF RowN, NewRow
    <3>2. a.prev = E!Before(rows[c], Len(rows[c]) + 1)
      BY <1>1, <1>8, <2>1 DEF ChainInv
    <3>3. rows'[c] = Append(rows[c], row)
      BY <1>1, <1>2 DEF ChainInv, E!TypeOK
    <3>4. \A i \in DOMAIN rows[c] : E!Sound(c, rows[c], i)
      BY <1>8, <2>1 DEF ChainInv
    <3> HIDE DEF a, c
    <3>5. \A i \in DOMAIN Append(rows[c], row) : E!Sound(c, Append(rows[c], row), i)
      BY <3>1, <3>2, <3>4, <1>4, AppendSound
    <3> QED BY <2>1, <3>3, <3>5
  <2>2. CASE d # c
    <3>1. rows'[d] = rows[d]
      BY <1>1, <1>2, <2>2 DEF ChainInv, E!TypeOK
    <3> QED BY <3>1, <1>8 DEF ChainInv
  <2> QED BY <2>1, <2>2
<1>9. From({c}, row)
  <2>1. PICK p : p \in E!Hashes /\ p = a.prev
    BY <1>2 DEF E!Appending
  <2>2. OfCase(Append(p, [case |-> c, event |-> a.event])) = c
    BY <1>2, <2>1 DEF E!Hashes, OfCase, E!Appending
  <2> QED BY <1>4, <2>1, <2>2 DEF E!Hash, From
<1>10. \A d \in B : \A i \in DOMAIN rows'[d] : From(touched' \cup {d}, rows'[d][i])
  <2> HIDE DEF a, c
  <2> QED BY <1>1, <1>2, <1>9, AddedFrom DEF ChainInv, E!TypeOK
<1> QED BY <1>1, <1>5, <1>7, <1>8, <1>10 DEF ChainInv

LEMMA InsertLegacyStep ==
    ASSUME ChainInv, E!NoneAssumption, MaxLegacy \in Nat, NEW c \in B, NEW event \in Events, E!InsertLegacy(c, event)
    PROVE  ChainInv'
<1> DEFINE row == [seq |-> seq + 1, event |-> event, created |-> seq + 1, prev |-> None, hash |-> None]
<1>1. /\ lock = None /\ legacy < MaxLegacy /\ seq' = seq + 1 /\ legacy' = legacy + 1
      /\ rows' = [rows EXCEPT ![c] = Append(@, row)]
      /\ UNCHANGED <<lock, append, edits, touched>>
  BY DEF E!InsertLegacy
<1>2. row \in NewRow
  BY DEF NewRow
<1>3. ~E!Hashed(row)
  BY DEF E!Hashed
<1> HIDE DEF row
<1>4. \A u \in A : append'[u] = None
  BY <1>1 DEF ChainInv, E!TypeOK, E!NoneAssumption
<1>5. E!TypeOK'
  <2>1. legacy' \in 0 .. MaxLegacy
    BY <1>1 DEF ChainInv, E!TypeOK
  <2>2. E!Appending' = E!Appending
    BY DEF E!Appending
  <2> QED BY <1>1, <1>2, <2>1, <2>2, InsertedType DEF ChainInv, E!TypeOK
<1>6. ASSUME NEW d \in B \ touched PROVE \A i \in DOMAIN rows'[d] : E!Sound(d, rows'[d], i)
  <2>1. CASE d = c
    <3>1. rows[c] \in Seq(RowN) /\ row \in RowN
      <4>1. rows[c] \in Seq(RowN)
        BY <1>2, RowsAreN DEF ChainInv
      <4>2. seq + 1 \in Nat
        BY DEF ChainInv, E!TypeOK
      <4> QED BY <1>2, <4>1, <4>2 DEF RowN, NewRow
    <3>2. rows'[c] = Append(rows[c], row)
      BY <1>1 DEF ChainInv, E!TypeOK
    <3>3. \A i \in DOMAIN rows[c] : E!Sound(c, rows[c], i)
      BY <1>6, <2>1 DEF ChainInv
    <3>4. \A i \in DOMAIN Append(rows[c], row) : E!Sound(c, Append(rows[c], row), i)
      BY <3>1, <3>3, <1>3, AppendSound
    <3> QED BY <2>1, <3>2, <3>4
  <2>2. CASE d # c
    <3>1. rows'[d] = rows[d]
      BY <1>1, <2>2 DEF ChainInv, E!TypeOK
    <3> QED BY <3>1, <1>6 DEF ChainInv
  <2> QED BY <2>1, <2>2
<1>7. \A d \in B : \A i \in DOMAIN rows'[d] : From(touched' \cup {d}, rows'[d][i])
  <2>1. From({c}, row)
    BY <1>3 DEF From
  <2> QED BY <1>1, <2>1, AddedFrom DEF ChainInv, E!TypeOK
<1> QED BY <1>1, <1>4, <1>5, <1>6, <1>7 DEF ChainInv

(* A log with another row at one place, with one row less, or with one more. *)
LEMMA ReplacedRow ==
    ASSUME NEW Elems, NEW log \in Seq(Elems), NEW k \in DOMAIN log, NEW row \in Elems
    PROVE  LET new == [log EXCEPT ![k] = row] IN
           /\ new \in Seq(Elems) /\ Len(new) = Len(log) /\ DOMAIN new = DOMAIN log
           /\ new[k] = row
           /\ \A i \in DOMAIN log \ {k} : new[i] = log[i]
OBVIOUS

LEMMA InsertedRow ==
    ASSUME NEW Elems, NEW log \in Seq(Elems), NEW k \in 1 .. Len(log) + 1, NEW row \in Elems
    PROVE  LET new == E!InsertAt(log, k, row) IN
           /\ new \in Seq(Elems) /\ Len(new) = Len(log) + 1 /\ Len(log) \in Nat
           /\ DOMAIN new = 1 .. Len(log) + 1 /\ DOMAIN log = 1 .. Len(log)
           /\ \A i \in 1 .. Len(log) + 1 :
                  new[i] = IF i < k THEN log[i] ELSE IF i = k THEN row ELSE log[i - 1]
<1> DEFINE first == SubSeq(log, 1, k - 1)
           last == SubSeq(log, k, Len(log))
           begun == first \o <<row>>
<1>1. Len(log) \in Nat /\ DOMAIN log = 1 .. Len(log) /\ k \in Nat
  OBVIOUS
<1>2. first \in Seq(Elems) /\ Len(first) = k - 1 /\ \A i \in 1 .. k - 1 : first[i] = log[i]
  BY <1>1
<1>3. /\ last \in Seq(Elems) /\ Len(last) = Len(log) + 1 - k
      /\ \A i \in 1 .. Len(log) + 1 - k : last[i] = log[k + i - 1]
  BY <1>1
<1>4. E!InsertAt(log, k, row) = begun \o last
  BY DEF E!InsertAt
<1> HIDE DEF first, last
<1>5. /\ begun \in Seq(Elems) /\ Len(begun) = k /\ begun[k] = row
      /\ \A i \in 1 .. k - 1 : begun[i] = log[i]
  BY <1>1, <1>2
<1> HIDE DEF begun
<1>6. /\ begun \o last \in Seq(Elems) /\ Len(begun \o last) = Len(log) + 1
      /\ DOMAIN (begun \o last) = 1 .. Len(log) + 1
  <2>1. begun \o last \in Seq(Elems) /\ Len(begun \o last) = Len(begun) + Len(last)
    BY <1>5, <1>3, ConcatProperties
  <2>2. Len(begun) + Len(last) = Len(log) + 1
    BY <1>1, <1>5, <1>3
  <2> QED BY <2>1, <2>2
<1>7. ASSUME NEW i \in 1 .. Len(log) + 1
      PROVE  (begun \o last)[i] = IF i < k THEN log[i] ELSE IF i = k THEN row ELSE log[i - 1]
  <2>1. CASE i <= k
    BY <1>1, <1>3, <1>5, <2>1
  <2>2. CASE i > k
    <3>1. (begun \o last)[i] = last[i - k] /\ i - k \in 1 .. Len(log) + 1 - k
      BY <1>1, <1>3, <1>5, <2>2
    <3>2. last[i - k] = log[k + (i - k) - 1]
      BY <1>3, <3>1
    <3>3. k + (i - k) - 1 = i - 1
      BY <1>1
    <3> QED BY <3>1, <3>2, <3>3, <2>2, <1>1
  <2>3. i <= k \/ i > k
    BY <1>1
  <2> QED BY Zenon, <2>1, <2>2, <2>3
<1> QED BY <1>1, <1>4, <1>6, <1>7

(* What an edit may put in the place of a row.                               *)
OfLog(log, row, k) ==
    /\ row.seq = log[k].seq
    /\ E!Hashed(row) => row.hash = E!Genesis \/ \E j \in DOMAIN log : row.hash = log[j].hash

LEMMA AlteredIs ==
    ASSUME NEW log \in Seq(E!Row), NEW k \in DOMAIN log, NEW new \in E!Altered(log, k)
    PROVE  \E row \in E!Row : new = [log EXCEPT ![k] = row] /\ OfLog(log, row, k)
<1>1. \A j \in DOMAIN log : log[j] \in E!Row
  OBVIOUS
<1>2. E!Stored(log) \subseteq E!Hashes \cup {None}
  <2>1. E!Genesis \in E!Hashes
    BY DEF E!Genesis, E!Hashes
  <2> QED BY <1>1, <2>1 DEF E!Stored, E!Row
<1>3. CASE \E event \in Events : new = [log EXCEPT ![k].event = event]
  <2>1. PICK event \in Events : new = [log EXCEPT ![k].event = event]
    BY <1>3
  <2> DEFINE row == [log[k] EXCEPT !.event = event]
  <2>2. row \in E!Row /\ row.seq = log[k].seq /\ row.hash = log[k].hash
    BY <1>1 DEF E!Row
  <2>3. new = [log EXCEPT ![k] = row]
    BY <2>1
  <2> HIDE DEF row
  <2> QED BY <2>2, <2>3 DEF OfLog
<1>4. CASE \E time \in 1 .. seq : new = [log EXCEPT ![k].created = time]
  <2>1. PICK time \in 1 .. seq : new = [log EXCEPT ![k].created = time]
    BY <1>4
  <2> DEFINE row == [log[k] EXCEPT !.created = time]
  <2>2. row \in E!Row /\ row.seq = log[k].seq /\ row.hash = log[k].hash
    BY <1>1 DEF E!Row
  <2>3. new = [log EXCEPT ![k] = row]
    BY <2>1
  <2> HIDE DEF row
  <2> QED BY <2>2, <2>3 DEF OfLog
<1>5. CASE \E hash \in E!Stored(log) : new = [log EXCEPT ![k].prev = hash]
  <2>1. PICK hash \in E!Stored(log) : new = [log EXCEPT ![k].prev = hash]
    BY <1>5
  <2> DEFINE row == [log[k] EXCEPT !.prev = hash]
  <2>2. row \in E!Row /\ row.seq = log[k].seq /\ row.hash = log[k].hash
    BY <1>1, <1>2 DEF E!Row
  <2>3. new = [log EXCEPT ![k] = row]
    BY <2>1
  <2> HIDE DEF row
  <2> QED BY <2>2, <2>3 DEF OfLog
<1>6. CASE \E hash \in E!Stored(log) : new = [log EXCEPT ![k].hash = hash]
  <2>1. PICK hash \in E!Stored(log) : new = [log EXCEPT ![k].hash = hash]
    BY <1>6
  <2> DEFINE row == [log[k] EXCEPT !.hash = hash]
  <2>2. row \in E!Row /\ row.seq = log[k].seq /\ row.hash = hash
    BY <1>1, <1>2 DEF E!Row
  <2>3. new = [log EXCEPT ![k] = row]
    BY <2>1
  <2>4. hash = E!Genesis \/ hash = None \/ \E j \in DOMAIN log : hash = log[j].hash
    BY DEF E!Stored
  <2> HIDE DEF row
  <2> QED BY <2>2, <2>3, <2>4 DEF OfLog, E!Hashed
<1> QED BY <1>3, <1>4, <1>5, <1>6 DEF E!Altered

(* What is true of a log is true of it edited.                               *)
GoodLog(cases, log) ==
    /\ log \in Seq(E!Row)
    /\ Ordered(log)
    /\ \A i \in DOMAIN log : From(cases, log[i])

LEMMA AlteredLog ==
    ASSUME NEW cases, NEW log, GoodLog(cases, log), NEW k \in DOMAIN log, NEW new \in E!Altered(log, k)
    PROVE  GoodLog(cases, new) /\ Len(new) = Len(log)
<1>1. PICK row \in E!Row : new = [log EXCEPT ![k] = row] /\ OfLog(log, row, k)
  BY AlteredIs DEF GoodLog
<1>2. /\ new \in Seq(E!Row) /\ Len(new) = Len(log) /\ DOMAIN new = DOMAIN log /\ new[k] = row
      /\ \A i \in DOMAIN log \ {k} : new[i] = log[i]
  BY <1>1, ReplacedRow DEF GoodLog
<1>3. \A i \in DOMAIN log : new[i].seq = log[i].seq
  BY <1>1, <1>2 DEF OfLog
<1>4. From(cases, row)
  BY <1>1 DEF OfLog, GoodLog, From, E!Hashed
<1> QED BY <1>2, <1>3, <1>4 DEF GoodLog, Ordered

LEMMA ExchangedIs ==
    ASSUME NEW Elems, NEW log \in Seq(Elems), NEW k \in DOMAIN log, NEW j \in DOMAIN log, k < j,
           [log[j] EXCEPT !.seq = log[k].seq] \in Elems, [log[k] EXCEPT !.seq = log[j].seq] \in Elems
    PROVE  LET new == E!Exchanged(log, k, j) IN
           /\ new \in Seq(Elems) /\ Len(new) = Len(log) /\ DOMAIN new = DOMAIN log
           /\ new[k] = [log[j] EXCEPT !.seq = log[k].seq]
           /\ new[j] = [log[k] EXCEPT !.seq = log[j].seq]
           /\ \A i \in DOMAIN log \ {k, j} : new[i] = log[i]
<1> DEFINE one == [log[j] EXCEPT !.seq = log[k].seq]
           two == [log[k] EXCEPT !.seq = log[j].seq]
<1>1. E!Exchanged(log, k, j) = [[log EXCEPT ![k] = one] EXCEPT ![j] = two]
  BY DEF E!Exchanged
<1>2. one \in Elems /\ two \in Elems /\ k # j
  OBVIOUS
<1> DEFINE half == [log EXCEPT ![k] = one]
<1> HIDE DEF one, two
<1>3. /\ half \in Seq(Elems) /\ Len(half) = Len(log) /\ DOMAIN half = DOMAIN log /\ half[k] = one
      /\ \A i \in DOMAIN log \ {k} : half[i] = log[i]
  BY <1>2, ReplacedRow
<1> DEFINE new == [half EXCEPT ![j] = two]
<1> HIDE DEF half
<1>4. /\ new \in Seq(Elems) /\ Len(new) = Len(half) /\ DOMAIN new = DOMAIN half /\ new[j] = two
      /\ \A i \in DOMAIN half \ {j} : new[i] = half[i]
  BY <1>2, <1>3, ReplacedRow
<1>5. E!Exchanged(log, k, j) = new
  BY <1>1 DEF half
<1> HIDE DEF new
<1>6. /\ new \in Seq(Elems) /\ Len(new) = Len(log) /\ DOMAIN new = DOMAIN log
      /\ new[k] = one /\ new[j] = two
      /\ \A i \in DOMAIN log \ {k, j} : new[i] = log[i]
  BY <1>2, <1>3, <1>4
<1> QED BY <1>5, <1>6 DEF one, two

LEMMA ExchangedLog ==
    ASSUME NEW cases, NEW log, GoodLog(cases, log), NEW k \in DOMAIN log, NEW j \in DOMAIN log, k < j
    PROVE  GoodLog(cases, E!Exchanged(log, k, j))
<1> DEFINE new == E!Exchanged(log, k, j)
           one == [log[j] EXCEPT !.seq = log[k].seq]
           two == [log[k] EXCEPT !.seq = log[j].seq]
<1>1. log[k] \in E!Row /\ log[j] \in E!Row
  BY DEF GoodLog
<1>2. /\ one \in E!Row /\ one.seq = log[k].seq /\ one.hash = log[j].hash
      /\ two \in E!Row /\ two.seq = log[j].seq /\ two.hash = log[k].hash
  BY <1>1 DEF E!Row
<1>3. /\ new \in Seq(E!Row) /\ DOMAIN new = DOMAIN log /\ new[k] = one /\ new[j] = two
      /\ \A i \in DOMAIN log \ {k, j} : new[i] = log[i]
  BY <1>2, ExchangedIs DEF GoodLog
<1> HIDE DEF new, one, two
<1>4. \A i \in DOMAIN log : new[i].seq = log[i].seq
  BY <1>2, <1>3
<1>5. From(cases, one) /\ From(cases, two)
  BY <1>2 DEF GoodLog, From, E!Hashed
<1>6. \A i \in DOMAIN log : From(cases, new[i])
  BY <1>3, <1>5 DEF GoodLog
<1> QED BY <1>3, <1>4, <1>6 DEF GoodLog, Ordered, new

LEMMA RemovedLog ==
    ASSUME NEW cases, NEW log, GoodLog(cases, log), NEW k \in DOMAIN log
    PROVE  GoodLog(cases, E!RemoveAt(log, k))
<1> DEFINE new == E!RemoveAt(log, k)
<1>1. /\ new \in Seq(E!Row) /\ Len(log) \in Nat /\ k \in 1 .. Len(log)
      /\ DOMAIN new = 1 .. Len(log) - 1 /\ DOMAIN log = 1 .. Len(log)
      /\ \A i \in 1 .. Len(log) - 1 : new[i] = IF i < k THEN log[i] ELSE log[i + 1]
  BY RemovedRow DEF GoodLog
<1> HIDE DEF new
<1>2. \A i \in DOMAIN new : \E m \in DOMAIN log : new[i] = log[m]
  <2>1. ASSUME NEW i \in DOMAIN new PROVE i \in DOMAIN log /\ i + 1 \in DOMAIN log
    BY <1>1
  <2> QED BY <1>1, <2>1
<1>3. ASSUME NEW i \in DOMAIN new, NEW j \in DOMAIN new, i < j PROVE new[i].seq < new[j].seq
  <2>1. PICK m \in DOMAIN log, n \in DOMAIN log : m < n /\ new[i] = log[m] /\ new[j] = log[n]
    <3>1. CASE j < k
      BY <1>1, <1>3, <3>1
    <3>2. CASE i < k /\ ~(j < k)
      <4>1. new[i] = log[i] /\ new[j] = log[j + 1] /\ i \in DOMAIN log /\ j + 1 \in DOMAIN log /\ i < j + 1
        BY <1>1, <1>3, <3>2
      <4> QED BY <4>1
    <3>3. CASE ~(i < k)
      <4>1. /\ new[i] = log[i + 1] /\ new[j] = log[j + 1] /\ i + 1 \in DOMAIN log
            /\ j + 1 \in DOMAIN log /\ i + 1 < j + 1
        BY <1>1, <1>3, <3>3
      <4> QED BY <4>1
    <3> QED BY <3>1, <3>2, <3>3
  <2> QED BY <2>1 DEF GoodLog, Ordered
<1> QED BY <1>1, <1>2, <1>3 DEF GoodLog, Ordered, new

LEMMA GivenLog ==
    ASSUME NEW cases, NEW log, GoodLog(cases, log), NEW row \in E!Row, From(cases, row),
           NEW k \in Nat \ {0}, E!Given(log, k, row)
    PROVE  GoodLog(cases, E!InsertAt(log, k, row)) /\ k \in 1 .. Len(log) + 1
<1> DEFINE new == E!InsertAt(log, k, row)
<1>1. log \in Seq(E!Row) /\ k \in 1 .. Len(log) + 1
  BY DEF GoodLog, E!Given
<1>2. /\ new \in Seq(E!Row) /\ Len(log) \in Nat
      /\ DOMAIN new = 1 .. Len(log) + 1 /\ DOMAIN log = 1 .. Len(log)
      /\ \A i \in 1 .. Len(log) + 1 :
             new[i] = IF i < k THEN log[i] ELSE IF i = k THEN row ELSE log[i - 1]
  BY <1>1, InsertedRow
<1> HIDE DEF new
<1>3. ASSUME NEW i \in DOMAIN new
      PROVE  i # k => \E m \in DOMAIN log : new[i] = log[m] /\ m = IF i < k THEN i ELSE i - 1
  BY <1>1, <1>2
<1>4. ASSUME NEW i \in DOMAIN new, NEW j \in DOMAIN new, i < j PROVE new[i].seq < new[j].seq
  <2>1. CASE i # k /\ j # k
    <3>1. PICK m \in DOMAIN log : new[i] = log[m] /\ m = IF i < k THEN i ELSE i - 1
      BY <1>3, <2>1
    <3>2. PICK n \in DOMAIN log : new[j] = log[n] /\ n = IF j < k THEN j ELSE j - 1
      BY <1>3, <2>1
    <3>3. m < n
      BY <1>1, <1>2, <1>4, <2>1, <3>1, <3>2
    <3> QED BY <3>1, <3>2, <3>3 DEF GoodLog, Ordered
  <2>2. CASE i = k
    <3>1. PICK n \in DOMAIN log : new[j] = log[n] /\ n = IF j < k THEN j ELSE j - 1
      BY <1>1, <1>2, <1>3, <1>4, <2>2
    <3>2. ~(n < k) /\ new[i] = row
      BY <1>1, <1>2, <1>4, <2>2, <3>1
    <3> QED BY <3>1, <3>2 DEF E!Given
  <2>3. CASE j = k
    <3>1. PICK m \in DOMAIN log : new[i] = log[m] /\ m = IF i < k THEN i ELSE i - 1
      BY <1>1, <1>2, <1>3, <1>4, <2>3
    <3>2. m < k /\ new[j] = row
      BY <1>1, <1>2, <1>4, <2>3, <3>1
    <3> QED BY <3>1, <3>2 DEF E!Given
  <2> QED BY <2>1, <2>2, <2>3
<1>5. \A i \in DOMAIN new : From(cases, new[i])
  <2>1. ASSUME NEW i \in DOMAIN new PROVE From(cases, new[i])
    <3>1. CASE i = k
      BY <1>1, <1>2, <3>1
    <3>2. CASE i # k
      BY <1>3, <3>2 DEF GoodLog
    <3> QED BY <3>1, <3>2
  <2> QED BY <2>1
<1> QED BY <1>1, <1>2, <1>4, <1>5 DEF GoodLog, Ordered, new

(* What an edit does, log by log.                                            *)
EditOne(c, k) ==
    /\ rows' = [rows EXCEPT ![c] = rows'[c]]
    /\ \/ rows'[c] \in E!Altered(rows[c], k)
       \/ \E j \in DOMAIN rows[c] : k < j /\ rows'[c] = E!Exchanged(rows[c], k, j)
       \/ rows'[c] = E!RemoveAt(rows[c], k)

EditTwo(c, k, d, m) ==
    /\ E!Given(rows[d], m, rows[c][k]) /\ d \in touched'
    /\ rows' = [rows EXCEPT ![c] = rows'[c], ![d] = rows'[d]]
    /\ rows'[c] = E!RemoveAt(rows[c], k)
    /\ rows'[d] = E!InsertAt(rows[d], m, rows[c][k])

LEMMA EditForms ==
    ASSUME E!TypeOK, NEW c \in B, NEW k \in DOMAIN rows[c], E!Edit(c, k)
    PROVE  /\ edits < MaxChanges /\ edits' = edits + 1 /\ UNCHANGED <<seq, lock, append, legacy>>
           /\ touched \subseteq touched' /\ c \in touched' /\ touched' \subseteq B
           /\ EditOne(c, k) \/ \E d \in B \ {c}, m \in 1 .. seq : EditTwo(c, k, d, m)
<1>1. DOMAIN rows = B /\ touched \subseteq B
  BY DEF E!TypeOK
<1>2. ASSUME \E log \in E!Altered(rows[c], k) : rows' = [rows EXCEPT ![c] = log]
      PROVE  EditOne(c, k)
  <2>1. PICK log \in E!Altered(rows[c], k) : rows' = [rows EXCEPT ![c] = log]
    BY <1>2
  <2>2. rows'[c] = log
    BY <1>1, <2>1
  <2> QED BY <2>1, <2>2 DEF EditOne
<1>3. ASSUME \E j \in DOMAIN rows[c] : k < j /\ rows' = [rows EXCEPT ![c] = E!Exchanged(@, k, j)]
      PROVE  EditOne(c, k)
  <2>1. PICK j \in DOMAIN rows[c] : k < j /\ rows' = [rows EXCEPT ![c] = E!Exchanged(rows[c], k, j)]
    BY <1>3
  <2>2. rows'[c] = E!Exchanged(rows[c], k, j)
    BY <1>1, <2>1
  <2> QED BY <2>1, <2>2 DEF EditOne
<1>4. ASSUME rows' = [rows EXCEPT ![c] = E!RemoveAt(@, k)]
      PROVE  EditOne(c, k)
  <2>1. rows'[c] = E!RemoveAt(rows[c], k)
    BY <1>1, <1>4
  <2> QED BY <1>4, <2>1 DEF EditOne
<1>5. ASSUME NEW d \in B \ {c}, NEW m \in 1 .. seq, E!Given(rows[d], m, rows[c][k]),
             rows' = [rows EXCEPT ![c] = E!RemoveAt(@, k), ![d] = E!InsertAt(@, m, rows[c][k])],
             touched' = touched \cup {c, d}
      PROVE  EditTwo(c, k, d, m)
  <2>1. rows'[c] = E!RemoveAt(rows[c], k) /\ rows'[d] = E!InsertAt(rows[d], m, rows[c][k])
    BY <1>1, <1>5
  <2>2. rows' = [rows EXCEPT ![c] = rows'[c], ![d] = rows'[d]]
    BY <1>1, <1>5, <2>1
  <2> QED BY <1>5, <2>1, <2>2 DEF EditTwo
<1>6. /\ edits < MaxChanges /\ edits' = edits + 1 /\ UNCHANGED <<seq, lock, append, legacy>>
      /\ touched \subseteq touched' /\ c \in touched' /\ touched' \subseteq B
  BY <1>1 DEF E!Edit
<1>7. EditOne(c, k) \/ \E d \in B \ {c}, m \in 1 .. seq : EditTwo(c, k, d, m)
  <2>1. \/ \E log \in E!Altered(rows[c], k) : rows' = [rows EXCEPT ![c] = log]
        \/ \E j \in DOMAIN rows[c] : k < j /\ rows' = [rows EXCEPT ![c] = E!Exchanged(@, k, j)]
        \/ rows' = [rows EXCEPT ![c] = E!RemoveAt(@, k)]
        \/ \E d \in B \ {c}, m \in 1 .. seq :
              /\ E!Given(rows[d], m, rows[c][k])
              /\ rows' = [rows EXCEPT ![c] = E!RemoveAt(@, k), ![d] = E!InsertAt(@, m, rows[c][k])]
              /\ touched' = touched \cup {c, d}
    BY DEF E!Edit
  <2> QED BY <1>2, <1>3, <1>4, <1>5, <2>1
<1> QED BY <1>6, <1>7

LEMMA EditStep ==
    ASSUME ChainInv, E!NoneAssumption, NEW c \in B, NEW k \in DOMAIN rows[c], E!Edit(c, k), MaxChanges \in Nat
    PROVE  ChainInv'
<1>1. /\ edits < MaxChanges /\ edits' = edits + 1 /\ UNCHANGED <<seq, lock, append, legacy>>
      /\ touched \subseteq touched' /\ c \in touched' /\ touched' \subseteq B
  BY EditForms DEF ChainInv
<1>2. \A d \in B : GoodLog(touched' \cup {d}, rows[d])
  <2>1. ASSUME NEW d \in B, NEW i \in DOMAIN rows[d] PROVE From(touched' \cup {d}, rows[d][i])
    BY <1>1 DEF ChainInv, From
  <2>2. ASSUME NEW d \in B PROVE rows[d] \in Seq(E!Row) /\ Ordered(rows[d])
    BY DEF ChainInv, E!TypeOK, Ordered
  <2> QED BY <2>1, <2>2 DEF GoodLog
<1>3. DOMAIN rows = B
  BY DEF ChainInv, E!TypeOK
<1>4. /\ DOMAIN rows' = B
      /\ \A d \in B : GoodLog(touched' \cup {d}, rows'[d])
      /\ \A d \in B \ touched' : rows'[d] = rows[d]
  <2>1. CASE EditOne(c, k)
    <3>1. GoodLog(touched' \cup {c}, rows'[c])
      <4>1. GoodLog(touched' \cup {c}, rows[c])
        BY <1>2
      <4>2. CASE rows'[c] \in E!Altered(rows[c], k)
        BY <4>1, <4>2, AlteredLog
      <4>3. CASE \E j \in DOMAIN rows[c] : k < j /\ rows'[c] = E!Exchanged(rows[c], k, j)
        <5>1. PICK j \in DOMAIN rows[c] : k < j /\ rows'[c] = E!Exchanged(rows[c], k, j)
          BY <4>3
        <5>2. GoodLog(touched' \cup {c}, E!Exchanged(rows[c], k, j))
          BY <4>1, <5>1, ExchangedLog
        <5> QED BY <5>1, <5>2
      <4>4. CASE rows'[c] = E!RemoveAt(rows[c], k)
        <5>1. GoodLog(touched' \cup {c}, E!RemoveAt(rows[c], k))
          BY <4>1, RemovedLog
        <5> QED BY <4>4, <5>1
      <4> QED BY <2>1, <4>2, <4>3, <4>4 DEF EditOne
    <3>2. DOMAIN rows' = B /\ \A d \in B \ {c} : rows'[d] = rows[d]
      BY <1>3, <2>1 DEF EditOne
    <3> QED BY <1>1, <1>2, <3>1, <3>2
  <2>2. ASSUME NEW d \in B \ {c}, NEW m \in 1 .. seq, EditTwo(c, k, d, m)
        PROVE  /\ DOMAIN rows' = B
               /\ \A e \in B : GoodLog(touched' \cup {e}, rows'[e])
               /\ \A e \in B \ touched' : rows'[e] = rows[e]
    <3>1. GoodLog(touched' \cup {c}, rows'[c])
      BY <1>2, <2>2, RemovedLog DEF EditTwo
    <3>2. rows[c][k] \in E!Row /\ From(touched' \cup {d}, rows[c][k])
      <4>1. rows[c] \in Seq(E!Row) /\ From(touched' \cup {c}, rows[c][k])
        BY <1>2 DEF GoodLog
      <4>2. touched' \cup {c} \subseteq touched' \cup {d}
        BY <1>1
      <4> QED BY <4>1, <4>2 DEF From
    <3>3. m \in Nat \ {0}
      BY DEF ChainInv, E!TypeOK
    <3>4. GoodLog(touched' \cup {d}, rows'[d])
      <4>1. E!Given(rows[d], m, rows[c][k]) /\ rows'[d] = E!InsertAt(rows[d], m, rows[c][k])
        BY <2>2 DEF EditTwo
      <4>2. GoodLog(touched' \cup {d}, rows[d])
        BY <1>2
      <4>3. PICK row \in E!Row : row = rows[c][k]
        BY <3>2
      <4>4. From(touched' \cup {d}, row) /\ E!Given(rows[d], m, row) /\ m \in Nat \ {0}
        BY <3>2, <3>3, <4>1, <4>3
      <4>5. GoodLog(touched' \cup {d}, E!InsertAt(rows[d], m, row))
        BY <4>2, <4>4, GivenLog
      <4> QED BY <4>1, <4>3, <4>5
    <3>5. DOMAIN rows' = B /\ d \in touched' /\ \A e \in B \ {c, d} : rows'[e] = rows[e]
      BY <1>3, <2>2 DEF EditTwo
    <3>6. ASSUME NEW e \in B PROVE GoodLog(touched' \cup {e}, rows'[e])
      BY <1>2, <3>1, <3>4, <3>5
    <3>7. ASSUME NEW e \in B \ touched' PROVE rows'[e] = rows[e]
      BY <1>1, <3>5
    <3> QED BY <3>5, <3>6, <3>7
  <2> QED BY <2>1, <2>2, EditForms DEF ChainInv
<1>5. E!TypeOK'
  <2>1. E!Row' = E!Row /\ E!Appending' = E!Appending
    BY <1>1 DEF E!Row, E!Appending
  <2>2. ASSUME NEW d \in B
        PROVE  rows'[d] \in Seq(E!Row) /\ \A i, j \in DOMAIN rows'[d] : i < j => rows'[d][i].seq < rows'[d][j].seq
    BY <1>4 DEF GoodLog, Ordered
  <2>3. \E f : rows' = [d \in B |-> f[d]]
    <3>1. rows' = [d \in B |-> rows'[d]]
      <4>1. CASE EditOne(c, k)
        BY <1>3, <4>1 DEF EditOne
      <4>2. CASE \E d \in B \ {c}, m \in 1 .. seq : EditTwo(c, k, d, m)
        BY <1>3, <4>2 DEF EditTwo
      <4> QED BY <4>1, <4>2, EditForms DEF ChainInv
    <3> QED BY <3>1
  <2>4. rows' \in [B -> Seq(E!Row)]
    BY <2>2, <2>3
  <2>5. edits' \in 0 .. MaxChanges
    BY <1>1 DEF ChainInv, E!TypeOK
  <2> QED BY <1>1, <2>1, <2>2, <2>4, <2>5 DEF ChainInv, E!TypeOK
<1>6. \A d \in B : \A i \in DOMAIN rows'[d] : From(touched' \cup {d}, rows'[d][i])
  BY <1>4 DEF GoodLog
<1>7. \A t \in A : append[t] # None => append[t].case \in B
  BY DEF ChainInv, E!TypeOK, E!Appending
<1>8. ASSUME NEW t \in A, append'[t] # None
      PROVE  /\ lock' = t
             /\ append'[t].case \notin touched' =>
                    append'[t].prev = E!Before(rows'[append'[t].case], Len(rows'[append'[t].case]) + 1)
  BY <1>1, <1>4, <1>7, <1>8 DEF ChainInv
<1>9. ASSUME NEW d \in B \ touched' PROVE \A i \in DOMAIN rows'[d] : E!Sound(d, rows'[d], i)
  BY <1>1, <1>4, <1>9 DEF ChainInv
<1> QED BY <1>5, <1>6, <1>8, <1>9 DEF ChainInv

LEMMA ChainStep ==
    ASSUME ChainInv, E!NoneAssumption, E!BoundsAssumption, [E!Next]_(E!vars)
    PROVE  ChainInv'
<1>1. CASE E!Restart
  <2>1. /\ append' = [t \in A |-> None] /\ lock' = None
        /\ UNCHANGED <<rows, seq, legacy, edits, touched>>
    BY <1>1 DEF E!Restart
  <2>2. E!Row' = E!Row /\ E!Appending' = E!Appending
    BY <2>1 DEF E!Row, E!Appending
  <2> QED BY <2>1, <2>2 DEF ChainInv, E!TypeOK
<1>2. CASE UNCHANGED E!vars
  <2>1. E!Row' = E!Row /\ E!Appending' = E!Appending
    BY <1>2 DEF E!Row, E!Appending, E!vars
  <2> QED BY <1>2, <2>1 DEF ChainInv, E!TypeOK, E!vars
<1>3. MaxLegacy \in Nat /\ MaxChanges \in Nat
  BY DEF E!BoundsAssumption
<1> QED BY <1>1, <1>2, <1>3, ReadLastStep, InsertStep, InsertLegacyStep, EditStep DEF E!Next

(* Where verify_case_events sees first that a sound log was edited.          *)
LEMMA FirstBreak ==
    ASSUME E!NoneAssumption, NEW c \in B, NEW log \in Seq(RowN), \A i \in DOMAIN log : E!Sound(c, log, i),
           NEW new \in Seq(RowN), NEW m \in DOMAIN new, m <= Len(log) + 1,
           \A i \in 1 .. m - 1 : new[i] = log[i]
    PROVE  /\ \A i \in 1 .. m - 1 : E!Sound(c, new, i)
           /\ E!Before(new, m) = E!Before(log, m) /\ E!Before(log, m) \in E!Hashes
           /\ ~E!Sound(c, new, m) => E!Walk(c, new)[Len(new)].first = new[m].seq
<1>1. m \in Nat \ {0} /\ m \in 1 .. Len(log) + 1 /\ DOMAIN log = 1 .. Len(log) /\ Len(log) \in Nat
  OBVIOUS
<1>2. \A i \in 1 .. m : E!Before(new, i) = E!Before(log, i)
  BY <1>1 DEF E!Before
<1>3. \A i \in 1 .. m - 1 : E!Sound(c, new, i)
  BY <1>1, <1>2 DEF E!Sound
<1>4. m \in 1 .. m
  BY <1>1
<1> QED BY <1>1, <1>2, <1>3, <1>4, BeforeType, VerifyKnows

LEMMA NextBreak ==
    ASSUME E!NoneAssumption, NEW c \in B, NEW log \in Seq(RowN), \A i \in DOMAIN log : E!Sound(c, log, i),
           NEW new \in Seq(RowN), NEW m \in DOMAIN new, m + 1 \in DOMAIN new, m <= Len(log),
           \A i \in 1 .. m - 1 : new[i] = log[i],
           E!Sound(c, new, m), ~E!Sound(c, new, m + 1)
    PROVE  E!Walk(c, new)[Len(new)].first = new[m + 1].seq
<1>1. m <= Len(log) + 1 /\ m \in Nat \ {0} /\ (m + 1) - 1 = m
  OBVIOUS
<1>2. \A i \in 1 .. m - 1 : E!Sound(c, new, i)
  BY <1>1, FirstBreak
<1>3. \A i \in 1 .. (m + 1) - 1 : E!Sound(c, new, i)
  <2>1. \A i \in 1 .. m : i \in 1 .. m - 1 \/ i = m
    BY <1>1
  <2> QED BY <1>1, <1>2, <2>1
<1> QED BY <1>3, VerifyKnows

(* The hash of a row that is sound: of its own event, and longer than the    *)
(* one it follows.                                                           *)
LEMMA SoundHash ==
    ASSUME NEW c \in B, NEW log \in Seq(RowN), NEW i \in DOMAIN log, E!Sound(c, log, i), E!Hashed(log[i])
    PROVE  /\ log[i].prev = E!Before(log, i) /\ log[i].hash = E!Hash(c, log[i].event, E!Before(log, i))
           /\ E!Before(log, i) \in E!Hashes /\ log[i].hash \in E!Hashes
           /\ Len(E!Before(log, i)) \in Nat /\ Len(log[i].hash) = Len(E!Before(log, i)) + 1
           /\ log[i].hash # E!Before(log, i) /\ log[i].hash # E!Genesis
           /\ OfCase(log[i].hash) = c
<1>1. log[i] \in RowN /\ i \in 1 .. Len(log) + 1
  OBVIOUS
<1>2. /\ log[i].prev = E!Before(log, i) /\ log[i].hash = E!Hash(c, log[i].event, E!Before(log, i))
      /\ E!Before(log, i) \in E!Hashes
  BY <1>1, BeforeType DEF E!Sound
<1>3. PICK p \in E!Hashes : p = E!Before(log, i)
  BY <1>2
<1>4. PICK event \in Events : event = log[i].event
  BY <1>1 DEF RowN
<1>5. E!Hash(c, event, p) \in E!Hashes /\ Len(E!Hash(c, event, p)) = Len(p) + 1 /\ Len(p) \in Nat
  BY HashType
<1>6. OfCase(E!Hash(c, event, p)) = c
  <2>1. Append(p, [case |-> c, event |-> event])[Len(p) + 1] = [case |-> c, event |-> event]
    BY DEF E!Hashes
  <2> QED BY <1>5, <2>1 DEF OfCase, E!Hash
<1>7. Len(E!Genesis) = 0
  BY DEF E!Genesis
<1> QED BY <1>2, <1>3, <1>4, <1>5, <1>6, <1>7

LEMMA ChangeIsFound ==
    ASSUME E!NoneAssumption, NEW c \in B, NEW log \in Seq(RowN), NEW k \in DOMAIN log,
           \A i \in DOMAIN log : E!Sound(c, log, i), E!Hashed(log[k]),
           NEW row \in RowN, E!Hashed(row), row.seq = log[k].seq,
           \/ row.prev # log[k].prev
           \/ row.hash # log[k].hash /\ row.event = log[k].event
           \/ row.event # log[k].event /\ row.hash = log[k].hash
    PROVE  LET new == [log EXCEPT ![k] = row] IN
           E!Walk(c, new)[Len(new)].first = log[k].seq
<1> DEFINE new == [log EXCEPT ![k] = row]
<1>1. /\ new \in Seq(RowN) /\ Len(new) = Len(log) /\ DOMAIN new = DOMAIN log /\ new[k] = row
      /\ \A i \in DOMAIN log \ {k} : new[i] = log[i]
  BY ReplacedRow
<1>2. DOMAIN log = 1 .. Len(log) /\ k \in 1 .. Len(log) /\ Len(log) \in Nat
  OBVIOUS
<1> HIDE DEF new
<1>3. \A i \in 1 .. k - 1 : new[i] = log[i]
  BY <1>1, <1>2
<1>4. k \in DOMAIN new /\ k <= Len(log) + 1
  BY <1>1, <1>2
<1>5. /\ E!Before(new, k) = E!Before(log, k) /\ E!Before(log, k) \in E!Hashes
      /\ ~E!Sound(c, new, k) => E!Walk(c, new)[Len(new)].first = new[k].seq
  BY <1>1, <1>3, <1>4, FirstBreak
<1>6. log[k].prev = E!Before(log, k) /\ log[k].hash = E!Hash(c, log[k].event, E!Before(log, k))
  BY SoundHash
<1>7. row.event # log[k].event => E!Hash(c, row.event, E!Before(log, k)) # log[k].hash
  <2>1. PICK p \in E!Hashes : p = E!Before(log, k)
    BY <1>5
  <2>2. PICK one \in Events, two \in Events : one = row.event /\ two = log[k].event
    <3>1. log[k] \in RowN
      OBVIOUS
    <3> QED BY <3>1 DEF RowN
  <2>3. /\ Append(p, [case |-> c, event |-> one])[Len(p) + 1] = [case |-> c, event |-> one]
        /\ Append(p, [case |-> c, event |-> two])[Len(p) + 1] = [case |-> c, event |-> two]
    BY DEF E!Hashes
  <2>4. one # two => [case |-> c, event |-> one].event # [case |-> c, event |-> two].event
    OBVIOUS
  <2> QED BY <1>6, <2>1, <2>2, <2>3, <2>4 DEF E!Hash
<1>8. ~E!Sound(c, new, k)
  BY <1>1, <1>5, <1>6, <1>7 DEF E!Sound
<1> QED BY <1>1, <1>5, <1>8 DEF new

LEMMA UnhashedIsFound ==
    ASSUME E!NoneAssumption, NEW c \in B, NEW log \in Seq(RowN), NEW k \in DOMAIN log,
           \A i \in DOMAIN log : E!Sound(c, log, i),
           E!Hashed(log[k]), k < Len(log), E!Hashed(log[k + 1])
    PROVE  LET new == [log EXCEPT ![k].hash = None] IN
           E!Walk(c, new)[Len(new)].first = log[k + 1].seq
<1> DEFINE row == [log[k] EXCEPT !.hash = None]
           new == [log EXCEPT ![k] = row]
<1>1. log[k] \in RowN /\ DOMAIN log = 1 .. Len(log) /\ Len(log) \in Nat /\ k + 1 \in DOMAIN log /\ k \in Nat \ {0}
  OBVIOUS
<1>2. row \in RowN /\ ~E!Hashed(row)
  BY <1>1 DEF RowN, E!Hashed
<1>3. /\ new \in Seq(RowN) /\ Len(new) = Len(log) /\ DOMAIN new = DOMAIN log /\ new[k] = row
      /\ \A i \in DOMAIN log \ {k} : new[i] = log[i]
  BY <1>2, ReplacedRow
<1>4. [log EXCEPT ![k].hash = None] = new
  OBVIOUS
<1> HIDE DEF new, row
<1>5. \A i \in 1 .. k - 1 : new[i] = log[i]
  BY <1>1, <1>3
<1>6. new[k + 1] = log[k + 1]
  BY <1>1, <1>3
<1>7. E!Sound(c, new, k)
  BY <1>2, <1>3 DEF E!Sound
<1>8. ~E!Sound(c, new, k + 1)
  <2>1. E!Before(new, k + 1) = E!Genesis /\ E!Before(log, k + 1) = log[k].hash
    BY <1>1, <1>2, <1>3 DEF E!Before
  <2>2. log[k + 1].prev = log[k].hash /\ log[k].hash # E!Genesis
    BY <1>1, <2>1, SoundHash
  <2> QED BY <1>6, <2>1, <2>2 DEF E!Sound
<1>9. k \in DOMAIN new /\ k + 1 \in DOMAIN new /\ k <= Len(log)
  BY <1>1, <1>3
<1>10. E!Walk(c, new)[Len(new)].first = new[k + 1].seq
  BY <1>3, <1>5, <1>7, <1>8, <1>9, NextBreak
<1> QED BY <1>4, <1>6, <1>10

LEMMA RemovalIsFound ==
    ASSUME E!NoneAssumption, NEW c \in B, NEW log \in Seq(RowN), NEW k \in DOMAIN log,
           \A i \in DOMAIN log : E!Sound(c, log, i),
           E!Hashed(log[k]), k < Len(log), E!Hashed(log[k + 1])
    PROVE  LET new == E!RemoveAt(log, k) IN
           E!Walk(c, new)[Len(new)].first = log[k + 1].seq
<1> DEFINE new == E!RemoveAt(log, k)
<1>1. /\ new \in Seq(RowN) /\ Len(log) \in Nat /\ k \in 1 .. Len(log) - 1
      /\ DOMAIN new = 1 .. Len(log) - 1 /\ DOMAIN log = 1 .. Len(log)
      /\ \A i \in 1 .. k - 1 : new[i] = log[i]
      /\ new[k] = log[k + 1]
  <2>1. /\ new \in Seq(RowN) /\ Len(log) \in Nat
        /\ DOMAIN new = 1 .. Len(log) - 1 /\ DOMAIN log = 1 .. Len(log)
        /\ \A i \in 1 .. Len(log) - 1 : new[i] = IF i < k THEN log[i] ELSE log[i + 1]
    BY RemovedRow
  <2>2. k \in 1 .. Len(log) - 1
    BY <2>1
  <2> HIDE DEF new
  <2> QED BY <2>1, <2>2
<1> HIDE DEF new
<1>2. k \in DOMAIN new /\ k <= Len(log) + 1 /\ k + 1 \in DOMAIN log /\ k \in Nat \ {0}
  BY <1>1
<1>3. /\ E!Before(new, k) = E!Before(log, k)
      /\ ~E!Sound(c, new, k) => E!Walk(c, new)[Len(new)].first = new[k].seq
  BY <1>1, <1>2, FirstBreak
<1>4. ~E!Sound(c, new, k)
  <2>1. E!Before(log, k + 1) = log[k].hash
    BY <1>2 DEF E!Before
  <2>2. log[k + 1].prev = log[k].hash /\ log[k].hash # E!Before(log, k)
    BY <1>2, <2>1, SoundHash
  <2> QED BY <1>1, <1>3, <2>2 DEF E!Sound
<1> QED BY <1>1, <1>3, <1>4 DEF new

LEMMA ExchangeIsFound ==
    ASSUME E!NoneAssumption, NEW c \in B, NEW log \in Seq(RowN), NEW k \in DOMAIN log,
           \A i \in DOMAIN log : E!Sound(c, log, i),
           E!Hashed(log[k]), k < Len(log), E!Hashed(log[k + 1]),
           NEW j \in k + 1 .. Len(log), log[j].hash # log[k].hash
    PROVE  LET new == E!Exchanged(log, k, j) IN
           E!Walk(c, new)[Len(new)].first \in {log[k].seq, log[k + 1].seq}
<1> DEFINE new == E!Exchanged(log, k, j)
           one == [log[j] EXCEPT !.seq = log[k].seq]
           two == [log[k] EXCEPT !.seq = log[j].seq]
<1>1. /\ k \in Nat \ {0} /\ k < j /\ j \in DOMAIN log /\ k + 1 \in DOMAIN log
      /\ DOMAIN log = 1 .. Len(log) /\ Len(log) \in Nat /\ log[k] \in RowN /\ log[j] \in RowN
  OBVIOUS
<1>2. /\ one \in RowN /\ one.seq = log[k].seq /\ one.hash = log[j].hash
      /\ one.event = log[j].event /\ one.prev = log[j].prev
      /\ two \in RowN
  BY <1>1 DEF RowN
<1>3. /\ new \in Seq(RowN) /\ Len(new) = Len(log) /\ DOMAIN new = DOMAIN log /\ new[k] = one
      /\ \A i \in DOMAIN log \ {k, j} : new[i] = log[i]
  BY <1>1, <1>2, ExchangedIs
<1> HIDE DEF new, one, two
<1>4. \A i \in 1 .. k - 1 : new[i] = log[i]
  BY <1>1, <1>3
<1>5. /\ E!Before(new, k) = E!Before(log, k)
      /\ ~E!Sound(c, new, k) => E!Walk(c, new)[Len(new)].first = log[k].seq
  <2>1. k \in DOMAIN new /\ k <= Len(log) + 1
    BY <1>1, <1>3
  <2> QED BY <1>2, <1>3, <1>4, <2>1, FirstBreak
<1>6. ASSUME E!Sound(c, new, k) PROVE E!Walk(c, new)[Len(new)].first = log[k + 1].seq
  <2>1. /\ E!Before(log, k + 1) = log[k].hash
        /\ log[k + 1].prev = log[k].hash /\ log[k].hash # E!Genesis
        /\ log[k].hash \in E!Hashes /\ Len(log[k].hash) = Len(E!Before(log, k)) + 1
        /\ Len(E!Before(log, k)) \in Nat /\ E!Before(log, k) \in E!Hashes
    <3>1. E!Before(log, k + 1) = log[k].hash
      BY <1>1 DEF E!Before
    <3> QED BY <1>1, <3>1, SoundHash
  <2>2. j # k + 1
    <3>1. SUFFICES ASSUME j = k + 1 PROVE FALSE
      OBVIOUS
    <3>2. Len(log[j].hash) = Len(log[k].hash) + 1
      BY <1>1, <2>1, <3>1, SoundHash
    <3>3. log[j].hash = E!Hash(c, log[j].event, E!Before(log, k))
      BY <1>2, <1>3, <1>5, <1>6, <3>1 DEF E!Sound, E!Hashed
    <3>4. log[j].event \in Events
      BY <1>1 DEF RowN
    <3>5. Len(log[j].hash) = Len(E!Before(log, k)) + 1
      BY <2>1, <3>3, <3>4, HashType
    <3> QED BY <2>1, <3>2, <3>5
  <2>3. new[k + 1] = log[k + 1] /\ k + 1 \in DOMAIN new /\ k \in DOMAIN new /\ k <= Len(log)
    BY <1>1, <1>3, <2>2
  <2>4. E!Before(new, k + 1) = IF E!Hashed(one) THEN one.hash ELSE E!Genesis
    BY <1>1, <1>3 DEF E!Before
  <2>5. ~E!Sound(c, new, k + 1)
    BY <1>2, <2>1, <2>3, <2>4 DEF E!Sound
  <2> QED BY <1>3, <1>4, <1>6, <2>3, <2>5, NextBreak
<1> QED BY <1>5, <1>6 DEF new

(* A row that was made for another case.                                     *)
LEMMA GivenIsFound ==
    ASSUME E!NoneAssumption, NEW c \in B, NEW log \in Seq(RowN), \A i \in DOMAIN log : E!Sound(c, log, i),
           NEW k \in 1 .. Len(log) + 1, NEW row \in RowN, E!Hashed(row), NEW cases, From(cases, row), c \notin cases
    PROVE  LET new == E!InsertAt(log, k, row) IN
           E!Walk(c, new)[Len(new)].first = row.seq
<1> DEFINE new == E!InsertAt(log, k, row)
<1>1. /\ new \in Seq(RowN) /\ Len(log) \in Nat /\ DOMAIN new = 1 .. Len(log) + 1
      /\ \A i \in 1 .. Len(log) + 1 :
             new[i] = IF i < k THEN log[i] ELSE IF i = k THEN row ELSE log[i - 1]
  BY InsertedRow
<1> HIDE DEF new
<1>2. k \in DOMAIN new /\ k <= Len(log) + 1 /\ new[k] = row /\ \A i \in 1 .. k - 1 : new[i] = log[i]
  BY <1>1
<1>3. ~E!Sound(c, new, k) => E!Walk(c, new)[Len(new)].first = row.seq
  BY <1>1, <1>2, FirstBreak
<1>4. ~E!Sound(c, new, k)
  <2>1. SUFFICES ASSUME E!Sound(c, new, k) PROVE FALSE
    OBVIOUS
  <2>2. row.hash # E!Genesis /\ OfCase(row.hash) = c
    BY <1>1, <1>2, <2>1, SoundHash
  <2> QED BY <2>2 DEF From
<1> QED BY <1>3, <1>4 DEF new

(* The step that edits.                                                      *)
LEMMA AnEdit ==
    ASSUME ChainInv, [E!Next]_(E!vars), edits' = edits + 1
    PROVE  \E c \in B : \E k \in DOMAIN rows[c] : E!Edit(c, k)
<1>1. edits' # edits
  BY DEF ChainInv, E!TypeOK
<1>2. ASSUME NEW c \in B, NEW event \in Events
      PROVE  ~E!InsertLegacy(c, event) /\ \A t \in A : ~E!ReadLast(t, c, event)
  BY <1>1 DEF E!ReadLast, E!InsertLegacy
<1>3. ASSUME NEW t \in A PROVE ~E!Insert(t)
  BY <1>1 DEF E!Insert
<1>4. ~E!Restart /\ ~UNCHANGED E!vars
  BY <1>1 DEF E!Restart, E!vars
<1> QED BY <1>2, <1>3, <1>4 DEF E!Next

(* A log that has grown by an edit has grown by a row of another case.       *)
LEMMA GrownIsGiven ==
    ASSUME ChainInv, E!TypeOK', NEW x \in B, NEW i \in DOMAIN rows[x], E!Edit(x, i),
           NEW c \in B \ touched, NEW k \in DOMAIN rows'[c],
           rows'[c] = E!InsertAt(rows[c], k, rows'[c][k])
    PROVE  /\ k \in 1 .. Len(rows[c]) + 1 /\ rows'[c][k] \in RowN
           /\ \E cases : From(cases, rows'[c][k]) /\ c \notin cases
<1> DEFINE log == rows[c] new == rows'[c]
<1>1. /\ log \in Seq(E!Row) /\ log \in Seq(RowN) /\ Ordered(log) /\ DOMAIN rows = B
      /\ seq \in Nat
  BY RowsAreN DEF ChainInv, E!TypeOK, Ordered
<1>2. new \in Seq(RowN) /\ Ordered(new)
  <2>1. new \in Seq(E!Row') /\ Ordered(new)
    BY DEF E!TypeOK, Ordered
  <2>2. E!Row' \subseteq RowN
    BY DEF E!TypeOK, E!Row, RowN
  <2> QED BY <2>1, <2>2, SeqMonotonic
<1>3. new[k] \in RowN /\ k \in Nat \ {0} /\ k <= Len(new) /\ Len(new) \in Nat /\ Len(log) \in Nat
  BY <1>1, <1>2
<1>4. CASE Len(new) <= Len(log)
  <2>1. k \in 1 .. Len(log) + 1
    BY <1>3, <1>4
  <2>2. Len(new) = Len(log) + 1
    <3>1. new = E!InsertAt(log, k, new[k])
      OBVIOUS
    <3> HIDE DEF log, new
    <3> QED BY <1>1, <1>3, <2>1, <3>1, InsertedRow
  <2> QED BY <1>3, <1>4, <2>2
<1>5. CASE ~(Len(new) <= Len(log))
  <2>1. PICK m \in 1 .. seq : c # x /\ EditTwo(x, i, c, m)
    <3>1. CASE EditOne(x, i)
      <4>1. CASE c # x
        <5>1. new = log
          BY <1>1, <3>1, <4>1 DEF EditOne
        <5> QED BY <1>3, <1>5, <5>1
      <4>2. CASE c = x
        <5>1. GoodLog(touched \cup {c}, log)
          BY <1>1 DEF GoodLog, ChainInv
        <5>2. new \in E!Altered(log, i) => Len(new) = Len(log)
          BY <4>2, <5>1, AlteredLog
        <5>3. ASSUME NEW j \in DOMAIN log, i < j, new = E!Exchanged(log, i, j)
              PROVE  Len(new) = Len(log)
          <6>1. log[i] \in E!Row /\ log[j] \in E!Row
            BY <1>1, <4>2
          <6>2. [log[j] EXCEPT !.seq = log[i].seq] \in E!Row /\ [log[i] EXCEPT !.seq = log[j].seq] \in E!Row
            BY <6>1 DEF E!Row
          <6> HIDE DEF log, new
          <6> QED BY <1>1, <4>2, <5>3, <6>2, ExchangedIs DEF log
        <5>4. new = E!RemoveAt(log, i) => Len(new) = Len(log) - 1
          <6>1. i \in DOMAIN log
            BY <4>2
          <6> HIDE DEF log, new
          <6> QED BY <1>1, <6>1, RemovedRow
        <5>5. \/ new \in E!Altered(log, i) \/ new = E!RemoveAt(log, i)
              \/ \E j \in DOMAIN log : i < j /\ new = E!Exchanged(log, i, j)
          BY <3>1, <4>2 DEF EditOne
        <5> HIDE DEF log, new
        <5> QED BY <1>3, <1>5, <5>2, <5>3, <5>4, <5>5
      <4> QED BY <4>1, <4>2
    <3>2. ASSUME NEW d \in B \ {x}, NEW m \in 1 .. seq, EditTwo(x, i, d, m), d # c
          PROVE  FALSE
      <4>1. CASE c = x
        <5>1. new = E!RemoveAt(log, i) /\ i \in DOMAIN log
          BY <3>2, <4>1 DEF EditTwo
        <5> HIDE DEF log, new
        <5>2. Len(new) = Len(log) - 1
          BY <1>1, <5>1, RemovedRow
        <5> QED BY <1>3, <1>5, <5>2
      <4>2. CASE c # x
        <5>1. new = log
          BY <1>1, <3>2, <4>2 DEF EditTwo
        <5> QED BY <1>3, <1>5, <5>1
      <4> QED BY <4>1, <4>2
    <3> QED BY <3>1, <3>2, EditForms DEF ChainInv
  <2> DEFINE row == rows[x][i]
             cases == touched \cup {x}
  <2>2. /\ new = E!InsertAt(log, m, row) /\ m \in 1 .. Len(log) + 1 /\ row \in E!Row /\ row \in RowN
        /\ From(cases, row) /\ c \notin cases
    <3>1. rows[x] \in Seq(E!Row) /\ rows[x] \in Seq(RowN)
      BY RowsAreN DEF ChainInv
    <3>2. m \in 1 .. Len(log) + 1
      BY <1>1, <2>1 DEF EditTwo, E!Given
    <3>3. row \in E!Row /\ row \in RowN
      BY <3>1
    <3>4. From(cases, row)
      BY DEF ChainInv
    <3>5. new = E!InsertAt(log, m, row) /\ c \notin cases
      BY <2>1 DEF EditTwo
    <3> HIDE DEF row, cases, log, new
    <3> QED BY <3>2, <3>3, <3>4, <3>5
  <2> HIDE DEF row, cases, log, new
  <2>3. /\ DOMAIN new = 1 .. Len(log) + 1 /\ Len(new) = Len(log) + 1
        /\ \A j \in 1 .. Len(log) + 1 :
               new[j] = IF j < m THEN log[j] ELSE IF j = m THEN row ELSE log[j - 1]
    <3>1. PICK r \in E!Row, at \in 1 .. Len(log) + 1 : r = row /\ at = m
      BY <2>2
    <3>2. LET now == E!InsertAt(log, at, r) IN
          /\ DOMAIN now = 1 .. Len(log) + 1 /\ Len(now) = Len(log) + 1
          /\ \A j \in 1 .. Len(log) + 1 :
                 now[j] = IF j < at THEN log[j] ELSE IF j = at THEN r ELSE log[j - 1]
      BY <1>1, InsertedRow
    <3>3. E!InsertAt(log, at, r) = new
      BY <2>2, <3>1
    <3> QED BY <3>1, <3>2, <3>3
  <2>4. k \in 1 .. Len(log) + 1
    BY <1>3, <2>3
  <2>5. \A j \in 1 .. Len(log) + 1 :
            new[j] = IF j < k THEN log[j] ELSE IF j = k THEN new[k] ELSE log[j - 1]
    <3>1. new = E!InsertAt(log, k, new[k])
      BY DEF log, new
    <3>2. PICK r \in RowN, at \in 1 .. Len(log) + 1 : r = new[k] /\ at = k
      BY <1>3, <2>4
    <3>3. LET now == E!InsertAt(log, at, r) IN
          /\ DOMAIN now = 1 .. Len(log) + 1 /\ Len(now) = Len(log) + 1
          /\ \A j \in 1 .. Len(log) + 1 :
                 now[j] = IF j < at THEN log[j] ELSE IF j = at THEN r ELSE log[j - 1]
      <4>1. log \in Seq(RowN)
        BY <1>1
      <4> QED BY <4>1, InsertedRow
    <3>4. E!InsertAt(log, at, r) = new
      BY <3>1, <3>2
    <3> QED BY <3>2, <3>3, <3>4
  <2>6. \A j \in 1 .. Len(log) : new[j].seq # new[j + 1].seq
    <3>1. ASSUME NEW j \in 1 .. Len(log) PROVE new[j].seq < new[j + 1].seq /\ new[j] \in RowN /\ new[j + 1] \in RowN
      <4>1. j \in DOMAIN new /\ j + 1 \in DOMAIN new /\ j < j + 1
        BY <1>1, <1>3, <2>3
      <4> QED BY <1>2, <4>1 DEF Ordered
    <3> QED BY <3>1 DEF RowN
  <2>7. ~(k < m)
    <3>1. SUFFICES ASSUME k < m PROVE FALSE
      OBVIOUS
    <3>2. k \in 1 .. Len(log) /\ new[k] = log[k] /\ new[k + 1] = log[k]
      BY <1>3, <2>2, <2>3, <2>4, <2>5, <3>1
    <3> QED BY <2>6, <3>2
  <2>8. ~(m < k)
    <3>1. SUFFICES ASSUME m < k PROVE FALSE
      OBVIOUS
    <3>2. k - 1 \in 1 .. Len(log) /\ new[k - 1] = log[k - 1] /\ new[k] = log[k - 1] /\ (k - 1) + 1 = k
      BY <1>3, <2>2, <2>3, <2>4, <2>5, <3>1
    <3> QED BY <2>6, <3>2
  <2>9. new[k] = row
    BY <1>3, <2>2, <2>3, <2>4, <2>7, <2>8
  <2> QED BY <1>3, <2>2, <2>4, <2>9 DEF new, log
<1> QED BY <1>4, <1>5

LEMMA EditsAreFound ==
    ASSUME ChainInv, E!TypeOK', E!NoneAssumption, [E!Next]_(E!vars)
    PROVE  E!EditShows
<1> SUFFICES ASSUME edits' = edits + 1, NEW c \in B \ touched
             PROVE  LET log == rows[c]
                        now == rows'[c]
                        first == E!VerifyCaseEvents(c)'.first IN
                    /\ \A i \in DOMAIN log : E!Hashed(log[i]) =>
                          /\ \/ \E event \in Events \ {log[i].event} : now = [log EXCEPT ![i].event = event]
                             \/ \E hash \in E!Stored(log) \ {log[i].prev} : now = [log EXCEPT ![i].prev = hash]
                             \/ \E hash \in E!Stored(log) \ {log[i].hash, None} :
                                    now = [log EXCEPT ![i].hash = hash]
                             => first = log[i].seq
                          /\ i < Len(log) /\ E!Hashed(log[i + 1]) =>
                                /\ now \in {E!RemoveAt(log, i), [log EXCEPT ![i].hash = None]}
                                   => first = log[i + 1].seq
                                /\ (\E j \in i + 1 .. Len(log) :
                                       now = E!Exchanged(log, i, j) /\ log[j].hash # log[i].hash)
                                   => first \in {log[i].seq, log[i + 1].seq}
                    /\ \A k \in DOMAIN now : now = E!InsertAt(log, k, now[k]) /\ E!Hashed(now[k])
                          => first = now[k].seq
  BY DEF E!EditShows
<1>1. PICK log : log = rows[c]
  OBVIOUS
<1>2. PICK now : now = rows'[c]
  OBVIOUS
<1>3. PICK first : first = E!VerifyCaseEvents(c)'.first
  OBVIOUS
<1>4. log \in Seq(RowN) /\ \A j \in DOMAIN log : E!Sound(c, log, j)
  BY <1>1, RowsAreN DEF ChainInv
<1>5. first = E!Walk(c, now)[Len(now)].first
  BY <1>2, <1>3 DEF E!VerifyCaseEvents
<1>6. \A j \in DOMAIN log : log[j] \in RowN
  BY <1>4
<1>7. E!Stored(log) \subseteq E!Hashes \cup {None}
  <2>1. E!Genesis \in E!Hashes
    BY DEF E!Genesis, E!Hashes
  <2> QED BY <1>6, <2>1 DEF E!Stored, RowN
<1>8. ASSUME NEW i \in DOMAIN log, E!Hashed(log[i]), NEW event \in Events \ {log[i].event},
             now = [log EXCEPT ![i].event = event]
      PROVE  first = log[i].seq
  <2> DEFINE row == [log[i] EXCEPT !.event = event]
  <2>1. /\ row \in RowN /\ E!Hashed(row) /\ row.seq = log[i].seq
        /\ row.event # log[i].event /\ row.hash = log[i].hash
    BY <1>6, <1>8 DEF RowN, E!Hashed
  <2>2. now = [log EXCEPT ![i] = row]
    BY <1>8
  <2> HIDE DEF row
  <2>3. E!Walk(c, [log EXCEPT ![i] = row])[Len([log EXCEPT ![i] = row])].first = log[i].seq
    BY <1>4, <1>8, <2>1, ChangeIsFound
  <2> QED BY Zenon, <1>5, <2>2, <2>3
<1>9. ASSUME NEW i \in DOMAIN log, E!Hashed(log[i]), NEW hash \in E!Stored(log) \ {log[i].prev},
             now = [log EXCEPT ![i].prev = hash]
      PROVE  first = log[i].seq
  <2> DEFINE row == [log[i] EXCEPT !.prev = hash]
  <2>1. row \in RowN /\ E!Hashed(row) /\ row.seq = log[i].seq /\ row.prev # log[i].prev
    BY <1>6, <1>7, <1>9 DEF RowN, E!Hashed
  <2>2. now = [log EXCEPT ![i] = row]
    BY <1>9
  <2> HIDE DEF row
  <2>3. E!Walk(c, [log EXCEPT ![i] = row])[Len([log EXCEPT ![i] = row])].first = log[i].seq
    BY <1>4, <1>9, <2>1, ChangeIsFound
  <2> QED BY Zenon, <1>5, <2>2, <2>3
<1>10. ASSUME NEW i \in DOMAIN log, E!Hashed(log[i]), NEW hash \in E!Stored(log) \ {log[i].hash, None},
              now = [log EXCEPT ![i].hash = hash]
       PROVE  first = log[i].seq
  <2> DEFINE row == [log[i] EXCEPT !.hash = hash]
  <2>1. /\ row \in RowN /\ E!Hashed(row) /\ row.seq = log[i].seq
        /\ row.hash # log[i].hash /\ row.event = log[i].event
    BY <1>6, <1>7, <1>10 DEF RowN, E!Hashed
  <2>2. now = [log EXCEPT ![i] = row]
    BY <1>10
  <2> HIDE DEF row
  <2>3. E!Walk(c, [log EXCEPT ![i] = row])[Len([log EXCEPT ![i] = row])].first = log[i].seq
    BY <1>4, <1>10, <2>1, ChangeIsFound
  <2> QED BY Zenon, <1>5, <2>2, <2>3
<1>11. ASSUME NEW i \in DOMAIN log, E!Hashed(log[i]), i < Len(log), E!Hashed(log[i + 1])
       PROVE  /\ now \in {E!RemoveAt(log, i), [log EXCEPT ![i].hash = None]} => first = log[i + 1].seq
              /\ (\E j \in i + 1 .. Len(log) :
                     now = E!Exchanged(log, i, j) /\ log[j].hash # log[i].hash)
                 => first \in {log[i].seq, log[i + 1].seq}
  <2>1. ASSUME now = E!RemoveAt(log, i) PROVE first = log[i + 1].seq
    BY <1>4, <1>5, <1>11, <2>1, RemovalIsFound
  <2>2. ASSUME now = [log EXCEPT ![i].hash = None] PROVE first = log[i + 1].seq
    BY <1>4, <1>5, <1>11, <2>2, UnhashedIsFound
  <2>3. ASSUME NEW j \in i + 1 .. Len(log), now = E!Exchanged(log, i, j), log[j].hash # log[i].hash
        PROVE  first \in {log[i].seq, log[i + 1].seq}
    BY <1>4, <1>5, <1>11, <2>3, ExchangeIsFound
  <2> QED BY <2>1, <2>2, <2>3
<1>12. ASSUME NEW k \in DOMAIN now, now = E!InsertAt(log, k, now[k]), E!Hashed(now[k])
       PROVE  first = now[k].seq
  <2>1. PICK x \in B : \E i \in DOMAIN rows[x] : E!Edit(x, i)
    BY AnEdit
  <2>2. PICK i \in DOMAIN rows[x] : E!Edit(x, i)
    BY <2>1
  <2>3. /\ k \in 1 .. Len(log) + 1 /\ now[k] \in RowN
        /\ \E cases : From(cases, now[k]) /\ c \notin cases
    BY <1>1, <1>2, <1>12, <2>2, GrownIsGiven
  <2>4. PICK cases : From(cases, now[k]) /\ c \notin cases
    BY <2>3
  <2>5. PICK row \in RowN : row = now[k]
    BY <2>3
  <2>6. now = E!InsertAt(log, k, row) /\ E!Hashed(row) /\ From(cases, row)
    BY <1>12, <2>4, <2>5
  <2> QED BY <1>4, <1>5, <2>3, <2>4, <2>5, <2>6, GivenIsFound
<1> QED BY <1>1, <1>2, <1>3, <1>8, <1>9, <1>10, <1>11, <1>12

LEMMA AuditIsRight == ASSUME ChainInv, E!NoneAssumption PROVE E!UntouchedVerifies /\ E!BreakIsLocated
<1>1. \A c \in B : rows[c] \in Seq(RowN)
  BY RowsAreN DEF ChainInv
<1>2. ASSUME NEW c \in B \ touched
      PROVE  LET log == rows[c] answer == E!VerifyCaseEvents(c) IN
             /\ answer.first = None
             /\ answer.verified = Cardinality({i \in DOMAIN log : E!Hashed(log[i])})
             /\ answer.verified + answer.unverifiable = Len(log)
  <2> DEFINE log == rows[c] v == E!Walk(c, log)[Len(log)]
  <2>1. \A i \in DOMAIN log : E!Sound(c, log, i)
    BY DEF ChainInv
  <2>2. /\ v.first = None <=> \A i \in DOMAIN log : E!Sound(c, log, i)
        /\ v.first = None => v.verified = Cardinality({i \in DOMAIN log : E!Hashed(log[i])})
        /\ v.verified \in Nat /\ v.unverifiable \in Nat
        /\ v.unverifiable + Cardinality({i \in DOMAIN log : E!Hashed(log[i])}) = Len(log)
    BY <1>1, VerifyKnows
  <2> HIDE DEF v, log
  <2>3. /\ v.first = None
        /\ v.verified = Cardinality({i \in DOMAIN log : E!Hashed(log[i])})
        /\ v.verified + v.unverifiable = Len(log)
    BY <2>1, <2>2
  <2> QED BY <2>3 DEF v, log, E!VerifyCaseEvents
<1>3. ASSUME NEW c \in B
      PROVE  LET log == rows[c]
                 answer == E!VerifyCaseEvents(c)
                 broken == {i \in DOMAIN log : ~E!Sound(c, log, i)} IN
             /\ answer.first = None <=> broken = {}
             /\ \A i \in broken :
                    (\A j \in broken : i <= j) =>
                        /\ answer.first = log[i].seq
                        /\ answer.verified = Cardinality({j \in 1 .. i - 1 : E!Hashed(log[j])})
  <2> DEFINE log == rows[c] v == E!Walk(c, log)[Len(log)]
             broken == {i \in DOMAIN log : ~E!Sound(c, log, i)}
  <2>1. /\ v.first = None <=> \A i \in DOMAIN log : E!Sound(c, log, i)
        /\ \A i \in DOMAIN log :
               ~E!Sound(c, log, i) /\ (\A j \in 1 .. i - 1 : E!Sound(c, log, j)) =>
                  /\ v.first = log[i].seq
                  /\ v.verified = Cardinality({j \in 1 .. i - 1 : E!Hashed(log[j])})
    BY <1>1, VerifyKnows
  <2>2. DOMAIN log = 1 .. Len(log) /\ Len(log) \in Nat
    BY <1>1
  <2> HIDE DEF v, log
  <2>3. ASSUME NEW i \in broken, \A j \in broken : i <= j
        PROVE  v.first = log[i].seq /\ v.verified = Cardinality({j \in 1 .. i - 1 : E!Hashed(log[j])})
    <3>1. \A j \in 1 .. i - 1 : E!Sound(c, log, j)
      BY <2>2, <2>3
    <3> QED BY <2>1, <3>1
  <2> QED BY <2>1, <2>3 DEF v, log, E!VerifyCaseEvents
<1> QED BY <1>2, <1>3, SameSizes DEF E!UntouchedVerifies, E!BreakIsLocated

LEMMA ChainInit == ASSUME E!Init, E!BoundsAssumption, E!NoneAssumption PROVE ChainInv
<1>1. rows \in [B -> Seq(E!Row)] /\ \A c \in B : rows[c] = <<>>
  BY DEF E!Init
<1> QED BY <1>1 DEF E!Init, ChainInv, E!TypeOK, E!BoundsAssumption

THEOREM ChainCorrect ==
    ASSUME E!BoundsAssumption, E!NoneAssumption
    PROVE  E!Spec => [](E!TypeOK /\ E!UntouchedVerifies /\ E!BreakIsLocated) /\ E!EditIsFound
<1>1. E!Init => ChainInv
  BY ChainInit
<1>2. ChainInv /\ [E!Next]_(E!vars) => ChainInv'
  BY ChainStep
<1>3. ChainInv => E!TypeOK /\ E!UntouchedVerifies /\ E!BreakIsLocated
  BY AuditIsRight DEF ChainInv
<1>4. ChainInv /\ [E!Next]_(E!vars) => E!EditShows \/ UNCHANGED E!vars
  <2>1. ChainInv' => E!TypeOK'
    BY DEF ChainInv
  <2> QED BY <1>2, <2>1, EditsAreFound
<1> QED BY <1>1, <1>2, <1>3, <1>4, PTL DEF E!Spec, E!EditIsFound

(* An untouched log verifies, a break is reported where the first unsound    *)
(* row is, and of a row with a hash it is found when its event or a hash is  *)
(* changed, and, where the next row has a hash, when it is gone, has lost its*)
(* hash or is exchanged, and a row of another case, where it came to be      *)
(* (db.py, verify_case_events), for logs of any length.                      *)
THEOREM AuditsCorrect == Spec => AuditsAreTrue
<1>1. E!BoundsAssumption /\ E!NoneAssumption
  BY PartsAssumption DEF PartsAssumption
<1>2. E!Spec => [](E!TypeOK /\ E!UntouchedVerifies /\ E!BreakIsLocated) /\ E!EditIsFound
  BY <1>1, ChainCorrect
<1>3. E!TypeOK /\ E!UntouchedVerifies /\ E!BreakIsLocated =>
        (part = "chain" => E!TypeOK /\ E!UntouchedVerifies /\ E!BreakIsLocated)
  OBVIOUS
<1> QED BY <1>2, <1>3, PartsOfSpec, PTL DEF AuditsAreTrue
================================================================================
