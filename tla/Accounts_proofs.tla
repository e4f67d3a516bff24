---------------------------- MODULE Accounts_proofs ----------------------------
(* Theorems about authentication, for every value of the constants: sign-in  *)
(* sessions, and the accounts with their codes and limits, two of the parts  *)
(* of the server in MCServerParts.                                           *)
EXTENDS MCServerParts, FiniteSetTheorems, SequenceTheorems, WellFoundedInduction, TLAPS

-----------------------------------------------------------------------------
(* Whichever part a behaviour is about, it is one of each of the two.        *)
LEMMA StepsOfAccounts ==
    ASSUME [Next]_vars
    PROVE  [S!Next]_(S!vars) /\ [O!Next]_(O!vars)
BY Zenon DEF Next, vars, sVars, oVars, S!vars, O!vars

LEMMA AccountsOfSpec == Spec => S!Spec /\ O!Spec
<1>1. Init => S!Init /\ O!Init
  BY DEF Init
<1>2. [Next]_vars => [S!Next]_(S!vars) /\ [O!Next]_(O!vars)
  BY StepsOfAccounts
<1> QED BY <1>1, <1>2, PTL DEF Spec, S!Spec, O!Spec

-----------------------------------------------------------------------------
(* The cardinalities of the instances are the ones of the theorems.          *)
LEMMA FiniteThreads ==
    ASSUME O!ThreadsAssumption
    PROVE  IsFiniteSet(A) /\ A # {}
BY Zenon DEF O!ThreadsAssumption, O!IsFiniteSet, IsFiniteSet

LEMMA SameSizes ==
    /\ \A set : O!Cardinality(set) = Cardinality(set)
    /\ \A set : S!Cardinality(set) = Cardinality(set)
BY Zenon DEF O!Cardinality, S!Cardinality, Cardinality

-----------------------------------------------------------------------------
(* Rows and requests. *)

(* Rows: a family is named for its first token, whoever has a successor is   *)
(* spent, and the two are of one family.                                     *)
RowsInv ==
    /\ tokens \in Seq(S!TokenType)
    /\ \A t \in 1 .. Len(tokens) :
           /\ tokens[t].family \in 1 .. t
           /\ tokens[t].parent # 0 =>
                  /\ tokens[t].parent \in 1 .. t - 1
                  /\ tokens[tokens[t].parent].revoked
                  /\ tokens[tokens[t].parent].family = tokens[t].family

(* A request: what it may be at, and what of the token in its hand it read.  *)
Refreshes(r) == req[r].op \in {"mount", "renew"}

StageOK(r) ==
    \/ /\ Refreshes(r)
       /\ req[r].at \in {"sent", "revoke", "revokeFamily", "issue", "ok", "refused"}
    \/ req[r].op = "login" /\ req[r].at \in {"sent", "issue", "ok", "refused"}
    \/ req[r].op = "logout" /\ req[r].at \in {"sent", "revokeOwn", "ok", "refused"}
    \/ req[r].op = "confirm" /\ req[r].at \in {"sent", "apply", "ok", "refused"}

HandOK(r) ==
    /\ req[r].op # "confirm" => req[r].token \in 0 .. Len(tokens)
    /\ req[r].op = "login" => req[r].user \in Users
    /\ req[r].op = "login" /\ req[r].at # "ok" => req[r].token = 0
    /\ req[r].op = "login" /\ req[r].at = "ok" => req[r].token # 0
    /\ req[r].op = "login" => req[r].family = 0
    /\ Refreshes(r) /\ req[r].at \in {"revoke", "revokeFamily", "issue"} =>
           /\ req[r].token # 0 /\ req[r].user \in Users
           /\ req[r].family = tokens[req[r].token].family
    /\ Refreshes(r) /\ req[r].at = "issue" => tokens[req[r].token].revoked
    /\ Refreshes(r) /\ req[r].at = "ok" => req[r].token # 0 /\ req[r].user \in Users

RequestsInv ==
    /\ req \in [B -> {S!Idle} \cup S!RequestType]
    /\ \A r \in S!Busy : StageOK(r) /\ HandOK(r)

PagesInv ==
    /\ links \in Seq(S!LinkType)
    /\ cookie \in [Browsers -> 0 .. Len(tokens)]
    /\ access \in [S!Pages -> {None, "fresh", "stale"}]
    /\ signed \in [S!Pages -> Users \cup {None}]
    /\ loading \in [S!Pages -> BOOLEAN]
    /\ excused \subseteq Browsers

(* A family is known to one browser, the one that signed in; and a token of  *)
(* a sign-in that has not been answered is known to nobody.                  *)
Holds(b, t) == t = cookie[b] \/ \E r \in S!FromBrowser(b) : req[r].op # "confirm" /\ t = req[r].token

OneHolder ==
    \A a, b \in Browsers : \A s, t \in 1 .. Len(tokens) :
        Holds(a, s) /\ Holds(b, t) /\ tokens[s].family = tokens[t].family => a = b

Others(r) ==
    {0} \cup {cookie[b] : b \in Browsers}
        \cup {req[q].token : q \in {x \in S!Busy \ {r} : req[x].op # "confirm"}}

NewSignIn(r) ==
    req[r].op = "login" /\ req[r].at = "ok" =>
        /\ \A t \in 1 .. Len(tokens) :
               tokens[t].family = tokens[req[r].token].family => t = req[r].token
        /\ req[r].token \notin Others(r)

HoldersInv == OneHolder /\ \A r \in S!Busy : NewSignIn(r)

(* What an undisturbed browser has: its cookie is the live token of the      *)
(* family, unless its one request has revoked it and holds the next.         *)
Live(f) == {t \in 1 .. Len(tokens) : tokens[t].family = f /\ ~tokens[t].revoked}
Usable(t) == t # 0 => Live(tokens[t].family) = {t}

Replaces(r) ==
    \/ Refreshes(r) /\ req[r].at \in {"issue", "ok"}
    \/ req[r].op \in {"login", "logout"} /\ req[r].at = "ok"

Undisputed(b, r) ==
    /\ ~req[r].orphan
    /\ req[r].at # "revokeFamily"
    /\ (Refreshes(r) \/ req[r].op = "logout") /\ req[r].at # "ok" => req[r].token = cookie[b]
    /\ Refreshes(r) /\ req[r].at = "issue" => Live(req[r].family) = {}
    /\ (Refreshes(r) \/ req[r].op = "login") /\ req[r].at = "ok" => Usable(req[r].token)
    /\ ~Replaces(r) => Usable(cookie[b])

Kept(b) ==
    /\ \A q, r \in S!FromBrowser(b) : q = r
    /\ \A r \in S!FromBrowser(b) : Undisputed(b, r)
    /\ S!FromBrowser(b) = {} => Usable(cookie[b])

KeptInv == \A b \in Browsers \ excused : Kept(b)

SessionsInv == RowsInv /\ RequestsInv /\ PagesInv /\ HoldersInv /\ KeptInv

-----------------------------------------------------------------------------
(* What follows of one state. *)

LEMMA BusyFacts ==
    ASSUME RequestsInv
    PROVE  /\ \A r \in B : r \notin S!Busy => req[r] = S!Idle
           /\ \A r \in S!Busy : /\ r \in B /\ req[r] \in S!RequestType /\ req[r].at # "idle"
                                /\ req[r].page \in S!Pages /\ S!Jar(req[r].page) \in Browsers
                                /\ StageOK(r) /\ HandOK(r)
<1>1. \A r \in B : r \notin S!Busy => req[r] = S!Idle
  BY DEF RequestsInv, S!Busy, S!Free, S!RequestType
<1>2. ASSUME NEW r \in S!Busy
      PROVE  r \in B /\ req[r] \in S!RequestType /\ req[r].at # "idle"
  BY DEF RequestsInv, S!Busy, S!Free, S!Idle
<1>3. \A p \in S!Pages : S!Jar(p) \in Browsers
  BY DEF S!Pages, S!Jar
<1>4. ASSUME NEW r \in S!Busy PROVE req[r].page \in S!Pages
  BY <1>2 DEF S!RequestType
<1> QED BY <1>1, <1>2, <1>3, <1>4 DEF RequestsInv

LEMMA RowFacts ==
    ASSUME RowsInv
    PROVE  /\ Len(tokens) \in Nat /\ DOMAIN tokens = 1 .. Len(tokens)
           /\ \A t \in 1 .. Len(tokens) :
                  /\ tokens[t] \in S!TokenType /\ tokens[t].user \in Users
                  /\ tokens[t].family \in 1 .. t /\ tokens[t].family \in Nat
                  /\ tokens[t].revoked \in BOOLEAN
<1>1. /\ Len(tokens) \in Nat /\ DOMAIN tokens = 1 .. Len(tokens)
  BY LenProperties DEF RowsInv
<1>2. \A t \in 1 .. Len(tokens) : tokens[t] \in S!TokenType
  BY ElementOfSeq DEF RowsInv
<1> QED BY <1>1, <1>2 DEF RowsInv, S!TokenType

-----------------------------------------------------------------------------
(* Steps on the rows: some are revoked, or one is added. *)

SameRows ==
    /\ Len(tokens') = Len(tokens)
    /\ \A t \in 1 .. Len(tokens) :
           /\ tokens'[t].family = tokens[t].family
           /\ tokens'[t].parent = tokens[t].parent
           /\ tokens'[t].user = tokens[t].user
           /\ tokens[t].revoked => tokens'[t].revoked

LEMMA RevokedFacts ==
    ASSUME RowsInv, NEW New, tokens' = S!Revoked(New)
    PROVE  /\ RowsInv' /\ SameRows
           /\ \A t \in 1 .. Len(tokens) : tokens'[t].revoked <=> tokens[t].revoked \/ t \in New
<1> DEFINE row(t) == IF t \in New THEN [tokens[t] EXCEPT !.revoked = TRUE] ELSE tokens[t]
<1>1. /\ Len(tokens) \in Nat
      /\ tokens' = [t \in 1 .. Len(tokens) |-> row(t)]
  BY RowFacts DEF S!Revoked
<1>2. ASSUME NEW t \in 1 .. Len(tokens)
      PROVE  /\ row(t) \in S!TokenType
             /\ row(t).family = tokens[t].family /\ row(t).parent = tokens[t].parent
             /\ row(t).user = tokens[t].user
             /\ row(t).revoked <=> tokens[t].revoked \/ t \in New
  BY RowFacts DEF S!TokenType
<1> HIDE DEF row
<1>3. tokens' \in Seq(S!TokenType)
  BY <1>1, <1>2, IsASeq
<1>4. Len(tokens') = Len(tokens)
  BY <1>1, <1>3, LenProperties
<1>5. \A t \in 1 .. Len(tokens) : tokens'[t] = row(t)
  BY <1>1
<1>6. SameRows
  BY <1>2, <1>4, <1>5 DEF SameRows
<1>7. ASSUME NEW t \in 1 .. Len(tokens), tokens[t].parent # 0
      PROVE  tokens[t].parent \in 1 .. Len(tokens)
  <2>1. tokens[t].parent \in 1 .. t - 1
    BY <1>7 DEF RowsInv
  <2> QED BY <1>1, <2>1
<1>8. RowsInv'
  BY <1>2, <1>3, <1>4, <1>5, <1>7 DEF RowsInv
<1> QED BY <1>2, <1>5, <1>6, <1>8

LEMMA SameTokens ==
    ASSUME RowsInv, UNCHANGED tokens
    PROVE  RowsInv' /\ SameRows
BY DEF RowsInv, SameRows

(* The row IssueSession adds. *)
Issued(r) ==
    LET n == Len(tokens) + 1 IN
    /\ Len(tokens') = n
    /\ \A t \in 1 .. Len(tokens) : tokens'[t] = tokens[t]
    /\ ~tokens'[n].revoked
    /\ tokens'[n].family = IF req[r].op = "login" THEN n ELSE req[r].family
    /\ req' = [req EXCEPT ![r].at = "ok", ![r].token = n]
    /\ Refreshes(r) \/ req[r].op = "login"
    /\ req[r].at = "issue"

LEMMA IssueFacts ==
    ASSUME RowsInv, RequestsInv, NEW r \in B, S!IssueSession(r)
    PROVE  RowsInv' /\ Issued(r) /\ r \in S!Busy
<1> DEFINE n == Len(tokens) + 1
           heir == req[r].op # "login"
           row == [user |-> req[r].user, revoked |-> FALSE,
                   family |-> IF heir THEN req[r].family ELSE n,
                   parent |-> IF heir THEN req[r].token ELSE 0]
<1>1. /\ tokens' = Append(tokens, row)
      /\ req' = [req EXCEPT ![r].at = "ok", ![r].token = n]
      /\ Refreshes(r) \/ req[r].op = "login"
      /\ req[r].at = "issue"
  BY DEF S!IssueSession, S!At, Refreshes
<1>2. r \in S!Busy /\ HandOK(r)
  BY <1>1, BusyFacts DEF S!Busy, S!Free
<1>3. Len(tokens) \in Nat /\ req[r].token \in 0 .. Len(tokens) /\ req[r].user \in Users
  BY <1>1, <1>2, RowFacts DEF HandOK, Refreshes
<1>4. heir => /\ req[r].token \in 1 .. Len(tokens)
              /\ tokens[req[r].token].revoked
              /\ req[r].family = tokens[req[r].token].family
              /\ req[r].family \in 1 .. Len(tokens)
  <2>1. SUFFICES ASSUME heir
                 PROVE  /\ req[r].token \in 1 .. Len(tokens)
                        /\ tokens[req[r].token].revoked
                        /\ req[r].family = tokens[req[r].token].family
                        /\ req[r].family \in 1 .. Len(tokens)
    OBVIOUS
  <2>2. req[r].token # 0 /\ tokens[req[r].token].revoked /\ req[r].family = tokens[req[r].token].family
    BY <1>1, <1>2, <2>1 DEF HandOK
  <2>3. req[r].token \in 1 .. Len(tokens)
    BY <1>3, <2>2
  <2>4. tokens[req[r].token].family \in 1 .. req[r].token
    BY <2>3, RowFacts
  <2> QED BY <1>3, <2>2, <2>3, <2>4
<1>5. row \in S!TokenType
  BY <1>3, <1>4 DEF S!TokenType
<1>6. /\ row.family = (IF heir THEN req[r].family ELSE n)
      /\ row.parent = (IF heir THEN req[r].token ELSE 0)
      /\ ~row.revoked
  OBVIOUS
<1> HIDE DEF row
<1>7. /\ tokens' \in Seq(S!TokenType) /\ Len(tokens') = n
      /\ \A t \in 1 .. Len(tokens) : tokens'[t] = tokens[t]
      /\ tokens'[n] = row
  BY <1>1, <1>5, AppendProperties DEF RowsInv
<1>8. Issued(r)
  BY <1>1, <1>6, <1>7 DEF Issued
<1>9. RowsInv'
  <2>1. ASSUME NEW t \in 1 .. Len(tokens)
        PROVE  /\ tokens'[t].family \in 1 .. t
               /\ tokens'[t].parent # 0 =>
                      /\ tokens'[t].parent \in 1 .. t - 1
                      /\ tokens'[tokens'[t].parent].revoked
                      /\ tokens'[tokens'[t].parent].family = tokens'[t].family
    <3>1. tokens[t].parent # 0 => tokens[t].parent \in 1 .. Len(tokens)
      BY <1>3 DEF RowsInv
    <3> QED BY <1>7, <3>1 DEF RowsInv
  <2>2. /\ tokens'[n].family \in 1 .. n
        /\ tokens'[n].parent # 0 =>
               /\ tokens'[n].parent \in 1 .. n - 1
               /\ tokens'[tokens'[n].parent].revoked
               /\ tokens'[tokens'[n].parent].family = tokens'[n].family
    BY <1>3, <1>4, <1>6, <1>7
  <2>3. \A t \in 1 .. n : t \in 1 .. Len(tokens) \/ t = n
    BY <1>3
  <2> QED BY <1>7, <2>1, <2>2, <2>3 DEF RowsInv
<1> QED BY <1>2, <1>8, <1>9

RowsKept ==
    /\ Len(tokens') \in Nat /\ Len(tokens) <= Len(tokens')
    /\ \A t \in 1 .. Len(tokens) :
           /\ tokens'[t].family = tokens[t].family
           /\ tokens[t].revoked => tokens'[t].revoked

LEMMA KeptBySame ==
    ASSUME RowsInv, SameRows
    PROVE  RowsKept
BY RowFacts DEF SameRows, RowsKept

LEMMA KeptByIssued ==
    ASSUME RowsInv, NEW r, Issued(r)
    PROVE  RowsKept
BY RowFacts DEF Issued, RowsKept

-----------------------------------------------------------------------------
(* Steps on the requests: one moves on, one ends, or one begins. *)

Moves(r) ==
    /\ r \in S!Busy
    /\ req' \in [B -> {S!Idle} \cup S!RequestType]
    /\ \A q \in B \ {r} : req'[q] = req[q]
    /\ req'[r] \in S!RequestType
    /\ req'[r].op = req[r].op /\ req'[r].page = req[r].page /\ req'[r].orphan = req[r].orphan

Ends(r) ==
    /\ r \in S!Busy
    /\ req' = [req EXCEPT ![r] = S!Idle]

LEMMA MoveFacts ==
    ASSUME RequestsInv, NEW r, Moves(r)
    PROVE  /\ S!Busy' = S!Busy
           /\ \A b : S!FromBrowser(b)' = S!FromBrowser(b)
<1>1. \A q \in B : S!Free(q)' <=> S!Free(q)
  BY BusyFacts DEF Moves, S!Free, S!Busy, S!RequestType
<1>2. S!Busy' = S!Busy
  BY <1>1 DEF S!Busy
<1>3. \A q \in S!Busy : req'[q].page = req[q].page
  BY DEF Moves, S!Busy
<1> QED BY <1>2, <1>3 DEF S!FromBrowser

LEMMA EndFacts ==
    ASSUME RequestsInv, NEW r, Ends(r)
    PROVE  /\ S!Busy' = S!Busy \ {r}
           /\ \A q \in S!Busy' : req'[q] = req[q]
           /\ \A b : S!FromBrowser(b)' = S!FromBrowser(b) \ {r}
           /\ req' \in [B -> {S!Idle} \cup S!RequestType]
<1>1. /\ r \in B /\ req' \in [B -> {S!Idle} \cup S!RequestType]
      /\ req'[r] = S!Idle /\ \A q \in B \ {r} : req'[q] = req[q]
  BY DEF Ends, RequestsInv, S!Busy
<1>2. \A q \in B : S!Free(q)' <=> S!Free(q) \/ q = r
  BY <1>1 DEF S!Free, S!Idle
<1>3. S!Busy' = S!Busy \ {r}
  BY <1>2 DEF S!Busy
<1>4. \A q \in S!Busy' : req'[q] = req[q]
  BY <1>1, <1>3 DEF S!Busy
<1> QED BY <1>1, <1>3, <1>4 DEF S!FromBrowser

LEMMA RequestStays ==
    ASSUME RowsInv, RequestsInv, RowsKept, NEW q \in S!Busy, UNCHANGED req[q]
    PROVE  StageOK(q)' /\ HandOK(q)'
<1>1. StageOK(q) /\ HandOK(q) /\ req[q] \in S!RequestType
  BY BusyFacts
<1>2. StageOK(q)'
  BY <1>1 DEF StageOK, Refreshes
<1>3. HandOK(q)'
  <2>1. Len(tokens) \in Nat
    BY RowFacts
  <2>2. Refreshes(q) /\ req[q].at \in {"revoke", "revokeFamily", "issue"} =>
            req[q].token \in 1 .. Len(tokens)
    BY <1>1, <2>1 DEF HandOK, Refreshes
  <2>3. req[q].op # "confirm" => req[q].token \in 0 .. Len(tokens')
    BY <1>1, <2>1 DEF HandOK, RowsKept
  <2> QED BY <1>1, <2>2, <2>3 DEF HandOK, RowsKept, Refreshes
<1> QED BY <1>2, <1>3

LEMMA MoveRequests ==
    ASSUME RowsInv, RequestsInv, RowsKept, NEW r, Moves(r), StageOK(r)', HandOK(r)'
    PROVE  RequestsInv'
<1>1. \A q \in S!Busy \ {r} : StageOK(q)' /\ HandOK(q)'
  <2>1. SUFFICES ASSUME NEW q \in S!Busy \ {r} PROVE StageOK(q)' /\ HandOK(q)'
    OBVIOUS
  <2>2. UNCHANGED req[q]
    BY DEF Moves, S!Busy
  <2> QED BY <2>1, <2>2, RequestStays
<1> QED BY <1>1, MoveFacts DEF RequestsInv, Moves

LEMMA EndRequests ==
    ASSUME RowsInv, RequestsInv, RowsKept, NEW r, Ends(r)
    PROVE  RequestsInv'
<1>1. \A q \in S!Busy' : StageOK(q)' /\ HandOK(q)'
  <2>1. SUFFICES ASSUME NEW q \in S!Busy' PROVE StageOK(q)' /\ HandOK(q)'
    OBVIOUS
  <2>2. q \in S!Busy /\ UNCHANGED req[q]
    BY EndFacts
  <2> QED BY <2>1, <2>2, RequestStays
<1> QED BY <1>1, EndFacts DEF RequestsInv

(* What each step of a handler does to its request. *)
LEMMA GotoFacts ==
    ASSUME RequestsInv, NEW r \in S!Busy, NEW at, S!Goto(r, at),
           at \in {"sent", "revoke", "revokeFamily", "issue", "revokeOwn", "apply", "ok", "refused"}
    PROVE  /\ Moves(r) /\ req'[r].at = at
           /\ req'[r].token = req[r].token /\ req'[r].user = req[r].user
           /\ req'[r].family = req[r].family
BY BusyFacts DEF S!Goto, Moves, RequestsInv, S!RequestType

LEMMA ReadTokenFacts ==
    ASSUME RowsInv, RequestsInv, NEW r \in B, S!ReadToken(r)
    PROVE  /\ Moves(r) /\ RequestsInv' /\ Refreshes(r) /\ req[r].at = "sent"
           /\ req'[r].token = req[r].token
           /\ req'[r].at \in S!Verdicts(req[r].token)
           /\ req[r].token # 0 => req'[r].family = tokens[req[r].token].family
<1> DEFINE t == req[r].token
<1>1. /\ Refreshes(r) /\ req[r].at = "sent" /\ UNCHANGED tokens
  BY DEF S!ReadToken, S!At, Refreshes
<1>2. r \in S!Busy /\ HandOK(r) /\ req[r] \in S!RequestType
  BY <1>1, BusyFacts DEF S!Busy, S!Free
<1>3. t \in 0 .. Len(tokens)
  BY <1>1, <1>2 DEF HandOK, Refreshes
<1>4. PICK at \in S!Verdicts(t) :
          req' = [req EXCEPT ![r].at = at,
                             ![r].user = IF t = 0 THEN None ELSE tokens[t].user,
                             ![r].family = IF t = 0 THEN 0 ELSE tokens[t].family]
  BY DEF S!ReadToken
<1>5. t # 0 => t \in 1 .. Len(tokens) /\ tokens[t].user \in Users /\ tokens[t].family \in Nat
  BY <1>3, RowFacts
<1>6. /\ at \in {"refused", "revoke", "revokeFamily"}
      /\ at # "refused" => t # 0
  BY DEF S!Verdicts
<1>7. /\ Moves(r) /\ req'[r].at = at /\ req'[r].token = t
      /\ t # 0 => req'[r].user = tokens[t].user /\ req'[r].family = tokens[t].family
  BY <1>2, <1>4, <1>5, <1>6 DEF Moves, RequestsInv, S!RequestType
<1>8. StageOK(r)' /\ HandOK(r)'
  BY <1>1, <1>2, <1>3, <1>5, <1>6, <1>7 DEF StageOK, HandOK, Refreshes, Moves
<1> QED BY <1>1, <1>7, <1>8, MoveRequests, SameTokens, KeptBySame

LEMMA IssueRequests ==
    ASSUME RowsInv, RequestsInv, NEW r \in B, S!IssueSession(r)
    PROVE  /\ Moves(r) /\ RequestsInv'
           /\ req'[r].at = "ok" /\ req'[r].token = Len(tokens) + 1
<1>1. Issued(r) /\ r \in S!Busy /\ HandOK(r) /\ req[r] \in S!RequestType /\ Len(tokens) \in Nat
  BY IssueFacts, BusyFacts, RowFacts
<1>2. /\ Moves(r) /\ req'[r].at = "ok" /\ req'[r].token = Len(tokens) + 1
      /\ req'[r].user = req[r].user /\ req'[r].family = req[r].family
  <2> DEFINE n == Len(tokens) + 1
  <2>1. n \in Nat /\ req' = [req EXCEPT ![r].at = "ok", ![r].token = n]
    BY <1>1 DEF Issued
  <2> HIDE DEF n
  <2>2. /\ Moves(r) /\ req'[r].at = "ok" /\ req'[r].token = n
        /\ req'[r].user = req[r].user /\ req'[r].family = req[r].family
    BY <1>1, <2>1 DEF Moves, RequestsInv, S!RequestType
  <2> QED BY <2>2 DEF n
<1>3. StageOK(r)' /\ HandOK(r)'
  BY <1>1, <1>2 DEF StageOK, HandOK, Refreshes, Moves, Issued
<1> QED BY <1>1, <1>2, <1>3, MoveRequests, KeptByIssued

-----------------------------------------------------------------------------
(* Every step keeps rows, requests and pages in shape. *)

ShapeInv == RowsInv /\ RequestsInv /\ PagesInv

LEMMA PagesStay ==
    ASSUME RowsInv, PagesInv, RowsKept, UNCHANGED <<links, cookie, access, signed, loading>>,
           excused' \subseteq Browsers
    PROVE  PagesInv'
<1>1. \A b \in Browsers : cookie[b] \in 0 .. Len(tokens')
  BY RowFacts DEF PagesInv, RowsKept
<1> QED BY <1>1 DEF PagesInv

(* The steps of a handler that write no row. *)
LEMMA QuietServe ==
    ASSUME RowsInv, RequestsInv, NEW r \in B,
           S!CheckPassword(r) \/ S!ReadOwnToken(r) \/ S!ReadLink(r)
    PROVE  /\ Moves(r) /\ RequestsInv' /\ req[r].at = "sent"
           /\ req'[r].token = req[r].token
           /\ ~Refreshes(r)
           /\ req[r].op = "login" => req'[r].at \in {"issue", "refused"}
           /\ req[r].op \in {"logout", "confirm", "login"}
           /\ UNCHANGED <<tokens, links, cookie, access, signed, loading, excused>>
<1>1. PICK at \in {"issue", "refused", "revokeOwn", "ok", "apply"} :
          /\ S!Goto(r, at)
          /\ \/ req[r].op = "login" /\ at \in {"issue", "refused"}
             \/ req[r].op = "logout" /\ at \in {"refused", "revokeOwn", "ok"}
             \/ req[r].op = "confirm" /\ at \in {"refused", "apply"}
  <2>1. CASE S!CheckPassword(r)
    BY <2>1 DEF S!CheckPassword, S!At
  <2>2. CASE S!ReadLink(r)
    BY <2>2 DEF S!ReadLink, S!At
  <2>3. CASE S!ReadOwnToken(r)
    BY <2>3 DEF S!ReadOwnToken, S!At
  <2> QED BY <2>1, <2>2, <2>3
<1>2. /\ req[r].at = "sent" /\ ~Refreshes(r)
      /\ UNCHANGED <<tokens, links, cookie, access, signed, loading, excused>>
  BY DEF S!CheckPassword, S!ReadOwnToken, S!ReadLink, S!At, S!ServerOnly, Refreshes
<1>3. r \in S!Busy /\ HandOK(r)
  BY <1>2, BusyFacts DEF S!Busy, S!Free
<1>4. /\ Moves(r) /\ req'[r].at = at
      /\ req'[r].token = req[r].token /\ req'[r].user = req[r].user /\ req'[r].family = req[r].family
  BY <1>1, <1>3, GotoFacts
<1>5. StageOK(r)' /\ HandOK(r)'
  BY <1>1, <1>2, <1>3, <1>4 DEF StageOK, HandOK, Refreshes, Moves
<1> QED BY <1>1, <1>2, <1>4, <1>5, MoveRequests, SameTokens, KeptBySame

(* The steps that revoke: which rows, and what becomes of the request.       *)
Revokes(r, New, at) ==
    /\ r \in S!Busy /\ HandOK(r)
    /\ tokens' = S!Revoked(New)
    /\ S!Goto(r, at)
    /\ UNCHANGED <<cookie, access, signed, loading>>

LEMMA RevokesRequest ==
    ASSUME RowsInv, RequestsInv, NEW r, NEW New, NEW at,
           Revokes(r, New, at),
           \/ Refreshes(r) /\ req[r].at = "revokeFamily" /\ at = "refused"
           \/ Refreshes(r) /\ req[r].at = "revoke" /\ at = "issue" /\ New = {req[r].token}
           \/ req[r].op = "logout" /\ req[r].at = "revokeOwn" /\ at = "ok"
           \/ req[r].op = "confirm" /\ req[r].at = "apply" /\ at = "ok"
    PROVE  /\ Moves(r) /\ RequestsInv' /\ RowsInv' /\ SameRows /\ RowsKept
           /\ req'[r].at = at /\ req'[r].token = req[r].token
           /\ req'[r].family = req[r].family
           /\ \A t \in 1 .. Len(tokens) : tokens'[t].revoked <=> tokens[t].revoked \/ t \in New
<1>1. /\ RowsInv' /\ SameRows /\ RowsKept
      /\ \A t \in 1 .. Len(tokens) : tokens'[t].revoked <=> tokens[t].revoked \/ t \in New
  BY RevokedFacts, KeptBySame DEF Revokes
<1>2. /\ Moves(r) /\ req'[r].at = at
      /\ req'[r].token = req[r].token /\ req'[r].user = req[r].user /\ req'[r].family = req[r].family
  BY GotoFacts DEF Revokes
<1>3. HandOK(r) /\ Len(tokens) \in Nat /\ Len(tokens') = Len(tokens)
  BY <1>1, RowFacts DEF Revokes, SameRows
<1>4. Refreshes(r) /\ req[r].at = "revoke" => req[r].token \in 1 .. Len(tokens)
  BY <1>3 DEF HandOK, Refreshes
<1>5. StageOK(r)' /\ HandOK(r)'
  BY <1>1, <1>2, <1>3, <1>4 DEF StageOK, HandOK, Refreshes, Moves, SameRows
<1> QED BY <1>1, <1>2, <1>5, MoveRequests

LEMMA RevokeActions ==
    ASSUME RequestsInv, NEW r \in B
    PROVE  /\ S!RevokeFamily(r) =>
                  /\ Revokes(r, S!Family(req[r].family), "refused")
                  /\ Refreshes(r) /\ req[r].at = "revokeFamily"
                  /\ UNCHANGED <<links, excused>>
           /\ S!RevokeToken(r) =>
                  /\ Revokes(r, {req[r].token}, "issue")
                  /\ Refreshes(r) /\ req[r].at = "revoke"
                  /\ UNCHANGED <<links, excused>>
           /\ S!RevokeOwnToken(r) =>
                  /\ Revokes(r, {req[r].token}, "ok")
                  /\ req[r].op = "logout" /\ req[r].at = "revokeOwn"
                  /\ UNCHANGED <<links, excused>>
           /\ S!ApplyReset(r) =>
                  /\ Revokes(r, {t \in DOMAIN tokens : tokens[t].user = links[req[r].token].user}, "ok")
                  /\ req[r].op = "confirm" /\ req[r].at = "apply"
<1>1. \A at : S!At(r, {"mount", "renew"}, at) => Refreshes(r) /\ req[r].at = at
  BY DEF S!At, Refreshes
<1>2. req[r].at # "idle" => r \in S!Busy /\ HandOK(r)
  BY BusyFacts DEF S!Busy, S!Free
<1> QED BY <1>1, <1>2 DEF S!RevokeFamily, S!RevokeToken, S!RevokeOwnToken, S!ApplyReset, S!At, S!ServerOnly, Revokes

LEMMA ServeShape ==
    ASSUME ShapeInv, NEW r \in B, S!Serve(r)
    PROVE  ShapeInv' /\ Moves(r) /\ RowsKept /\ UNCHANGED cookie
<1>1. CASE S!ReadToken(r)
  BY <1>1, ReadTokenFacts, SameTokens, KeptBySame, PagesStay DEF S!ReadToken, S!ServerOnly, ShapeInv, PagesInv
<1>2. CASE S!CheckPassword(r) \/ S!ReadOwnToken(r) \/ S!ReadLink(r)
  BY <1>2, QuietServe, SameTokens, KeptBySame, PagesStay DEF ShapeInv, PagesInv
<1>3. CASE S!IssueSession(r)
  <2>1. UNCHANGED <<links, cookie, access, signed, loading, excused>>
    BY <1>3 DEF S!IssueSession, S!ServerOnly
  <2> QED BY <1>3, <2>1, IssueFacts, IssueRequests, KeptByIssued, PagesStay DEF ShapeInv, PagesInv
<1>4. CASE S!RevokeFamily(r) \/ S!RevokeToken(r) \/ S!RevokeOwnToken(r)
  <2>1. PICK New, at :
            /\ Revokes(r, New, at) /\ UNCHANGED <<links, excused>>
            /\ \/ Refreshes(r) /\ req[r].at = "revokeFamily" /\ at = "refused"
               \/ Refreshes(r) /\ req[r].at = "revoke" /\ at = "issue" /\ New = {req[r].token}
               \/ req[r].op = "logout" /\ req[r].at = "revokeOwn" /\ at = "ok"
    BY <1>4, RevokeActions DEF ShapeInv
  <2> QED BY <2>1, RevokesRequest, PagesStay DEF ShapeInv, PagesInv, Revokes
<1>5. CASE S!ApplyReset(r)
  <2> DEFINE k == req[r].token
             own == {t \in DOMAIN tokens : tokens[t].user = links[k].user}
  <2>1. Revokes(r, own, "ok") /\ req[r].op = "confirm" /\ req[r].at = "apply"
    BY <1>5, RevokeActions DEF ShapeInv
  <2>2. /\ RequestsInv' /\ RowsInv' /\ RowsKept /\ Moves(r)
    BY <2>1, RevokesRequest DEF ShapeInv
  <2>3. links' = [links EXCEPT ![k].consumed = TRUE] /\ excused' \subseteq Browsers
    BY <1>5 DEF S!ApplyReset, ShapeInv, PagesInv
  <2>4. links' \in Seq(S!LinkType)
    <3>1. links \in Seq(S!LinkType) /\ DOMAIN links = 1 .. Len(links)
      BY LenProperties DEF ShapeInv, PagesInv
    <3>2. CASE k \in 1 .. Len(links)
      <4>1. links[k] \in S!LinkType
        BY <3>1, <3>2, ElementOfSeq
      <4>2. [links[k] EXCEPT !.consumed = TRUE] \in S!LinkType
        BY <4>1 DEF S!LinkType
      <4>3. links' = [links EXCEPT ![k] = [links[k] EXCEPT !.consumed = TRUE]]
        BY <2>3
      <4> QED BY <3>1, <3>2, <4>2, <4>3, ExceptSeq
    <3>3. CASE k \notin 1 .. Len(links)
      <4>1. links' = links
        <5>1. links \in [1 .. Len(links) -> S!LinkType]
          BY <3>1, LenProperties
        <5> QED BY <2>3, <3>3, <5>1
      <4> QED BY <3>1, <4>1
    <3> QED BY <3>2, <3>3
  <2>5. \A b \in Browsers : cookie[b] \in 0 .. Len(tokens')
    BY <2>2, RowFacts DEF ShapeInv, PagesInv, RowsKept
  <2> QED BY <2>1, <2>2, <2>3, <2>4, <2>5 DEF ShapeInv, PagesInv, Revokes
<1> QED BY <1>1, <1>2, <1>3, <1>4, <1>5 DEF S!Serve

(* An answer that arrives or does not: what becomes of the cookie.           *)
Delivers(r) ==
    /\ Ends(r)
    /\ UNCHANGED <<tokens, links>>
    /\ cookie' \in [Browsers -> 0 .. Len(tokens)]
    /\ \A b \in Browsers : b # S!Jar(req[r].page) => cookie'[b] = cookie[b]
    /\ \/ cookie'[S!Jar(req[r].page)] = cookie[S!Jar(req[r].page)]
       \/ req[r].at = "ok" /\ cookie'[S!Jar(req[r].page)] = S!NewCookie(r)

LEMMA CookieFacts ==
    ASSUME ShapeInv, NEW r \in S!Busy, req[r].at = "ok"
    PROVE  /\ S!NewCookie(r) \in 0 .. Len(tokens)
           /\ \/ S!NewCookie(r) = req[r].token /\ (Refreshes(r) \/ req[r].op = "login")
              \/ S!NewCookie(r) = 0 /\ req[r].op = "logout"
              \/ S!NewCookie(r) = cookie[S!Jar(req[r].page)] /\ req[r].op = "confirm"
<1>1. StageOK(r) /\ HandOK(r) /\ S!Jar(req[r].page) \in Browsers
  BY BusyFacts DEF ShapeInv
<1>2. Len(tokens) \in Nat
  BY RowFacts DEF ShapeInv
<1>3. cookie[S!Jar(req[r].page)] \in 0 .. Len(tokens) /\ 0 \in 0 .. Len(tokens)
  BY <1>1, <1>2 DEF ShapeInv, PagesInv
<1>4. CASE Refreshes(r) \/ req[r].op = "login"
  <2>1. S!NewCookie(r) = req[r].token
    BY <1>4 DEF S!NewCookie, Refreshes
  <2>2. req[r].token \in 0 .. Len(tokens)
    BY <1>1, <1>4 DEF HandOK, Refreshes
  <2> QED BY <1>4, <2>1, <2>2
<1>5. CASE req[r].op = "logout"
  BY <1>3, <1>5 DEF S!NewCookie
<1>6. CASE req[r].op = "confirm"
  BY <1>3, <1>6 DEF S!NewCookie
<1> QED BY <1>1, <1>4, <1>5, <1>6 DEF StageOK

LEMMA ReactShape ==
    ASSUME ShapeInv, NEW r \in S!Busy, NEW ok \in BOOLEAN, S!React(r, ok), ok => req[r].at = "ok"
    PROVE  /\ access' \in [S!Pages -> {None, "fresh", "stale"}]
           /\ signed' \in [S!Pages -> Users \cup {None}]
           /\ loading' \in [S!Pages -> BOOLEAN]
<1>1. /\ req[r].page \in S!Pages
      /\ ok /\ req[r].op \in {"mount", "login"} => req[r].user \in Users
      /\ req[r].op \in {"mount", "renew", "login", "logout", "confirm"}
  BY BusyFacts DEF ShapeInv, HandOK, StageOK, Refreshes
<1>2. /\ access \in [S!Pages -> {None, "fresh", "stale"}]
      /\ signed \in [S!Pages -> Users \cup {None}]
      /\ loading \in [S!Pages -> BOOLEAN]
  BY DEF ShapeInv, PagesInv
<1> DEFINE p == req[r].page
<1>3. \/ \E a \in {None, "fresh"}, u \in Users \cup {None} : S!SetPage(p, a, u)
      \/ S!Keep(p)
      \/ /\ \E a \in {None, "fresh"} : access' = [access EXCEPT ![p] = a]
         /\ UNCHANGED <<signed, loading>>
  <2>1. CASE req[r].op = "mount"
    BY <1>1, <2>1 DEF S!React
  <2>2. CASE req[r].op = "renew"
    BY <2>2 DEF S!React
  <2>3. CASE req[r].op = "login"
    BY <1>1, <2>3 DEF S!React
  <2>4. CASE req[r].op = "logout"
    BY <2>4 DEF S!React
  <2>5. CASE req[r].op = "confirm"
    BY <2>5 DEF S!React
  <2> QED BY <1>1, <2>1, <2>2, <2>3, <2>4, <2>5
<1>4. CASE \E a \in {None, "fresh"}, u \in Users \cup {None} : S!SetPage(p, a, u)
  BY <1>1, <1>2, <1>4 DEF S!SetPage
<1>5. CASE S!Keep(p)
  BY <1>2, <1>5 DEF S!Keep
<1>6. CASE /\ \E a \in {None, "fresh"} : access' = [access EXCEPT ![p] = a]
           /\ UNCHANGED <<signed, loading>>
  BY <1>1, <1>2, <1>6
<1> QED BY <1>3, <1>4, <1>5, <1>6

LEMMA ReceiveShape ==
    ASSUME ShapeInv, NEW r \in B, S!Receive(r)
    PROVE  ShapeInv' /\ Delivers(r) /\ req[r].at \in {"ok", "refused"}
<1> DEFINE b == S!Jar(req[r].page)
<1>1. req[r].at \in {"ok", "refused"}
  BY DEF S!Receive, S!Answer, S!LateAnswer, S!LoseAnswer
<1>2. r \in S!Busy /\ b \in Browsers
  <2>1. r \in S!Busy
    BY <1>1 DEF S!Busy, S!Free
  <2> QED BY <2>1, BusyFacts DEF ShapeInv
<1>3. Ends(r) /\ UNCHANGED <<tokens, links>>
  BY <1>2 DEF S!Receive, S!Answer, S!LateAnswer, S!LoseAnswer, Ends
<1>4. \/ UNCHANGED cookie
      \/ req[r].at = "ok" /\ cookie' = [cookie EXCEPT ![b] = S!NewCookie(r)]
  <2>1. CASE S!Answer(r)
    BY <2>1 DEF S!Answer
  <2>2. CASE S!LateAnswer(r)
    BY <2>2 DEF S!LateAnswer
  <2>3. CASE S!LoseAnswer(r)
    BY <2>3 DEF S!LoseAnswer
  <2> QED BY <2>1, <2>2, <2>3 DEF S!Receive
<1>5. Delivers(r)
  BY <1>2, <1>3, <1>4, CookieFacts DEF Delivers, ShapeInv, PagesInv
<1>6. /\ access' \in [S!Pages -> {None, "fresh", "stale"}]
      /\ signed' \in [S!Pages -> Users \cup {None}]
      /\ loading' \in [S!Pages -> BOOLEAN]
  <2>1. CASE S!Answer(r)
    BY <1>2, <2>1, ReactShape DEF S!Answer
  <2>2. CASE S!LoseAnswer(r) /\ ~req[r].orphan
    BY <1>2, <2>2, ReactShape DEF S!LoseAnswer
  <2>3. CASE UNCHANGED <<access, signed, loading>>
    BY <2>3 DEF ShapeInv, PagesInv
  <2> QED BY <2>1, <2>2, <2>3 DEF S!Receive, S!LateAnswer, S!LoseAnswer
<1>7. excused' \subseteq Browsers
  BY <1>2 DEF S!Receive, S!Answer, S!LateAnswer, S!LoseAnswer, ShapeInv, PagesInv
<1>8. RowsInv' /\ RequestsInv'
  BY <1>3, SameTokens, KeptBySame, EndRequests DEF ShapeInv
<1> QED BY <1>1, <1>3, <1>5, <1>6, <1>7, <1>8 DEF ShapeInv, PagesInv, Delivers

(* A page that sends a request.                                              *)
Begins(p, r) ==
    /\ p \in S!Pages /\ r \in B /\ r \notin S!Busy
    /\ req' \in [B -> {S!Idle} \cup S!RequestType]
    /\ req'[r] \in S!RequestType /\ req'[r].at = "sent" /\ req'[r].page = p /\ ~req'[r].orphan
    /\ req'[r].op \in {"mount", "renew", "logout"} => req'[r].token = cookie[S!Jar(p)]
    /\ req'[r].op = "login" =>
           req'[r].token = 0 /\ req'[r].user \in Users /\ req'[r].family = 0
    /\ \A q \in B \ {r} :
           \/ req'[q] = req[q]
           \/ q \in S!FromBrowser(S!Jar(p)) /\ req'[q] = [req[q] EXCEPT !.orphan = TRUE]
    /\ UNCHANGED <<tokens, cookie>>
    /\ excused \subseteq excused' /\ excused' \subseteq excused \cup {S!Jar(p)}
    /\ S!FromBrowser(S!Jar(p)) # {} => S!Jar(p) \in excused'

LEMMA SendBegins ==
    ASSUME ShapeInv, NEW p \in S!Pages, NEW r \in B,
           NEW op \in {"renew", "login", "logout", "confirm"},
           NEW user \in Users \cup {None}, NEW token \in Nat,
           S!Send(r, p, op, user, token), UNCHANGED <<tokens, cookie>>,
           op = "renew" => S!MayRefresh(p),
           op \in {"renew", "logout"} => token = cookie[S!Jar(p)],
           op = "login" => token = 0 /\ user \in Users
    PROVE  Begins(p, r)
<1> DEFINE new == [at |-> "sent", op |-> op, page |-> p, orphan |-> FALSE,
                   user |-> user, token |-> token, family |-> 0]
<1>1. new \in S!RequestType /\ new # S!Idle
  BY DEF S!RequestType, S!Idle
<1>2. req' = [req EXCEPT ![r] = new] /\ r \notin S!Busy
  BY DEF S!Send, S!Busy
<1>3. /\ req' \in [B -> {S!Idle} \cup S!RequestType] /\ req'[r] = new
      /\ \A q \in B \ {r} : req'[q] = req[q]
  BY <1>1, <1>2 DEF ShapeInv, RequestsInv
<1>4. excused' = IF S!Overlaps(p, op) THEN excused \cup {S!Jar(p)} ELSE excused
  BY DEF S!Send
<1>5. S!FromBrowser(S!Jar(p)) # {} => S!Overlaps(p, op)
  BY DEF S!Overlaps, S!MayRefresh
<1> QED BY <1>1, <1>2, <1>3, <1>4, <1>5 DEF Begins

LEMMA OpenBegins ==
    ASSUME ShapeInv, NEW p \in S!Pages, NEW r \in B, S!Open(p, r)
    PROVE  Begins(p, r)
<1> DEFINE new == [at |-> "sent", op |-> "mount", page |-> p, orphan |-> FALSE,
                   user |-> None, token |-> cookie[S!Jar(p)], family |-> 0]
<1>1. S!Jar(p) \in Browsers /\ cookie[S!Jar(p)] \in Nat
  BY RowFacts DEF S!Pages, S!Jar, ShapeInv, PagesInv
<1>2. new \in S!RequestType
  BY <1>1 DEF S!RequestType
<1>3. /\ req' = [q \in B |-> IF q = r THEN new
                 ELSE IF q \in S!FromPage(p) THEN [req[q] EXCEPT !.orphan = TRUE] ELSE req[q]]
      /\ UNCHANGED <<tokens, cookie>> /\ r \notin S!Busy
      /\ excused' = IF S!FromBrowser(S!Jar(p)) # {} THEN excused \cup {S!Jar(p)} ELSE excused
  BY DEF S!Open, S!Busy
<1>4. S!FromPage(p) \subseteq S!FromBrowser(S!Jar(p)) /\ S!FromPage(p) \subseteq S!Busy
  BY DEF S!FromPage, S!FromBrowser
<1>5. \A q \in S!Busy : [req[q] EXCEPT !.orphan = TRUE] \in S!RequestType
  BY BusyFacts DEF ShapeInv, S!RequestType
<1>6. /\ req'[r] = new
      /\ \A q \in B \ {r} :
             \/ req'[q] = req[q]
             \/ q \in S!FromBrowser(S!Jar(p)) /\ req'[q] = [req[q] EXCEPT !.orphan = TRUE]
  BY <1>3, <1>4
<1>7. req' \in [B -> {S!Idle} \cup S!RequestType]
  BY <1>2, <1>3, <1>4, <1>5 DEF ShapeInv, RequestsInv
<1> QED BY <1>2, <1>3, <1>6, <1>7 DEF Begins

LEMMA BeginFacts ==
    ASSUME ShapeInv, NEW p, NEW r, Begins(p, r)
    PROVE  /\ S!Busy' = S!Busy \cup {r} /\ S!Jar(p) \in Browsers
           /\ S!FromBrowser(S!Jar(p))' = S!FromBrowser(S!Jar(p)) \cup {r}
           /\ \A b : b # S!Jar(p) => S!FromBrowser(b)' = S!FromBrowser(b)
           /\ \A q \in S!Busy : /\ req'[q].at = req[q].at /\ req'[q].op = req[q].op
                                /\ req'[q].page = req[q].page /\ req'[q].token = req[q].token
                                /\ req'[q].user = req[q].user /\ req'[q].family = req[q].family
                                /\ q \notin S!FromBrowser(S!Jar(p)) => req'[q] = req[q]
<1>1. \A q \in S!Busy : /\ req'[q].at = req[q].at /\ req'[q].op = req[q].op
                        /\ req'[q].page = req[q].page /\ req'[q].token = req[q].token
                        /\ req'[q].user = req[q].user /\ req'[q].family = req[q].family
                        /\ q \notin S!FromBrowser(S!Jar(p)) => req'[q] = req[q]
  <2>1. SUFFICES ASSUME NEW q \in S!Busy
                 PROVE  /\ req'[q].at = req[q].at /\ req'[q].op = req[q].op
                        /\ req'[q].page = req[q].page /\ req'[q].token = req[q].token
                        /\ req'[q].user = req[q].user /\ req'[q].family = req[q].family
                        /\ q \notin S!FromBrowser(S!Jar(p)) => req'[q] = req[q]
    OBVIOUS
  <2>2. q \in B \ {r} /\ req[q] \in S!RequestType
    BY BusyFacts DEF ShapeInv, Begins, S!Busy
  <2> QED BY <2>2 DEF Begins, S!RequestType
<1>2. \A q \in B \ {r} : S!Free(q)' <=> S!Free(q)
  <2>1. SUFFICES ASSUME NEW q \in B \ {r} PROVE S!Free(q)' <=> S!Free(q)
    OBVIOUS
  <2>2. CASE q \in S!Busy
    BY <1>1, <2>2 DEF S!Free
  <2>3. CASE q \notin S!Busy
    BY <2>3 DEF Begins, S!FromBrowser, S!Free
  <2> QED BY <2>2, <2>3
<1>3. ~S!Free(r)' /\ S!Free(r)
  BY DEF S!Free, Begins, S!Busy
<1>4. S!Busy' = S!Busy \cup {r}
  BY <1>2, <1>3 DEF S!Busy, Begins
<1>5. S!Jar(p) \in Browsers
  BY DEF Begins, S!Pages, S!Jar
<1> QED BY <1>1, <1>4, <1>5 DEF S!FromBrowser, Begins

LEMMA BeginShape ==
    ASSUME ShapeInv, NEW p, NEW r, Begins(p, r)
    PROVE  RowsInv' /\ RequestsInv' /\ RowsKept
<1>1. RowsInv' /\ SameRows /\ RowsKept
  BY SameTokens, KeptBySame DEF Begins, ShapeInv
<1>2. ASSUME NEW q \in S!Busy PROVE StageOK(q)' /\ HandOK(q)'
  <2>1. StageOK(q) /\ HandOK(q) /\ UNCHANGED tokens
    BY BusyFacts DEF ShapeInv, Begins
  <2>2. /\ req'[q].at = req[q].at /\ req'[q].op = req[q].op
        /\ req'[q].token = req[q].token
        /\ req'[q].user = req[q].user /\ req'[q].family = req[q].family
    BY BeginFacts
  <2> QED BY <2>1, <2>2 DEF StageOK, HandOK, Refreshes
<1>3. StageOK(r)' /\ HandOK(r)'
  <2>1. req'[r].op \in {"mount", "renew", "logout"} => req'[r].token \in 0 .. Len(tokens)
    <3>1. /\ S!Jar(p) \in Browsers /\ cookie[S!Jar(p)] \in 0 .. Len(tokens)
          /\ req'[r].op \in {"mount", "renew", "logout"} => req'[r].token = cookie[S!Jar(p)]
      BY BeginFacts DEF Begins, ShapeInv, PagesInv
    <3> QED BY <3>1
  <2>2. req'[r].op \in {"mount", "renew", "login", "logout", "confirm"}
    BY DEF Begins, S!RequestType
  <2>3. Len(tokens) \in Nat /\ UNCHANGED tokens
    BY RowFacts DEF ShapeInv, Begins
  <2> QED BY <2>1, <2>2, <2>3 DEF Begins, StageOK, HandOK, Refreshes
<1>4. RequestsInv'
  BY <1>2, <1>3, BeginFacts DEF RequestsInv, Begins
<1> QED BY <1>1, <1>4

LEMMA VisitShape ==
    ASSUME ShapeInv, NEW p \in S!Pages, NEW r \in B, S!Visit(p, r)
    PROVE  ShapeInv' /\ Begins(p, r)
<1>1. S!Jar(p) \in Browsers /\ cookie[S!Jar(p)] \in Nat /\ signed[p] \in Users \cup {None}
  BY RowFacts DEF S!Pages, S!Jar, ShapeInv, PagesInv
<1>2. Begins(p, r) /\ UNCHANGED links
  <2>1. CASE S!Open(p, r)
    BY <2>1, OpenBegins DEF S!Open
  <2>2. CASE S!Renew(p, r)
    <3>1. S!Send(r, p, "renew", None, cookie[S!Jar(p)]) /\ S!MayRefresh(p) /\ UNCHANGED <<tokens, links, cookie>>
      BY <2>2 DEF S!Renew
    <3> QED BY <1>1, <3>1, SendBegins
  <2>3. ASSUME NEW u \in Users, S!Login(p, r, u) PROVE Begins(p, r) /\ UNCHANGED links
    <3>1. S!Send(r, p, "login", u, 0) /\ UNCHANGED <<tokens, links, cookie>>
      BY <2>3 DEF S!Login
    <3> QED BY <3>1, SendBegins
  <2>4. CASE S!Logout(p, r)
    <3>1. PICK u \in Users \cup {None} : S!Send(r, p, "logout", u, cookie[S!Jar(p)])
      BY <1>1, <2>4 DEF S!Logout
    <3>2. UNCHANGED <<tokens, links, cookie>>
      BY <2>4 DEF S!Logout
    <3> QED BY <1>1, <3>1, <3>2, SendBegins
  <2>5. ASSUME NEW k \in 1 .. MaxLinks, S!ConfirmReset(p, r, k) PROVE Begins(p, r) /\ UNCHANGED links
    <3>1. S!Send(r, p, "confirm", None, k) /\ UNCHANGED <<tokens, links, cookie>> /\ k \in DOMAIN links
      BY <2>5 DEF S!ConfirmReset
    <3>2. k \in Nat
      <4>1. DOMAIN links = 1 .. Len(links)
        BY LenProperties DEF ShapeInv, PagesInv
      <4> QED BY <3>1, <4>1
    <3> QED BY <3>1, <3>2, SendBegins
  <2> QED BY <2>1, <2>2, <2>3, <2>4, <2>5 DEF S!Visit
<1>3. /\ access' \in [S!Pages -> {None, "fresh", "stale"}]
      /\ signed' \in [S!Pages -> Users \cup {None}]
      /\ loading' \in [S!Pages -> BOOLEAN]
  BY DEF S!Visit, S!Open, S!Renew, S!Login, S!Logout, S!ConfirmReset, ShapeInv, PagesInv
<1>4. RowsInv' /\ RequestsInv' /\ UNCHANGED <<tokens, cookie>> /\ excused' \subseteq Browsers
  BY <1>1, <1>2, BeginShape DEF Begins, ShapeInv, PagesInv
<1> QED BY <1>2, <1>3, <1>4 DEF ShapeInv, PagesInv

(* The server restarts: what is under way is refused, and excused.           *)
Refuses ==
    /\ S!Busy' = S!Busy
    /\ req' \in [B -> {S!Idle} \cup S!RequestType]
    /\ \A b : S!FromBrowser(b)' = S!FromBrowser(b)
    /\ \A r \in S!Busy :
           /\ req'[r].op = req[r].op /\ req'[r].page = req[r].page
           /\ req'[r].token = req[r].token /\ req'[r].user = req[r].user
           /\ req'[r].family = req[r].family
           /\ req'[r].at = IF req[r].at = "ok" THEN "ok" ELSE "refused"
    /\ UNCHANGED <<tokens, links, cookie, access, signed, loading>>
    /\ \A b \in Browsers : S!FromBrowser(b) # {} => b \in excused'
    /\ excused \subseteq excused' /\ excused' \subseteq Browsers

LEMMA RestartRefuses ==
    ASSUME ShapeInv, S!Restart
    PROVE  Refuses
<1>1. req' = [r \in B |-> IF S!Free(r) \/ req[r].at \in {"ok", "refused"} THEN req[r]
                                 ELSE [req[r] EXCEPT !.at = "refused"]]
  BY DEF S!Restart
<1>2. ASSUME NEW r \in S!Busy
      PROVE  /\ req'[r].op = req[r].op /\ req'[r].page = req[r].page
             /\ req'[r].token = req[r].token /\ req'[r].user = req[r].user
             /\ req'[r].family = req[r].family
             /\ req'[r].at = IF req[r].at = "ok" THEN "ok" ELSE "refused"
             /\ req'[r] \in S!RequestType
  <2>1. r \in B /\ req[r] \in S!RequestType /\ ~S!Free(r)
    BY BusyFacts DEF ShapeInv, S!Busy
  <2> QED BY <1>1, <2>1 DEF S!RequestType
<1>3. ASSUME NEW r \in B, r \notin S!Busy PROVE req'[r] = req[r] /\ req[r] = S!Idle
  BY <1>1, <1>3, BusyFacts DEF ShapeInv, S!Busy
<1>4. \A r \in B : S!Free(r)' <=> S!Free(r)
  BY <1>2, <1>3 DEF S!Free, S!Busy
<1>5. S!Busy' = S!Busy
  BY <1>4 DEF S!Busy
<1>6. req' \in [B -> {S!Idle} \cup S!RequestType]
  BY <1>1, <1>2, <1>3
<1>7. excused' = excused \cup {S!Jar(req[r].page) : r \in S!Busy}
  BY DEF S!Restart
<1>8. excused' \subseteq Browsers
  BY <1>7, BusyFacts DEF ShapeInv, PagesInv
<1> QED BY <1>2, <1>5, <1>6, <1>7, <1>8 DEF Refuses, S!FromBrowser, S!Restart

LEMMA RefusesShape ==
    ASSUME ShapeInv, Refuses
    PROVE  ShapeInv'
<1>1. RowsInv' /\ SameRows /\ RowsKept
  BY SameTokens, KeptBySame DEF Refuses, ShapeInv
<1>2. ASSUME NEW r \in S!Busy PROVE StageOK(r)' /\ HandOK(r)'
  <2>1. StageOK(r) /\ HandOK(r) /\ UNCHANGED tokens
    BY BusyFacts DEF ShapeInv, Refuses
  <2> QED BY <2>1 DEF Refuses, StageOK, HandOK, Refreshes
<1>3. RequestsInv'
  BY <1>2 DEF Refuses, RequestsInv
<1> QED BY <1>1, <1>3 DEF ShapeInv, PagesInv, Refuses

(* The rest: a link by mail, and time.                                       *)
LEMMA RestShape ==
    ASSUME ShapeInv, (\E u \in Users : S!RequestReset(u)) \/ (\E p \in S!Pages : S!AccessExpires(p))
    PROVE  ShapeInv' /\ UNCHANGED <<tokens, cookie, req, excused>>
<1>1. CASE \E u \in Users : S!RequestReset(u)
  <2>1. PICK u \in Users : links' = Append(links, [user |-> u, consumed |-> FALSE])
    BY <1>1 DEF S!RequestReset
  <2>2. [user |-> u, consumed |-> FALSE] \in S!LinkType
    BY DEF S!LinkType
  <2>3. links' \in Seq(S!LinkType)
    BY <2>1, <2>2, AppendProperties DEF ShapeInv, PagesInv
  <2>4. UNCHANGED <<tokens, cookie, access, signed, loading, req, excused>>
    BY <1>1 DEF S!RequestReset
  <2> QED BY <2>3, <2>4 DEF ShapeInv, PagesInv, RowsInv, RequestsInv, S!Busy, S!Free, StageOK, HandOK,
                            Refreshes
<1>2. CASE \E p \in S!Pages : S!AccessExpires(p)
  BY <1>2 DEF S!AccessExpires, ShapeInv, PagesInv, RowsInv, RequestsInv, S!Busy, S!Free, StageOK, HandOK,
              Refreshes
<1> QED BY <1>1, <1>2

-----------------------------------------------------------------------------
(* A family stays one browser's.                                             *)

LEMMA OneHolderStays ==
    ASSUME OneHolder, SameRows,
           \A b \in Browsers : \A t \in 1 .. Len(tokens) : Holds(b, t)' => Holds(b, t)
    PROVE  OneHolder'
BY DEF OneHolder, SameRows

LEMMA SignInStays ==
    ASSUME ShapeInv, SameRows, NEW r \in S!Busy, NewSignIn(r),
           req'[r].op = "login" /\ req'[r].at = "ok" =>
               /\ req[r].op = "login" /\ req[r].at = "ok"
               /\ req'[r].token = req[r].token /\ Others(r)' \subseteq Others(r)
    PROVE  NewSignIn(r)'
<1>1. SUFFICES ASSUME req'[r].op = "login", req'[r].at = "ok" PROVE NewSignIn(r)'
  BY DEF NewSignIn
<1>2. req[r].token \in 1 .. Len(tokens)
  <2>1. req[r].token # 0 /\ req[r].token \in 0 .. Len(tokens) /\ Len(tokens) \in Nat
    BY <1>1, BusyFacts, RowFacts DEF ShapeInv, HandOK
  <2> QED BY <2>1
<1> QED BY <1>1, <1>2 DEF NewSignIn, SameRows

LEMMA MoveHolders ==
    ASSUME ShapeInv, HoldersInv, SameRows, NEW r, Moves(r), UNCHANGED cookie,
           req'[r].token = req[r].token, req[r].op = "login" => req'[r].at # "ok"
    PROVE  HoldersInv'
<1>1. \A q \in S!Busy : /\ req'[q].token = req[q].token /\ req'[q].op = req[q].op
                        /\ q # r => req'[q] = req[q]
  BY DEF Moves, S!Busy
<1>2. S!Busy' = S!Busy /\ \A b : S!FromBrowser(b)' = S!FromBrowser(b)
  BY MoveFacts DEF ShapeInv
<1>3. \A b \in Browsers : \A t \in 1 .. Len(tokens) : Holds(b, t)' => Holds(b, t)
  <2>1. \A b : S!FromBrowser(b) \subseteq S!Busy
    BY DEF S!FromBrowser
  <2> QED BY <1>1, <1>2, <2>1 DEF Holds
<1>4. \A q \in S!Busy : Others(q)' \subseteq Others(q)
  BY <1>1, <1>2 DEF Others
<1>5. \A q \in S!Busy : NewSignIn(q)'
  <2>1. SUFFICES ASSUME NEW q \in S!Busy PROVE NewSignIn(q)'
    OBVIOUS
  <2>2. req'[q].op = "login" /\ req'[q].at = "ok" =>
               /\ req[q].op = "login" /\ req[q].at = "ok"
               /\ req'[q].token = req[q].token /\ Others(q)' \subseteq Others(q)
    BY <1>1, <1>4 DEF Moves
  <2> QED BY <2>1, <2>2, SignInStays DEF HoldersInv
<1> QED BY <1>2, <1>3, <1>5, OneHolderStays DEF HoldersInv

LEMMA DeliverHolders ==
    ASSUME ShapeInv, HoldersInv, NEW r, Delivers(r)
    PROVE  HoldersInv'
<1> DEFINE a == S!Jar(req[r].page)
<1>1. /\ r \in S!Busy /\ a \in Browsers /\ SameRows /\ UNCHANGED tokens
      /\ Len(tokens) \in Nat
  BY BusyFacts, SameTokens, RowFacts DEF Delivers, Ends, ShapeInv
<1>2. /\ S!Busy' = S!Busy \ {r}
      /\ \A q \in S!Busy' : req'[q] = req[q]
      /\ \A b : S!FromBrowser(b)' = S!FromBrowser(b) \ {r}
  BY EndFacts DEF Delivers, ShapeInv
<1>3. \/ cookie'[a] = cookie[a] \/ cookie'[a] = 0
      \/ cookie'[a] = req[r].token /\ req[r].op # "confirm"
  <2>1. CASE cookie'[a] = cookie[a]
    BY <2>1
  <2>2. CASE req[r].at = "ok" /\ cookie'[a] = S!NewCookie(r)
    BY <1>1, <2>2, CookieFacts DEF Refreshes
  <2> QED BY <2>1, <2>2 DEF Delivers
<1>4. r \in S!FromBrowser(a) /\ \A b : S!FromBrowser(b) \subseteq S!Busy
  BY <1>1 DEF S!FromBrowser
<1>5. ASSUME NEW b \in Browsers, NEW t \in 1 .. Len(tokens), Holds(b, t)' PROVE Holds(b, t)
  <2>1. CASE t = cookie'[b]
    <3>1. t # 0
      BY <1>1
    <3>2. CASE b = a
      BY <1>3, <1>4, <2>1, <3>1, <3>2 DEF Holds
    <3>3. CASE b # a
      BY <2>1, <3>3 DEF Holds, Delivers
    <3> QED BY <3>2, <3>3
  <2>2. CASE \E q \in S!FromBrowser(b)' : req'[q].op # "confirm" /\ t = req'[q].token
    <3>1. PICK q \in S!FromBrowser(b) \ {r} : req'[q].op # "confirm" /\ t = req'[q].token
      BY <1>2, <2>2
    <3>2. q \in S!Busy'
      BY <1>2, <1>4, <3>1
    <3> QED BY <1>2, <3>1, <3>2 DEF Holds
  <2> QED BY <1>5, <2>1, <2>2 DEF Holds
<1>6. ASSUME NEW q \in S!Busy' PROVE NewSignIn(q)'
  <2>1. q \in S!Busy /\ q # r /\ req'[q] = req[q]
    BY <1>2
  <2>2. \A b \in Browsers : cookie'[b] \in Others(q)
    <3>1. SUFFICES ASSUME NEW b \in Browsers PROVE cookie'[b] \in Others(q)
      OBVIOUS
    <3>2. CASE b = a
      BY <1>1, <1>3, <2>1, <3>2 DEF Others
    <3>3. CASE b # a
      BY <3>3 DEF Others, Delivers
    <3> QED BY <3>2, <3>3
  <2>3. \A x \in S!Busy' \ {q} : req'[x].op # "confirm" => req'[x].token \in Others(q)
    BY <1>2 DEF Others
  <2>4. Others(q)' \subseteq Others(q)
    BY <2>2, <2>3 DEF Others
  <2> QED BY <1>1, <2>1, <2>4, SignInStays DEF HoldersInv
<1> QED BY <1>1, <1>5, <1>6, OneHolderStays DEF HoldersInv

LEMMA BeginHolders ==
    ASSUME ShapeInv, HoldersInv, NEW p, NEW r, Begins(p, r)
    PROVE  HoldersInv'
<1>1. SameRows /\ UNCHANGED <<tokens, cookie>> /\ Len(tokens) \in Nat
  BY SameTokens, RowFacts DEF Begins, ShapeInv
<1>2. /\ S!Busy' = S!Busy \cup {r} /\ S!Jar(p) \in Browsers /\ r \notin S!Busy
      /\ S!FromBrowser(S!Jar(p))' = S!FromBrowser(S!Jar(p)) \cup {r}
      /\ \A b : b # S!Jar(p) => S!FromBrowser(b)' = S!FromBrowser(b)
      /\ \A q \in S!Busy : /\ req'[q].at = req[q].at /\ req'[q].op = req[q].op
                           /\ req'[q].token = req[q].token
  BY BeginFacts DEF Begins
<1>3. req'[r].op # "confirm" => req'[r].token = cookie[S!Jar(p)] \/ req'[r].token = 0
  BY DEF Begins, S!RequestType
<1>4. \A b : S!FromBrowser(b) \subseteq S!Busy
  BY DEF S!FromBrowser
<1>5. ASSUME NEW b \in Browsers, NEW t \in 1 .. Len(tokens), Holds(b, t)' PROVE Holds(b, t)
  <2>1. CASE t = cookie'[b]
    BY <1>1, <2>1 DEF Holds
  <2>2. CASE \E q \in S!FromBrowser(b)' : req'[q].op # "confirm" /\ t = req'[q].token
    <3>1. PICK q \in S!FromBrowser(b)' : req'[q].op # "confirm" /\ t = req'[q].token
      BY <2>2
    <3>2. CASE q = r
      <4>1. b = S!Jar(p)
        BY <1>2, <1>4, <3>1, <3>2
      <4> QED BY <1>1, <1>3, <3>1, <3>2, <4>1 DEF Holds
    <3>3. CASE q # r
      <4>1. q \in S!FromBrowser(b)
        BY <1>2, <3>1, <3>3
      <4> QED BY <1>2, <1>4, <3>1, <4>1 DEF Holds
    <3> QED BY <3>2, <3>3
  <2> QED BY <1>5, <2>1, <2>2 DEF Holds
<1>6. ASSUME NEW q \in S!Busy' PROVE NewSignIn(q)'
  <2>1. CASE q = r
    BY <2>1 DEF NewSignIn, Begins
  <2>2. CASE q # r
    <3>1. q \in S!Busy
      BY <1>2, <2>2
    <3>2. \A x \in S!Busy' \ {q} : req'[x].op # "confirm" => req'[x].token \in Others(q)
      <4>1. req'[r].op # "confirm" => req'[r].token \in Others(q)
        BY <1>2, <1>3 DEF Others
      <4> QED BY <1>2, <4>1 DEF Others
    <3>3. Others(q)' \subseteq Others(q)
      BY <1>1, <3>2 DEF Others
    <3> QED BY <1>1, <1>2, <3>1, <3>3, SignInStays DEF HoldersInv
  <2> QED BY <2>1, <2>2
<1> QED BY <1>1, <1>5, <1>6, OneHolderStays DEF HoldersInv

LEMMA RefuseHolders ==
    ASSUME ShapeInv, HoldersInv, Refuses
    PROVE  HoldersInv'
<1>1. SameRows /\ S!Busy' = S!Busy /\ UNCHANGED cookie /\ \A b : S!FromBrowser(b)' = S!FromBrowser(b)
  BY SameTokens DEF Refuses, ShapeInv
<1>2. \A q \in S!Busy : /\ req'[q].op = req[q].op /\ req'[q].token = req[q].token
                        /\ req'[q].at = "ok" => req[q].at = "ok"
  BY DEF Refuses
<1>3. \A b : S!FromBrowser(b) \subseteq S!Busy
  BY DEF S!FromBrowser
<1>4. \A b \in Browsers : \A t \in 1 .. Len(tokens) : Holds(b, t)' => Holds(b, t)
  BY <1>1, <1>2, <1>3 DEF Holds
<1>5. \A q \in S!Busy : Others(q)' \subseteq Others(q)
  BY <1>1, <1>2 DEF Others
<1> QED BY <1>1, <1>2, <1>4, <1>5, OneHolderStays, SignInStays DEF HoldersInv

LEMMA IssueHolders ==
    ASSUME ShapeInv, HoldersInv, NEW r \in B, S!IssueSession(r)
    PROVE  HoldersInv'
<1> DEFINE n == Len(tokens) + 1
           a == S!Jar(req[r].page)
           heir == req[r].op # "login"
<1>1. /\ Issued(r) /\ r \in S!Busy /\ Moves(r) /\ HandOK(r) /\ a \in Browsers
      /\ Len(tokens) \in Nat /\ req'[r].at = "ok" /\ req'[r].token = n
      /\ UNCHANGED cookie
  BY IssueFacts, IssueRequests, BusyFacts, RowFacts DEF ShapeInv, S!IssueSession, S!ServerOnly
<1>2. /\ S!Busy' = S!Busy /\ \A b : S!FromBrowser(b)' = S!FromBrowser(b)
      /\ \A b : S!FromBrowser(b) \subseteq S!Busy
      /\ \A q \in S!Busy : req'[q].op = req[q].op /\ (q # r => req'[q] = req[q])
      /\ r \in S!FromBrowser(a)
  BY <1>1, MoveFacts DEF ShapeInv, S!FromBrowser, Moves, S!Busy
<1>3. /\ Len(tokens') = n
      /\ \A t \in 1 .. Len(tokens) : tokens'[t] = tokens[t]
      /\ tokens'[n].family = IF req[r].op = "login" THEN n ELSE req[r].family
  BY <1>1 DEF Issued
<1>4. \A t \in 1 .. Len(tokens) : tokens[t].family \in Nat /\ tokens[t].family < n
  <2>1. SUFFICES ASSUME NEW t \in 1 .. Len(tokens) PROVE tokens[t].family \in Nat /\ tokens[t].family < n
    OBVIOUS
  <2>2. tokens[t].family \in 1 .. t
    BY RowFacts DEF ShapeInv
  <2> QED BY <1>1, <2>2
<1>5. heir => /\ req[r].token \in 1 .. Len(tokens) /\ req[r].op # "confirm"
              /\ req[r].family = tokens[req[r].token].family
              /\ Holds(a, req[r].token)
  <2>1. heir => /\ req[r].token \in 0 .. Len(tokens) /\ req[r].token # 0 /\ req[r].op # "confirm"
                /\ req[r].family = tokens[req[r].token].family
    BY <1>1 DEF HandOK, Issued, Refreshes
  <2> QED BY <1>1, <1>2, <2>1 DEF Holds
<1>6. ASSUME NEW q \in S!Busy, q # r, req[q].op # "confirm"
      PROVE  req'[q].token \in 0 .. Len(tokens) /\ req'[q].token = req[q].token
  BY <1>2, <1>6, BusyFacts DEF ShapeInv, HandOK
<1>7. \A b \in Browsers : cookie'[b] \in 0 .. Len(tokens)
  BY <1>1 DEF ShapeInv, PagesInv
<1>8. ASSUME NEW b \in Browsers, NEW t \in 1 .. n, Holds(b, t)'
      PROVE  /\ t # n => t \in 1 .. Len(tokens) /\ Holds(b, t)
             /\ t = n => b = a
  <2>1. CASE t = cookie'[b]
    <3>1. t \in 1 .. Len(tokens)
      BY <1>1, <1>7, <2>1
    <3> QED BY <1>1, <2>1, <3>1 DEF Holds
  <2>2. CASE \E q \in S!FromBrowser(b)' : req'[q].op # "confirm" /\ t = req'[q].token
    <3>1. PICK q \in S!FromBrowser(b) : req'[q].op # "confirm" /\ t = req'[q].token
      BY <1>2, <2>2
    <3>2. CASE q = r
      <4>1. b = a
        BY <3>1, <3>2 DEF S!FromBrowser
      <4> QED BY <1>1, <3>1, <3>2, <4>1
    <3>3. CASE q # r
      <4>1. q \in S!Busy /\ req[q].op # "confirm"
        BY <1>2, <3>1
      <4>2. t \in 1 .. Len(tokens) /\ t = req[q].token
        BY <1>1, <1>6, <3>1, <3>3, <4>1
      <4> QED BY <1>1, <3>1, <4>1, <4>2 DEF Holds
    <3> QED BY <3>2, <3>3
  <2> QED BY <1>8, <2>1, <2>2 DEF Holds
<1>9. OneHolder'
  <2>1. SUFFICES ASSUME NEW b \in Browsers, NEW c \in Browsers, NEW s \in 1 .. n, NEW t \in 1 .. n,
                        Holds(b, s)', Holds(c, t)', tokens'[s].family = tokens'[t].family
                 PROVE  b = c
    BY <1>3 DEF OneHolder
  <2>2. CASE s # n /\ t # n
    BY <1>3, <1>8, <2>1, <2>2 DEF HoldersInv, OneHolder
  <2>3. CASE s = n /\ t = n
    BY <1>8, <2>1, <2>3
  <2>4. ASSUME NEW d \in Browsers, NEW u \in 1 .. n, u # n, Holds(d, u)',
               tokens'[u].family = tokens'[n].family
        PROVE  d = a
    <3>1. u \in 1 .. Len(tokens) /\ Holds(d, u)
      BY <1>8, <2>4
    <3>2. heir
      BY <1>3, <1>4, <2>4, <3>1
    <3> QED BY <1>1, <1>3, <1>5, <2>4, <3>1, <3>2 DEF HoldersInv, OneHolder
  <2> QED BY <1>8, <2>1, <2>2, <2>3, <2>4
<1>10. ASSUME NEW q \in S!Busy PROVE NewSignIn(q)'
  <2>1. SUFFICES ASSUME req'[q].op = "login", req'[q].at = "ok"
                 PROVE  /\ \A t \in 1 .. n :
                               tokens'[t].family = tokens'[req'[q].token].family => t = req'[q].token
                        /\ req'[q].token \notin Others(q)'
    BY <1>3 DEF NewSignIn
  <2>2. CASE q = r
    <3>1. req'[r].token = n /\ ~heir
      BY <1>1, <1>2, <2>1, <2>2
    <3>2. \A t \in 1 .. n : t # n => t \in 1 .. Len(tokens)
      BY <1>1
    <3>3. \A t \in 1 .. n : tokens'[t].family = tokens'[n].family => t = n
      BY <1>3, <1>4, <3>1, <3>2
    <3>4. \A x \in S!Busy' \ {r} : req'[x].op # "confirm" => req'[x].token # n
      BY <1>1, <1>2, <1>6
    <3>5. n \notin Others(r)'
      BY <1>1, <1>7, <3>4 DEF Others
    <3> QED BY <2>2, <3>1, <3>3, <3>5
  <2>3. CASE q # r
    <3>1. /\ req'[q] = req[q] /\ NewSignIn(q) /\ req[q].token \notin Others(q)
          /\ req[q].token \in 1 .. Len(tokens)
      <4>1. req'[q] = req[q] /\ NewSignIn(q)
        BY <1>2, <2>3 DEF HoldersInv
      <4>2. req[q].token \notin Others(q)
        BY <2>1, <4>1 DEF NewSignIn
      <4>3. req[q].token \in 0 .. Len(tokens) /\ req[q].token # 0
        BY <2>1, <4>1, BusyFacts DEF ShapeInv, HandOK
      <4> QED BY <4>1, <4>2, <4>3
    <3>2. tokens'[n].family # tokens[req[q].token].family
      <4>1. CASE heir
        <5>1. req[r].token # req[q].token
          BY <1>1, <1>5, <2>3, <3>1, <4>1 DEF Others
        <5> QED BY <1>3, <1>5, <2>1, <3>1, <4>1, <5>1 DEF NewSignIn
      <4>2. CASE ~heir
        BY <1>3, <1>4, <3>1, <4>2
      <4> QED BY <4>1, <4>2
    <3>3. \A t \in 1 .. n : t = n \/ t \in 1 .. Len(tokens)
      BY <1>1
    <3>4. \A t \in 1 .. n : tokens'[t].family = tokens'[req[q].token].family => t = req[q].token
      BY <1>3, <2>1, <3>1, <3>2, <3>3 DEF NewSignIn
    <3>5. ASSUME NEW x \in S!Busy' \ {q}, req'[x].op # "confirm" PROVE req'[x].token # req[q].token
      <4>1. CASE x = r
        BY <1>1, <3>1, <4>1
      <4>2. CASE x # r
        BY <1>2, <1>6, <3>1, <3>5, <4>2 DEF Others
      <4> QED BY <4>1, <4>2
    <3>6. req[q].token \notin Others(q)'
      BY <1>1, <3>1, <3>5 DEF Others
    <3> QED BY <3>1, <3>4, <3>6
  <2> QED BY <2>2, <2>3
<1> QED BY <1>2, <1>9, <1>10 DEF HoldersInv

-----------------------------------------------------------------------------
(* A browser left to itself keeps its session.                               *)

LEMMA LiveStays ==
    ASSUME ShapeInv, RowsKept, Len(tokens') = Len(tokens), NEW f,
           \A t \in 1 .. Len(tokens) :
               tokens[t].family = f => (tokens'[t].revoked <=> tokens[t].revoked)
    PROVE  Live(f)' = Live(f)
BY DEF Live, RowsKept

LEMMA UsableStays ==
    ASSUME ShapeInv, RowsKept, NEW t \in 0 .. Len(tokens), Usable(t),
           t # 0 => \A f : f = tokens[t].family => Live(f)' = Live(f)
    PROVE  Usable(t)'
<1>1. CASE t = 0
  BY <1>1 DEF Usable
<1>2. CASE t # 0
  <2>1. t \in 1 .. Len(tokens)
    BY <1>2, RowFacts DEF ShapeInv
  <2>2. tokens'[t].family = tokens[t].family
    BY <2>1 DEF RowsKept
  <2> DEFINE f == tokens[t].family
  <2>3. Live(f) = {t}
    BY <1>2 DEF Usable
  <2> QED BY <1>2, <2>2, <2>3 DEF Usable
<1> QED BY <1>1, <1>2

LEMMA KeptElsewhere ==
    ASSUME ShapeInv, RowsKept, NEW b \in Browsers, Kept(b),
           S!FromBrowser(b)' = S!FromBrowser(b),
           \A q \in S!FromBrowser(b) : req'[q] = req[q],
           cookie'[b] = cookie[b],
           \A t \in 1 .. Len(tokens) : \A f :
               Holds(b, t) /\ f = tokens[t].family => Live(f)' = Live(f)
    PROVE  Kept(b)'
<1>1. cookie[b] \in 0 .. Len(tokens) /\ Len(tokens) \in Nat
  BY RowFacts DEF ShapeInv, PagesInv
<1>2. Usable(cookie[b]) => Usable(cookie[b])'
  BY <1>1, UsableStays DEF Holds
<1>3. ASSUME NEW r \in S!FromBrowser(b) PROVE Undisputed(b, r)'
  <2>1. Undisputed(b, r) /\ UNCHANGED req[r] /\ r \in S!Busy
    BY DEF Kept, S!FromBrowser
  <2>2. HandOK(r) /\ StageOK(r)
    BY <2>1, BusyFacts DEF ShapeInv
  <2>3. req[r].op # "confirm" =>
            req[r].token \in 0 .. Len(tokens) /\ (req[r].token # 0 => Holds(b, req[r].token))
    BY <2>2 DEF HandOK, Holds
  <2>4. req[r].op # "confirm" /\ Usable(req[r].token) => Usable(req[r].token)'
    BY <1>1, <2>3, UsableStays
  <2>5. Refreshes(r) /\ req[r].at = "issue" => Live(req[r].family)' = {}
    <3>1. SUFFICES ASSUME Refreshes(r), req[r].at = "issue" PROVE Live(req[r].family)' = {}
      OBVIOUS
    <3>2. /\ req[r].op # "confirm" /\ req[r].token # 0
          /\ req[r].family = tokens[req[r].token].family
      BY <2>2, <3>1 DEF HandOK, Refreshes
    <3>3. req[r].token \in 1 .. Len(tokens) /\ Holds(b, req[r].token)
      BY <1>1, <2>3, <3>2
    <3> QED BY <2>1, <3>1, <3>2, <3>3 DEF Undisputed
  <2> QED BY <1>2, <2>1, <2>4, <2>5 DEF Undisputed, Refreshes, Replaces
<1> QED BY <1>2, <1>3 DEF Kept

(* The browser of the request that moves.                                    *)
LEMMA ActorKept ==
    ASSUME ShapeInv, NEW r, Moves(r), NEW b, b = S!Jar(req[r].page), Kept(b), Undisputed(b, r)'
    PROVE  Kept(b)'
<1>1. r \in S!FromBrowser(b) /\ S!FromBrowser(b)' = S!FromBrowser(b)
  BY MoveFacts DEF Moves, S!FromBrowser, ShapeInv
<1> QED BY <1>1 DEF Kept

LEMMA ActorUndisputed ==
    ASSUME ShapeInv, NEW r \in S!Busy, NEW b, b = S!Jar(req[r].page), Kept(b)
    PROVE  /\ Undisputed(b, r)
           /\ S!FromBrowser(b) = {r}
           /\ cookie[b] \in 0 .. Len(tokens)
<1>1. r \in S!FromBrowser(b) /\ b \in Browsers
  BY BusyFacts DEF S!FromBrowser, ShapeInv
<1> QED BY <1>1 DEF Kept, ShapeInv, PagesInv

(* The other browsers, when a request touches the rows of one family only.   *)
LEMMA OthersKept ==
    ASSUME ShapeInv, HoldersInv, RowsKept, NEW r, Moves(r), UNCHANGED cookie,
           NEW b \in Browsers, b # S!Jar(req[r].page), Kept(b),
           NEW g, \A f : f # g => Live(f)' = Live(f),
           \A t \in 1 .. Len(tokens) : tokens[t].family = g =>
               \E s \in 1 .. Len(tokens) :
                   tokens[s].family = g /\ Holds(S!Jar(req[r].page), s)
    PROVE  Kept(b)'
<1>1. /\ S!FromBrowser(b)' = S!FromBrowser(b) /\ S!Jar(req[r].page) \in Browsers
      /\ \A q \in S!FromBrowser(b) : req'[q] = req[q]
  BY MoveFacts, BusyFacts DEF ShapeInv, Moves, S!FromBrowser, S!Busy
<1>2. ASSUME NEW t \in 1 .. Len(tokens), Holds(b, t) PROVE tokens[t].family # g
  BY <1>1, <1>2 DEF HoldersInv, OneHolder
<1> QED BY <1>1, <1>2, KeptElsewhere

LEMMA ReadTokenKept ==
    ASSUME ShapeInv, KeptInv, NEW r \in B, S!ReadToken(r)
    PROVE  KeptInv'
<1> DEFINE t == req[r].token
<1>1. /\ Moves(r) /\ Refreshes(r) /\ req[r].at = "sent" /\ req'[r].token = t
      /\ req'[r].at \in S!Verdicts(t)
      /\ UNCHANGED <<tokens, cookie, excused>>
  BY ReadTokenFacts DEF ShapeInv, S!ReadToken, S!ServerOnly
<1>2. RowsKept /\ \A f : Live(f)' = Live(f)
  BY <1>1, SameTokens, KeptBySame DEF ShapeInv, Live
<1>3. SUFFICES ASSUME NEW b \in Browsers, b \notin excused PROVE Kept(b)'
  BY <1>1 DEF KeptInv
<1>4. CASE b = S!Jar(req[r].page)
  <2>1. r \in S!Busy /\ Undisputed(b, r) /\ cookie[b] \in 0 .. Len(tokens)
    BY <1>1, <1>3, <1>4, ActorUndisputed DEF KeptInv, Moves
  <2>2. t = cookie[b] /\ Usable(t) /\ ~req[r].orphan
    BY <1>1, <2>1 DEF Undisputed, Replaces, Refreshes
  <2>3. t # 0 => ~tokens[t].revoked
    BY <2>2 DEF Usable, Live
  <2>4. req'[r].at \in {"refused", "revoke"}
    BY <1>1, <2>3 DEF S!Verdicts
  <2>5. Usable(cookie[b])'
    BY <1>1, <2>2 DEF Usable, Live, Moves
  <2>6. Undisputed(b, r)'
    BY <1>1, <2>2, <2>4, <2>5 DEF Undisputed, Replaces, Refreshes, Moves
  <2> QED BY <1>1, <1>3, <1>4, <2>6, ActorKept DEF KeptInv
<1>5. CASE b # S!Jar(req[r].page)
  <2>1. /\ S!FromBrowser(b)' = S!FromBrowser(b)
        /\ \A q \in S!FromBrowser(b) : req'[q] = req[q]
    BY <1>1, <1>5, MoveFacts DEF ShapeInv, Moves, S!FromBrowser, S!Busy
  <2> QED BY <1>1, <1>2, <1>3, <2>1, KeptElsewhere DEF KeptInv
<1> QED BY <1>4, <1>5

LEMMA QuietKept ==
    ASSUME ShapeInv, KeptInv, NEW r \in B,
           S!CheckPassword(r) \/ S!ReadOwnToken(r) \/ S!ReadLink(r)
    PROVE  KeptInv'
<1>1. /\ Moves(r) /\ ~Refreshes(r) /\ req[r].at = "sent" /\ req'[r].token = req[r].token
      /\ req[r].op = "login" => req'[r].at \in {"issue", "refused"}
      /\ req[r].op \in {"logout", "confirm", "login"}
      /\ UNCHANGED <<tokens, cookie, excused>> /\ RequestsInv'
  BY QuietServe DEF ShapeInv
<1>2. RowsKept /\ \A f : Live(f)' = Live(f)
  BY <1>1, SameTokens, KeptBySame DEF ShapeInv, Live
<1>3. SUFFICES ASSUME NEW b \in Browsers, b \notin excused PROVE Kept(b)'
  BY <1>1 DEF KeptInv
<1>4. CASE b = S!Jar(req[r].page)
  <2>1. r \in S!Busy /\ Undisputed(b, r) /\ cookie[b] \in 0 .. Len(tokens)
    BY <1>1, <1>3, <1>4, ActorUndisputed DEF KeptInv, Moves
  <2>2. req[r].op = "logout" => req[r].token = cookie[b]
    BY <1>1, <2>1 DEF Undisputed
  <2>3. Usable(cookie[b]) /\ ~req[r].orphan
    BY <1>1, <2>1 DEF Undisputed, Replaces, Refreshes
  <2>4. r \in S!Busy' /\ req'[r].at # "revokeFamily"
    <3>1. r \in S!Busy' /\ StageOK(r)'
      BY <1>1, <2>1, MoveFacts DEF ShapeInv, RequestsInv
    <3> QED BY <1>1, <3>1 DEF StageOK, Moves, Refreshes
  <2>5. Usable(cookie[b])'
    BY <1>1, <2>3 DEF Usable, Live, Moves
  <2>6. Undisputed(b, r)'
    BY <1>1, <2>2, <2>3, <2>4, <2>5 DEF Undisputed, Replaces, Refreshes, Moves
  <2> QED BY <1>1, <1>3, <1>4, <2>6, ActorKept DEF KeptInv
<1>5. CASE b # S!Jar(req[r].page)
  <2>1. /\ S!FromBrowser(b)' = S!FromBrowser(b)
        /\ \A q \in S!FromBrowser(b) : req'[q] = req[q]
    BY <1>1, <1>5, MoveFacts DEF ShapeInv, Moves, S!FromBrowser, S!Busy
  <2> QED BY <1>1, <1>2, <1>3, <2>1, KeptElsewhere DEF KeptInv
<1> QED BY <1>4, <1>5

LEMMA RevokeFamilyKept ==
    ASSUME ShapeInv, HoldersInv, KeptInv, NEW r \in B, S!RevokeFamily(r)
    PROVE  KeptInv'
<1> DEFINE g == req[r].family
<1>1. /\ Revokes(r, S!Family(g), "refused") /\ Refreshes(r) /\ req[r].at = "revokeFamily"
      /\ UNCHANGED <<cookie, excused>> /\ r \in S!Busy /\ HandOK(r)
  BY RevokeActions DEF ShapeInv, Revokes
<1>2. /\ Moves(r) /\ RowsKept /\ SameRows
      /\ \A t \in 1 .. Len(tokens) : tokens'[t].revoked <=> tokens[t].revoked \/ t \in S!Family(g)
  BY <1>1, RevokesRequest DEF ShapeInv
<1>3. \A f : f # g => Live(f)' = Live(f)
  <2>1. \A t \in 1 .. Len(tokens) : t \in S!Family(g) => tokens[t].family = g
    BY DEF S!Family
  <2> QED BY <1>2, <2>1, LiveStays DEF SameRows
<1>4. req[r].token \in 1 .. Len(tokens) /\ g = tokens[req[r].token].family
      /\ Holds(S!Jar(req[r].page), req[r].token)
  <2>1. Len(tokens) \in Nat /\ req[r].op # "confirm" /\ r \in S!FromBrowser(S!Jar(req[r].page))
    BY <1>1, RowFacts DEF ShapeInv, Refreshes, S!FromBrowser
  <2> QED BY <1>1, <2>1 DEF HandOK, Holds
<1>5. SUFFICES ASSUME NEW b \in Browsers, b \notin excused PROVE Kept(b)'
  BY <1>1 DEF KeptInv
<1>6. b # S!Jar(req[r].page)
  BY <1>1, <1>5, ActorUndisputed DEF KeptInv, Undisputed
<1> QED BY <1>1, <1>2, <1>3, <1>4, <1>5, <1>6, OthersKept DEF KeptInv

LEMMA RevokeTokenKept ==
    ASSUME ShapeInv, HoldersInv, KeptInv, NEW r \in B, S!RevokeToken(r)
    PROVE  KeptInv'
<1> DEFINE t == req[r].token
           g == tokens[t].family
<1>1. /\ Revokes(r, {t}, "issue") /\ Refreshes(r) /\ req[r].at = "revoke"
      /\ UNCHANGED <<cookie, excused>> /\ r \in S!Busy /\ HandOK(r)
  BY RevokeActions DEF ShapeInv, Revokes
<1>2. /\ Moves(r) /\ RowsKept /\ SameRows
      /\ req'[r].at = "issue" /\ req'[r].token = t /\ req'[r].family = req[r].family
      /\ \A s \in 1 .. Len(tokens) : tokens'[s].revoked <=> tokens[s].revoked \/ s = t
  BY <1>1, RevokesRequest DEF ShapeInv
<1>3. t \in 1 .. Len(tokens) /\ req[r].family = g /\ Holds(S!Jar(req[r].page), t)
  <2>1. Len(tokens) \in Nat /\ req[r].op # "confirm" /\ r \in S!FromBrowser(S!Jar(req[r].page))
    BY <1>1, RowFacts DEF ShapeInv, Refreshes, S!FromBrowser
  <2> QED BY <1>1, <2>1 DEF HandOK, Holds
<1>4. \A f : f # g => Live(f)' = Live(f)
  BY <1>2, <1>3, LiveStays DEF SameRows
<1>5. SUFFICES ASSUME NEW b \in Browsers, b \notin excused PROVE Kept(b)'
  BY <1>1 DEF KeptInv
<1>6. CASE b = S!Jar(req[r].page)
  <2>1. Undisputed(b, r)
    BY <1>1, <1>5, <1>6, ActorUndisputed DEF KeptInv
  <2>2. t = cookie[b] /\ Live(g) = {t} /\ ~req[r].orphan
    BY <1>1, <1>3, <2>1 DEF Undisputed, Replaces, Refreshes, Usable
  <2>3. \A f : f = g => Live(f)' = {}
    BY <1>2, <1>3, <2>2 DEF Live, SameRows
  <2>4. Undisputed(b, r)'
    BY <1>1, <1>2, <1>3, <2>2, <2>3 DEF Undisputed, Replaces, Refreshes, Moves
  <2> QED BY <1>2, <1>5, <1>6, <2>4, ActorKept DEF KeptInv
<1>7. CASE b # S!Jar(req[r].page)
  BY <1>1, <1>2, <1>3, <1>4, <1>5, <1>7, OthersKept DEF KeptInv
<1> QED BY <1>6, <1>7

LEMMA RevokeOwnTokenKept ==
    ASSUME ShapeInv, HoldersInv, KeptInv, NEW r \in B, S!RevokeOwnToken(r)
    PROVE  KeptInv'
<1> DEFINE t == req[r].token
           g == tokens[t].family
<1>1. /\ Revokes(r, {t}, "ok") /\ req[r].op = "logout" /\ req[r].at = "revokeOwn"
      /\ UNCHANGED <<cookie, excused>> /\ r \in S!Busy /\ HandOK(r)
  BY RevokeActions DEF ShapeInv, Revokes
<1>2. /\ Moves(r) /\ RowsKept /\ SameRows
      /\ req'[r].at = "ok" /\ req'[r].token = t
      /\ \A s \in 1 .. Len(tokens) : tokens'[s].revoked <=> tokens[s].revoked \/ s = t
  BY <1>1, RevokesRequest DEF ShapeInv
<1>3. SUFFICES ASSUME NEW b \in Browsers, b \notin excused PROVE Kept(b)'
  BY <1>1 DEF KeptInv
<1>4. CASE b = S!Jar(req[r].page)
  <2>1. Undisputed(b, r)
    BY <1>1, <1>3, <1>4, ActorUndisputed DEF KeptInv
  <2>2. Undisputed(b, r)'
    BY <1>1, <1>2, <2>1 DEF Undisputed, Replaces, Refreshes, Moves
  <2> QED BY <1>2, <1>3, <1>4, <2>2, ActorKept DEF KeptInv
<1>5. CASE b # S!Jar(req[r].page) /\ t # 0
  <2>1. t \in 1 .. Len(tokens) /\ Holds(S!Jar(req[r].page), t)
    <3>1. Len(tokens) \in Nat /\ r \in S!FromBrowser(S!Jar(req[r].page))
      BY <1>1, RowFacts DEF ShapeInv, S!FromBrowser
    <3> QED BY <1>1, <1>5, <3>1 DEF HandOK, Holds
  <2>2. \A f : f # g => Live(f)' = Live(f)
    BY <1>2, <2>1, LiveStays DEF SameRows
  <2> QED BY <1>1, <1>2, <1>3, <1>5, <2>1, <2>2, OthersKept DEF KeptInv
<1>6. CASE b # S!Jar(req[r].page) /\ t = 0
  <2>1. \A f : Live(f)' = Live(f)
    BY <1>2, <1>6, RowFacts, LiveStays DEF SameRows, ShapeInv
  <2>2. /\ S!FromBrowser(b)' = S!FromBrowser(b)
        /\ \A q \in S!FromBrowser(b) : req'[q] = req[q]
    BY <1>2, <1>6, MoveFacts DEF ShapeInv, Moves, S!FromBrowser, S!Busy
  <2> QED BY <1>1, <1>2, <1>3, <2>1, <2>2, KeptElsewhere DEF KeptInv
<1> QED BY <1>4, <1>5, <1>6

LEMMA IssueSessionKept ==
    ASSUME ShapeInv, HoldersInv, KeptInv, NEW r \in B, S!IssueSession(r)
    PROVE  KeptInv'
<1> DEFINE heir == req[r].op # "login"
<1>0. PICK n : n = Len(tokens) + 1
  OBVIOUS
<1>1. /\ Issued(r) /\ r \in S!Busy /\ Moves(r) /\ HandOK(r) /\ RowsKept
      /\ Len(tokens) \in Nat /\ req'[r].at = "ok" /\ req'[r].token = n
      /\ UNCHANGED <<cookie, excused>>
  BY <1>0, IssueFacts, IssueRequests, KeptByIssued, BusyFacts, RowFacts DEF ShapeInv, S!IssueSession, S!ServerOnly
<1>2. PICK g : g = IF heir THEN req[r].family ELSE n
  OBVIOUS
<1>3. /\ Len(tokens') = n /\ tokens'[n].family = g /\ ~tokens'[n].revoked
      /\ \A t \in 1 .. Len(tokens) : tokens'[t] = tokens[t]
      /\ 1 .. n = 1 .. Len(tokens) \cup {n}
  BY <1>0, <1>1, <1>2 DEF Issued
<1>4. \A f : /\ f # g => Live(f)' = Live(f)
             /\ f = g => Live(f)' = Live(f) \cup {n}
  BY <1>3 DEF Live
<1>5. heir => /\ Refreshes(r) /\ req[r].token \in 1 .. Len(tokens)
              /\ g = tokens[req[r].token].family /\ Holds(S!Jar(req[r].page), req[r].token)
  <2>1. Len(tokens) \in Nat /\ r \in S!FromBrowser(S!Jar(req[r].page)) /\ (heir => Refreshes(r))
    BY <1>1 DEF S!FromBrowser, Issued
  <2> QED BY <1>1, <1>2, <2>1 DEF HandOK, Issued, Refreshes, Holds
<1>6. ~heir => \A t \in 1 .. Len(tokens) : tokens[t].family # g
  <2>1. \A t \in 1 .. Len(tokens) : tokens[t].family # n
    <3>1. SUFFICES ASSUME NEW t \in 1 .. Len(tokens) PROVE tokens[t].family # n
      OBVIOUS
    <3>2. tokens[t].family \in 1 .. t
      BY RowFacts DEF ShapeInv
    <3> QED BY <1>0, <1>1, <3>2
  <2> QED BY <1>2, <2>1
<1>7. SUFFICES ASSUME NEW b \in Browsers, b \notin excused PROVE Kept(b)'
  BY <1>1 DEF KeptInv
<1>8. CASE b = S!Jar(req[r].page)
  <2>1. Undisputed(b, r)
    BY <1>1, <1>7, <1>8, ActorUndisputed DEF KeptInv
  <2>2. Live(g) = {}
    BY <1>1, <1>2, <1>5, <1>6, <2>1 DEF Undisputed, Live, Issued
  <2>3. Usable(n)'
    BY <1>1, <1>3, <1>4, <2>2 DEF Usable
  <2>4. Undisputed(b, r)'
    BY <1>1, <2>1, <2>3 DEF Undisputed, Replaces, Refreshes, Moves, Issued
  <2> QED BY <1>1, <1>7, <1>8, <2>4, ActorKept DEF KeptInv
<1>9. CASE b # S!Jar(req[r].page)
  BY <1>1, <1>4, <1>5, <1>6, <1>7, <1>9, OthersKept DEF KeptInv
<1> QED BY <1>8, <1>9

LEMMA ApplyResetKept ==
    ASSUME ShapeInv, KeptInv, NEW r \in B, S!ApplyReset(r)
    PROVE  KeptInv'
<1>1. PICK own : own = {t \in DOMAIN tokens : tokens[t].user = links[req[r].token].user}
  OBVIOUS
<1>2. /\ Revokes(r, own, "ok") /\ req[r].op = "confirm" /\ req[r].at = "apply"
      /\ r \in S!Busy /\ UNCHANGED cookie
      /\ excused' = excused \cup
             {b \in Browsers : \/ cookie[b] \in own
                               \/ \E q \in S!FromBrowser(b) :
                                      req[q].op # "confirm" /\ req[q].token \in own}
  BY <1>1, RevokeActions DEF ShapeInv, Revokes, S!ApplyReset
<1>3. /\ Moves(r) /\ RowsKept /\ SameRows /\ req'[r].at = "ok"
      /\ \A t \in 1 .. Len(tokens) : tokens'[t].revoked <=> tokens[t].revoked \/ t \in own
  BY <1>2, RevokesRequest DEF ShapeInv
<1>4. \A f : Live(f)' = Live(f) \ own
  BY <1>3 DEF Live, SameRows
<1>5. ASSUME NEW t \in 0 .. Len(tokens), t \notin own, Usable(t)
      PROVE  Usable(t)'
  <2>1. CASE t # 0
    <3>1. t \in 1 .. Len(tokens)
      BY <2>1, RowFacts DEF ShapeInv
    <3> QED BY <1>3, <1>4, <1>5, <2>1, <3>1 DEF Usable, SameRows
  <2> QED BY <2>1 DEF Usable
<1>6. SUFFICES ASSUME NEW b \in Browsers, b \notin excused' PROVE Kept(b)'
  BY DEF KeptInv
<1>7. /\ Kept(b) /\ cookie[b] \notin own /\ cookie[b] \in 0 .. Len(tokens)
      /\ S!FromBrowser(b)' = S!FromBrowser(b)
      /\ \A q \in S!FromBrowser(b) : req[q].op # "confirm" => req[q].token \notin own
  BY <1>2, <1>3, <1>6, MoveFacts DEF KeptInv, ShapeInv, PagesInv
<1>8. Usable(cookie[b]) => Usable(cookie[b])'
  BY <1>2, <1>5, <1>7
<1>9. ASSUME NEW q \in S!FromBrowser(b) PROVE Undisputed(b, q)'
  <2>1. Undisputed(b, q) /\ q \in S!Busy /\ q \in B /\ HandOK(q)
    BY <1>7, BusyFacts DEF Kept, S!FromBrowser, ShapeInv
  <2>2. CASE q = r
    BY <1>2, <1>3, <1>8, <2>1, <2>2 DEF Undisputed, Refreshes, Replaces, Moves
  <2>3. CASE q # r
    <3>1. UNCHANGED req[q]
      BY <1>3, <2>1, <2>3 DEF Moves
    <3>2. req[q].op # "confirm" /\ Usable(req[q].token) => Usable(req[q].token)'
      BY <1>5, <1>7, <2>1, <3>1 DEF HandOK
    <3>3. Live(req[q].family) = {} => Live(req[q].family)' = {}
      BY <1>4, <3>1
    <3> QED BY <1>2, <1>8, <2>1, <3>1, <3>2, <3>3 DEF Undisputed, Refreshes, Replaces
  <2> QED BY <2>2, <2>3
<1> QED BY <1>7, <1>8, <1>9 DEF Kept

LEMMA ServeKept ==
    ASSUME ShapeInv, HoldersInv, KeptInv, NEW r \in B, S!Serve(r)
    PROVE  KeptInv'
BY ReadTokenKept, QuietKept, RevokeFamilyKept, RevokeTokenKept, RevokeOwnTokenKept,
   IssueSessionKept, ApplyResetKept DEF S!Serve

LEMMA ReceiveKept ==
    ASSUME ShapeInv, HoldersInv, KeptInv, NEW r \in B, S!Receive(r)
    PROVE  KeptInv'
<1>1. /\ Delivers(r) /\ req[r].at \in {"ok", "refused"} /\ r \in S!Busy
      /\ UNCHANGED tokens /\ RowsKept /\ HandOK(r) /\ StageOK(r)
  BY ReceiveShape, BusyFacts, SameTokens, KeptBySame DEF Delivers, Ends, ShapeInv
<1>2. /\ \A q \in S!Busy' : req'[q] = req[q]
      /\ \A b : S!FromBrowser(b)' = S!FromBrowser(b) \ {r}
      /\ \A b : S!FromBrowser(b) \subseteq S!Busy
      /\ S!Busy' = S!Busy \ {r}
  BY <1>1, EndFacts DEF Delivers, ShapeInv, S!FromBrowser
<1>3. \A f : Live(f)' = Live(f)
  BY <1>1 DEF Live
<1>4. SUFFICES ASSUME NEW b \in Browsers, b \notin excused' PROVE Kept(b)'
  BY DEF KeptInv
<1>5. CASE b # S!Jar(req[r].page)
  <2>1. b \notin excused
    BY <1>4, <1>5 DEF S!Receive, S!Answer, S!LateAnswer, S!LoseAnswer
  <2>2. r \notin S!FromBrowser(b) /\ cookie'[b] = cookie[b]
    BY <1>1, <1>4, <1>5 DEF S!FromBrowser, Delivers
  <2> QED BY <1>1, <1>2, <1>3, <1>4, <2>1, <2>2, KeptElsewhere DEF KeptInv
<1>6. CASE b = S!Jar(req[r].page)
  <2>1. b \in Browsers /\ cookie \in [Browsers -> 0 .. Len(tokens)]
    BY <1>4 DEF ShapeInv, PagesInv
  <2>2. SUFFICES S!FromBrowser(b) = {r} /\ Usable(cookie'[b])
    <3>1. S!FromBrowser(b)' = {}
      BY <1>2, <2>2
    <3>2. Usable(cookie[b])'
      BY <1>1, <2>2 DEF Usable, Live
    <3> QED BY <3>1, <3>2 DEF Kept
  <2>3. CASE S!Answer(r)
    <3>1. ~req[r].orphan /\ cookie' = IF req[r].at = "ok" THEN [cookie EXCEPT ![b] = S!NewCookie(r)] ELSE cookie
      BY <1>6, <2>3 DEF S!Answer
    <3>2. CASE b \in excused
      <4>1. req[r].at = "ok" /\ S!Undisturbed(r)
        BY <1>4, <1>6, <2>3, <3>2 DEF S!Answer
      <4>2. cookie'[b] = S!NewCookie(r) /\ S!FromBrowser(b) = {r}
        BY <1>6, <2>1, <3>1, <4>1 DEF S!Undisturbed
      <4>3. CASE req[r].op = "logout"
        BY <4>2, <4>3 DEF S!NewCookie, Usable
      <4>4. CASE req[r].op = "login" /\ ~tokens[req[r].token].revoked
        <5>1. cookie'[b] = req[r].token /\ req[r].token \in 1 .. Len(tokens)
          <6>1. req[r].token # 0 /\ req[r].token \in 0 .. Len(tokens) /\ Len(tokens) \in Nat
            BY <1>1, <4>1, <4>4, RowFacts DEF HandOK, ShapeInv
          <6> QED BY <4>2, <4>4, <6>1 DEF S!NewCookie
        <5>2. Live(tokens[req[r].token].family) = {req[r].token}
          BY <1>1, <4>1, <4>4, <5>1 DEF HoldersInv, NewSignIn, Live
        <5> QED BY <4>2, <5>1, <5>2 DEF Usable
      <4> QED BY <4>1, <4>3, <4>4 DEF S!Undisturbed
    <3>3. CASE b \notin excused
      <4>1. Undisputed(b, r) /\ S!FromBrowser(b) = {r}
        BY <1>1, <1>4, <1>6, <3>3, ActorUndisputed DEF KeptInv
      <4>2. CASE req[r].at = "refused"
        BY <3>1, <4>1, <4>2 DEF Undisputed, Replaces
      <4>3. CASE req[r].at = "ok"
        <5>1. cookie'[b] = S!NewCookie(r)
          BY <2>1, <3>1, <4>3
        <5>2. CASE Refreshes(r) \/ req[r].op = "login"
          BY <4>1, <4>3, <5>1, <5>2 DEF Undisputed, S!NewCookie, Refreshes
        <5>3. CASE req[r].op = "logout"
          BY <4>1, <5>1, <5>3 DEF S!NewCookie, Usable
        <5>4. CASE req[r].op = "confirm"
          BY <1>6, <4>1, <4>3, <5>1, <5>4 DEF S!NewCookie, Undisputed, Replaces, Refreshes
        <5> QED BY <1>1, <5>2, <5>3, <5>4 DEF StageOK
      <4> QED BY <1>1, <4>2, <4>3
    <3> QED BY <3>2, <3>3
  <2>4. ~S!LateAnswer(r)
    <3>1. SUFFICES ASSUME S!LateAnswer(r) PROVE FALSE
      OBVIOUS
    <3>2. req[r].orphan /\ b \notin excused
      BY <1>4, <3>1 DEF S!LateAnswer
    <3> QED BY <1>1, <1>4, <1>6, <3>2, ActorUndisputed DEF KeptInv, Undisputed
  <2>5. ~S!LoseAnswer(r)
    BY <1>4, <1>6 DEF S!LoseAnswer
  <2> QED BY <2>3, <2>4, <2>5 DEF S!Receive
<1> QED BY <1>5, <1>6

LEMMA BeginKept ==
    ASSUME ShapeInv, KeptInv, NEW p, NEW r, Begins(p, r)
    PROVE  KeptInv'
<1>1. /\ S!Busy' = S!Busy \cup {r} /\ S!Jar(p) \in Browsers /\ r \notin S!Busy
      /\ S!FromBrowser(S!Jar(p))' = S!FromBrowser(S!Jar(p)) \cup {r}
      /\ \A b : b # S!Jar(p) => S!FromBrowser(b)' = S!FromBrowser(b)
      /\ \A q \in S!Busy : q \notin S!FromBrowser(S!Jar(p)) => req'[q] = req[q]
      /\ UNCHANGED <<tokens, cookie>> /\ RowsKept /\ excused \subseteq excused'
  BY BeginFacts, BeginShape DEF Begins
<1>2. \A f : Live(f)' = Live(f)
  BY <1>1 DEF Live
<1>3. SUFFICES ASSUME NEW b \in Browsers, b \notin excused' PROVE Kept(b)'
  BY DEF KeptInv
<1>4. Kept(b)
  BY <1>1, <1>3 DEF KeptInv
<1>5. CASE b = S!Jar(p)
  <2>1. S!FromBrowser(b) = {} /\ S!FromBrowser(b)' = {r}
    BY <1>1, <1>3, <1>5 DEF Begins
  <2>2. Usable(cookie[b])'
    BY <1>1, <1>4, <2>1 DEF Kept, Usable, Live
  <2>3. /\ ~req'[r].orphan /\ req'[r].at = "sent"
        /\ req'[r].op \in {"mount", "renew", "logout"} => req'[r].token = cookie'[b]
    BY <1>1, <1>5 DEF Begins
  <2>4. Undisputed(b, r)'
    BY <2>2, <2>3 DEF Undisputed, Refreshes, Replaces
  <2> QED BY <2>1, <2>4 DEF Kept
<1>6. CASE b # S!Jar(p)
  <2>1. \A q \in S!FromBrowser(b) : req'[q] = req[q]
    BY <1>1, <1>6 DEF S!FromBrowser
  <2> QED BY <1>1, <1>2, <1>3, <1>4, <1>6, <2>1, KeptElsewhere
<1> QED BY <1>5, <1>6

LEMMA RefuseKept ==
    ASSUME ShapeInv, KeptInv, Refuses
    PROVE  KeptInv'
<1>1. SUFFICES ASSUME NEW b \in Browsers, b \notin excused' PROVE Kept(b)'
  BY DEF KeptInv
<1>2. S!FromBrowser(b) = {} /\ b \notin excused /\ S!FromBrowser(b)' = {} /\ UNCHANGED <<tokens, cookie>>
  BY <1>1 DEF Refuses
<1>3. Usable(cookie[b])
  BY <1>1, <1>2 DEF KeptInv, Kept
<1> QED BY <1>2, <1>3 DEF Kept, Usable, Live

-----------------------------------------------------------------------------
(* The invariant.                                                            *)

LEMMA InvStart ==
    ASSUME S!Init
    PROVE  SessionsInv
<1>1. /\ tokens = <<>> /\ links = <<>> /\ cookie = [b \in Browsers |-> 0]
      /\ req = [r \in B |-> S!Idle] /\ excused = {}
      /\ access = [p \in S!Pages |-> None] /\ signed = [p \in S!Pages |-> None]
      /\ loading = [p \in S!Pages |-> FALSE]
  BY DEF S!Init
<1>2. tokens \in Seq(S!TokenType) /\ links \in Seq(S!LinkType) /\ Len(tokens) = 0
  BY <1>1, EmptySeq
<1>3. 1 .. Len(tokens) = {} /\ 0 .. Len(tokens) = {0}
  BY <1>2
<1>4. S!Busy = {} /\ \A b : S!FromBrowser(b) = {}
  BY <1>1 DEF S!Busy, S!Free, S!Idle, S!FromBrowser
<1>5. RowsInv /\ RequestsInv /\ PagesInv
  BY <1>1, <1>2, <1>3, <1>4 DEF RowsInv, RequestsInv, PagesInv
<1>6. HoldersInv
  BY <1>3, <1>4 DEF HoldersInv, OneHolder
<1>7. KeptInv
  BY <1>1, <1>4 DEF KeptInv, Kept, Usable
<1> QED BY <1>5, <1>6, <1>7 DEF SessionsInv

LEMMA InvStep ==
    ASSUME SessionsInv, [S!Next]_(S!vars)
    PROVE  SessionsInv'
<1>1. ShapeInv /\ HoldersInv /\ KeptInv
  BY DEF SessionsInv, ShapeInv
<1>2. SUFFICES ShapeInv' /\ HoldersInv' /\ KeptInv'
  BY DEF SessionsInv, ShapeInv
<1>3. ASSUME NEW r \in B, S!Serve(r) PROVE ShapeInv' /\ HoldersInv' /\ KeptInv'
  <2>1. ShapeInv' /\ Moves(r) /\ UNCHANGED cookie /\ KeptInv'
    BY <1>1, <1>3, ServeShape, ServeKept
  <2>2. CASE S!IssueSession(r)
    BY <1>1, <2>1, <2>2, IssueHolders
  <2>3. CASE S!ReadToken(r)
    <3>1. SameRows /\ req'[r].token = req[r].token /\ Refreshes(r)
      BY <1>1, <2>3, ReadTokenFacts, SameTokens DEF ShapeInv, S!ReadToken
    <3> QED BY <1>1, <2>1, <3>1, MoveHolders DEF Refreshes
  <2>4. CASE S!CheckPassword(r) \/ S!ReadOwnToken(r) \/ S!ReadLink(r)
    <3>1. /\ SameRows /\ req'[r].token = req[r].token
          /\ req[r].op = "login" => req'[r].at # "ok"
      BY <1>1, <2>4, QuietServe, SameTokens DEF ShapeInv
    <3> QED BY <1>1, <2>1, <3>1, MoveHolders
  <2>5. CASE S!RevokeFamily(r) \/ S!RevokeToken(r) \/ S!RevokeOwnToken(r) \/ S!ApplyReset(r)
    <3>1. PICK New, at :
              /\ Revokes(r, New, at)
              /\ \/ Refreshes(r) /\ req[r].at = "revokeFamily" /\ at = "refused"
                 \/ Refreshes(r) /\ req[r].at = "revoke" /\ at = "issue" /\ New = {req[r].token}
                 \/ req[r].op = "logout" /\ req[r].at = "revokeOwn" /\ at = "ok"
                 \/ req[r].op = "confirm" /\ req[r].at = "apply" /\ at = "ok"
      BY <1>1, <2>5, RevokeActions DEF ShapeInv
    <3>2. SameRows /\ req'[r].token = req[r].token
      BY <1>1, <3>1, RevokesRequest DEF ShapeInv
    <3> QED BY <1>1, <2>1, <3>1, <3>2, MoveHolders DEF Refreshes
  <2> QED BY <1>3, <2>1, <2>2, <2>3, <2>4, <2>5 DEF S!Serve
<1>4. ASSUME NEW r \in B, S!Receive(r) PROVE ShapeInv' /\ HoldersInv' /\ KeptInv'
  BY <1>1, <1>4, ReceiveShape, DeliverHolders, ReceiveKept
<1>5. ASSUME NEW p \in S!Pages, NEW r \in B, S!Visit(p, r)
      PROVE  ShapeInv' /\ HoldersInv' /\ KeptInv'
  BY <1>1, <1>5, VisitShape, BeginHolders, BeginKept
<1>6. CASE (\E u \in Users : S!RequestReset(u)) \/ (\E p \in S!Pages : S!AccessExpires(p))
  <2>1. ShapeInv' /\ UNCHANGED <<tokens, cookie, req, excused>>
    BY <1>1, <1>6, RestShape
  <2> QED BY <1>1, <2>1 DEF HoldersInv, OneHolder, Holds, NewSignIn, Others, KeptInv, Kept,
                            Undisputed, Usable, Live, Replaces, Refreshes, S!FromBrowser, S!Busy, S!Free
<1>7. CASE S!Restart
  BY <1>1, <1>7, RestartRefuses, RefusesShape, RefuseHolders, RefuseKept
<1>8. CASE UNCHANGED S!vars
  <2>1. UNCHANGED <<tokens, links, cookie, access, signed, loading, req, excused>>
    BY <1>8 DEF S!vars
  <2>2. RowsInv' /\ PagesInv'
    BY <1>1, <2>1 DEF ShapeInv, RowsInv, PagesInv
  <2>3. RequestsInv'
    BY <1>1, <2>1 DEF ShapeInv, RequestsInv, StageOK, HandOK, Refreshes, S!Busy, S!Free
  <2>4. HoldersInv'
    BY <1>1, <2>1 DEF HoldersInv, OneHolder, Holds, NewSignIn, Others, S!FromBrowser, S!Busy, S!Free
  <2>5. KeptInv'
    BY <1>1, <2>1 DEF KeptInv, Kept, Undisputed, Usable, Live, Replaces, Refreshes, S!FromBrowser,
                      S!Busy, S!Free
  <2> QED BY <2>2, <2>3, <2>4, <2>5 DEF ShapeInv
<1> QED BY <1>3, <1>4, <1>5, <1>6, <1>7, <1>8 DEF S!Next

THEOREM SessionsInvCorrect == S!Spec => []SessionsInv
<1>1. S!Init => SessionsInv
  BY InvStart
<1>2. SessionsInv /\ [S!Next]_(S!vars) => SessionsInv'
  BY InvStep
<1> QED BY <1>1, <1>2, PTL DEF S!Spec

(* Rows, links, cookies, pages and requests keep their shape.                *)
THEOREM SessionsTypeCorrect == S!Spec => []S!TypeOK
<1>1. SessionsInv => S!TypeOK
  <2>1. SessionsInv => Len(tokens) \in Nat
    BY RowFacts DEF SessionsInv
  <2> QED BY <2>1 DEF SessionsInv, RowsInv, RequestsInv, PagesInv, S!TypeOK
<1> QED BY <1>1, SessionsInvCorrect, PTL

(* The parent of a row is an older row of the same family, and is spent:     *)
(* refresh_session commits the revocation before it inserts the successor.   *)
THEOREM ParentSpent == S!Spec => []S!ParentIsSpent
<1>1. SessionsInv => S!ParentIsSpent
  <2>1. SUFFICES ASSUME SessionsInv, NEW t \in 1 .. Len(tokens), tokens[t].parent # 0
                 PROVE  /\ tokens[t].parent < t
                        /\ tokens[tokens[t].parent].revoked
                        /\ tokens[tokens[t].parent].family = tokens[t].family
    BY RowFacts DEF S!ParentIsSpent, SessionsInv
  <2>2. Len(tokens) \in Nat /\ tokens[t].parent \in 1 .. t - 1
    BY <2>1, RowFacts DEF SessionsInv, RowsInv
  <2> QED BY <2>1, <2>2 DEF SessionsInv, RowsInv
<1> QED BY <1>1, SessionsInvCorrect, PTL

(* A browser nothing disturbed and with nothing under way has in its cookie  *)
(* the one token of its family that can still be redeemed.                   *)
THEOREM SurvivesCorrect == S!Spec => []S!SessionSurvives
<1>1. SessionsInv => S!SessionSurvives
  <2>1. SUFFICES ASSUME SessionsInv, NEW b \in Browsers \ excused, S!FromBrowser(b) = {}, cookie[b] # 0
                 PROVE  {t \in S!Family(tokens[cookie[b]].family) : ~tokens[t].revoked} = {cookie[b]}
    BY DEF S!SessionSurvives
  <2>2. Usable(cookie[b])
    BY <2>1 DEF SessionsInv, KeptInv, Kept
  <2>3. DOMAIN tokens = 1 .. Len(tokens)
    BY <2>1, RowFacts DEF SessionsInv
  <2> QED BY <2>1, <2>2, <2>3 DEF Usable, Live, S!Family
<1> QED BY <1>1, SessionsInvCorrect, PTL

-----------------------------------------------------------------------------
(* A family that has ended stays so.                                         *)

LEMMA EndedWithRows ==
    ASSUME RowsInv, RowsInv', SameRows, NEW f, S!Ended(f),
           \A r \in S!Busy' : req'[r].at \in {"revoke", "issue"} /\ req'[r].family = f =>
               r \in S!Rotating(f)
    PROVE  S!Ended(f)'
<1>1. S!Rotating(f)' = {}
  BY DEF S!Ended, S!Rotating
<1>2. /\ DOMAIN tokens = 1 .. Len(tokens) /\ DOMAIN tokens' = 1 .. Len(tokens')
  BY LenProperties DEF RowsInv
<1>3. \A t \in S!Family(f)' : tokens'[t].revoked
  BY <1>2 DEF S!Ended, S!Family, SameRows
<1> QED BY <1>1, <1>3 DEF S!Ended

LEMMA EndedIssue ==
    ASSUME SessionsInv, NEW r \in B, S!IssueSession(r), NEW f \in S!Families, S!Ended(f)
    PROVE  S!Ended(f)'
<1>1. /\ RowsInv' /\ Issued(r) /\ r \in S!Busy /\ Moves(r) /\ HandOK(r)
      /\ Len(tokens) \in Nat /\ req'[r].at = "ok"
  BY IssueFacts, IssueRequests, BusyFacts, RowFacts DEF SessionsInv
<1>2. PICK n : n = Len(tokens) + 1
  OBVIOUS
<1>3. /\ DOMAIN tokens = 1 .. Len(tokens) /\ DOMAIN tokens' = 1 .. n
      /\ 1 .. n = 1 .. Len(tokens) \cup {n}
      /\ \A t \in 1 .. Len(tokens) : tokens'[t] = tokens[t]
  BY <1>1, <1>2, LenProperties DEF SessionsInv, RowsInv, Issued
<1>4. tokens'[n].family # f
  <2>1. CASE req[r].op = "login"
    <3>1. PICK t \in 1 .. Len(tokens) : f = tokens[t].family
      BY <1>3 DEF S!Families
    <3>2. f \in 1 .. t
      BY <3>1, RowFacts DEF SessionsInv
    <3> QED BY <1>1, <1>2, <2>1, <3>2 DEF Issued
  <2>2. CASE req[r].op # "login"
    BY <1>1, <1>2, <2>2 DEF Issued, S!Ended, S!Rotating
  <2> QED BY <2>1, <2>2
<1>5. \A t \in S!Family(f)' : tokens'[t].revoked
  BY <1>3, <1>4 DEF S!Ended, S!Family
<1>6. S!Rotating(f)' = {}
  <2>1. S!Busy' = S!Busy /\ \A q \in S!Busy \ {r} : req'[q] = req[q]
    BY <1>1, MoveFacts DEF SessionsInv, Moves, S!Busy
  <2> QED BY <1>1, <2>1 DEF S!Ended, S!Rotating
<1> QED BY <1>5, <1>6 DEF S!Ended

LEMMA EndedServe ==
    ASSUME SessionsInv, SessionsInv', NEW r \in B, S!Serve(r), NEW f \in S!Families, S!Ended(f)
    PROVE  S!Ended(f)'
<1>1. ShapeInv /\ Moves(r)
  BY ServeShape DEF SessionsInv, ShapeInv
<1>2. S!Busy' = S!Busy /\ \A q \in S!Busy \ {r} : req'[q] = req[q]
  BY <1>1, MoveFacts DEF ShapeInv, Moves, S!Busy
<1>3. \A q \in S!Busy' : q # r /\ req'[q].at \in {"revoke", "issue"} /\ req'[q].family = f =>
          q \in S!Rotating(f)
  BY <1>2 DEF S!Rotating
<1>4. SUFFICES ASSUME ~S!IssueSession(r)
               PROVE  /\ SameRows
                      /\ req'[r].at \in {"revoke", "issue"} /\ req'[r].family = f => r \in S!Rotating(f)
  BY <1>3, EndedIssue, EndedWithRows DEF SessionsInv
<1>5. CASE S!ReadToken(r)
  <2>1. /\ SameRows /\ Refreshes(r) /\ req[r].at = "sent" /\ r \in S!Busy /\ HandOK(r)
        /\ req'[r].at \in S!Verdicts(req[r].token)
        /\ req[r].token # 0 => req'[r].family = tokens[req[r].token].family
    BY <1>1, <1>5, ReadTokenFacts, SameTokens, BusyFacts DEF S!ReadToken, ShapeInv, Moves
  <2>2. ASSUME req'[r].at \in {"revoke", "issue"}, req'[r].family = f PROVE FALSE
    <3>1. req[r].token # 0 /\ ~tokens[req[r].token].revoked
      BY <2>1, <2>2 DEF S!Verdicts
    <3>2. req[r].token \in DOMAIN tokens
      BY <2>1, <3>1, <1>1, RowFacts DEF ShapeInv, HandOK, Refreshes
    <3> QED BY <2>1, <2>2, <3>1, <3>2 DEF S!Ended, S!Family
  <2> QED BY <2>1, <2>2
<1>6. CASE S!CheckPassword(r) \/ S!ReadOwnToken(r) \/ S!ReadLink(r)
  <2>1. /\ SameRows /\ ~Refreshes(r)
        /\ req[r].op \in {"logout", "confirm", "login"} /\ StageOK(r)' /\ HandOK(r)'
    BY <1>1, <1>2, <1>6, QuietServe, SameTokens DEF ShapeInv, RequestsInv, Moves
  <2>2. f # 0
    BY <1>1, RowFacts DEF S!Families, ShapeInv
  <2> QED BY <1>1, <2>1, <2>2 DEF StageOK, HandOK, Refreshes, Moves
<1>7. CASE S!RevokeFamily(r) \/ S!RevokeToken(r) \/ S!RevokeOwnToken(r) \/ S!ApplyReset(r)
  <2>1. PICK New, at :
            /\ Revokes(r, New, at)
            /\ \/ Refreshes(r) /\ req[r].at = "revokeFamily" /\ at = "refused"
               \/ Refreshes(r) /\ req[r].at = "revoke" /\ at = "issue" /\ New = {req[r].token}
               \/ req[r].op = "logout" /\ req[r].at = "revokeOwn" /\ at = "ok"
               \/ req[r].op = "confirm" /\ req[r].at = "apply" /\ at = "ok"
    BY <1>1, <1>7, RevokeActions DEF ShapeInv
  <2>2. SameRows /\ req'[r].at = at /\ req'[r].family = req[r].family
    BY <1>1, <2>1, RevokesRequest DEF ShapeInv
  <2> QED BY <1>1, <2>1, <2>2 DEF S!Rotating, Moves
<1> QED BY <1>4, <1>5, <1>6, <1>7 DEF S!Serve

LEMMA EndedStep ==
    ASSUME SessionsInv, SessionsInv', [S!Next]_(S!vars)
    PROVE  \A f \in S!Families : S!Ended(f) => S!Ended(f)'
<1>1. SUFFICES ASSUME NEW f \in S!Families, S!Ended(f) PROVE S!Ended(f)'
  OBVIOUS
<1>2. ShapeInv /\ RowsInv /\ RowsInv'
  BY DEF SessionsInv, ShapeInv
<1>3. ASSUME NEW r \in B, S!Receive(r) PROVE S!Ended(f)'
  <2>1. Delivers(r) /\ SameRows
    BY <1>2, <1>3, ReceiveShape, SameTokens DEF Delivers
  <2>2. S!Busy' \subseteq S!Busy /\ \A q \in S!Busy' : req'[q] = req[q]
    BY <1>2, <2>1, EndFacts DEF Delivers, ShapeInv
  <2> QED BY <1>1, <1>2, <2>1, <2>2, EndedWithRows DEF S!Rotating
<1>4. ASSUME NEW p \in S!Pages, NEW r \in B, S!Visit(p, r) PROVE S!Ended(f)'
  <2>1. Begins(p, r)
    BY <1>2, <1>4, VisitShape
  <2>2. /\ SameRows /\ S!Busy' = S!Busy \cup {r} /\ req'[r].at = "sent"
        /\ \A q \in S!Busy : req'[q].at = req[q].at /\ req'[q].family = req[q].family
    BY <1>2, <2>1, BeginFacts, SameTokens DEF Begins
  <2> QED BY <1>1, <1>2, <2>2, EndedWithRows DEF S!Rotating
<1>5. CASE S!Restart
  <2>1. Refuses
    BY <1>2, <1>5, RestartRefuses
  <2> QED BY <1>1, <1>2, <2>1, SameTokens, EndedWithRows DEF Refuses, S!Rotating
<1>6. CASE UNCHANGED <<tokens, req>>
  BY <1>1, <1>6 DEF S!Ended, S!Family, S!Rotating, S!Busy, S!Free
<1>7. CASE (\E u \in Users : S!RequestReset(u)) \/ (\E p \in S!Pages : S!AccessExpires(p))
  BY <1>2, <1>6, <1>7, RestShape
<1>8. CASE UNCHANGED S!vars
  BY <1>6, <1>8 DEF S!vars
<1> QED BY <1>1, <1>3, <1>4, <1>5, <1>7, <1>8, EndedServe DEF S!Next

(* No step gives a usable token to a family that had none and no rotation    *)
(* under way.                                                                *)
THEOREM EndedCorrect == S!Spec => S!EndedStaysEnded
<1>1. SessionsInv /\ SessionsInv' /\ [S!Next]_(S!vars) => [\A f \in S!Families : S!Ended(f) => S!Ended(f)']_(S!vars)
  BY EndedStep
<1> QED BY <1>1, SessionsInvCorrect, PTL DEF S!Spec, S!EndedStaysEnded

(* Refresh tokens rotate soundly (auth/router.py:351-386), for any number of *)
(* users, browsers, pages and requests, with lost answers and restarts.      *)
THEOREM SessionsCorrect == Spec => SessionsRotate
<1>1. S!Spec => []S!TypeOK /\ []S!ParentIsSpent /\ []S!SessionSurvives /\ S!EndedStaysEnded
  BY SessionsTypeCorrect, ParentSpent, SurvivesCorrect, EndedCorrect, PTL
<1>2. S!TypeOK /\ S!ParentIsSpent /\ S!SessionSurvives =>
        (part \in {"sessions", "resets"} => S!TypeOK /\ S!ParentIsSpent /\ S!SessionSurvives)
  OBVIOUS
<1> QED BY <1>1, <1>2, AccountsOfSpec, PTL DEF SessionsRotate

-----------------------------------------------------------------------------
(* What a request under way must have established, by what it is at. *)
PhoneOps == {"signup_phone", "login_phone", "link_phone"}

(* What each handler may be doing, and for whom. *)
KindOK(r) ==
    \/ /\ r.op \in PhoneOps /\ r.id \in Phones
       /\ r.at \in {"issue", "verify", "miss", "consume", "account"}
    \/ /\ r.op = "login_phone" /\ r.id \in Phones /\ r.at = "record"
    \/ /\ r.op \in {"signup_phone", "link_phone"} /\ r.id \in Phones /\ r.at = "write"
    \/ /\ r.op = "signup_email" /\ r.id \in Emails /\ r.at = "write"
    \/ /\ r.op = "login_email" /\ r.id \in Emails /\ r.at \in {"password", "record"}
    \/ /\ r.op = "call" /\ r.id \in Endpoints /\ r.at = "log"

(* The rows it may yet insert, all of them in one step. *)
LogsOK(r) ==
    /\ r.logs \subseteq O!Logs
    /\ r.at = "issue" => r.logs = {<<"otp", r.id>>}
    /\ r.at = "log" => r.logs = {<<"call", r.id>>}
    /\ r.op \in {"login_phone", "login_email"} /\ r.at # "issue" => r.logs = O!FailureLogs(r.id)

(* The code in hand is one that was sent to the phone; once redeemed it is   *)
(* marked, and a wrong guess at it has been made before it is counted.       *)
CodeOK(r) ==
    /\ r.at \in {"miss", "consume"} \/ (r.at \in {"account", "write"} /\ r.op # "signup_email") =>
           r.code \in DOMAIN codes /\ codes[r.code].phone = r.id
    /\ r.at \in {"account", "write"} /\ r.op # "signup_email" => codes[r.code].consumed
    /\ r.at = "miss" => r.seen < codes[r.code].wrong

UserOK(r) == IF r.op = "link_phone" THEN r.user \in DOMAIN users ELSE r.user = 0

RequestOK(r) == KindOK(r) /\ LogsOK(r) /\ CodeOK(r) /\ UserOK(r)

ThreadOK(t) == codeTh[t] # O!Idle => RequestOK(codeTh[t])

ThreadsInv ==
    /\ users \in Seq(O!UserType)
    /\ codes \in Seq(O!CodeType)
    /\ recent \in [O!Logs -> Nat]
    /\ codeTh \in [A -> {O!Idle} \cup O!ThreadType]
    /\ \A t \in A : ThreadOK(t)

-----------------------------------------------------------------------------
(* Sequences by their positions. *)

LEMMA AppendFacts ==
    ASSUME NEW Elems, NEW s \in Seq(Elems), NEW e \in Elems
    PROVE  /\ Append(s, e) \in Seq(Elems)
           /\ Len(s) \in Nat
           /\ DOMAIN s = 1 .. Len(s)
           /\ DOMAIN Append(s, e) = 1 .. Len(s) + 1
           /\ \A i \in DOMAIN s : i \in DOMAIN Append(s, e) /\ Append(s, e)[i] = s[i]
           /\ Append(s, e)[Len(s) + 1] = e
           /\ \A i \in DOMAIN Append(s, e) \ DOMAIN s : i = Len(s) + 1
<1>1. Len(s) \in Nat /\ DOMAIN s = 1 .. Len(s) /\ Append(s, e) \in Seq(Elems)
      /\ Len(Append(s, e)) = Len(s) + 1
      /\ \A i \in 1 .. Len(s) : Append(s, e)[i] = s[i]
      /\ Append(s, e)[Len(s) + 1] = e
  BY AppendProperties, LenProperties
<1>2. DOMAIN Append(s, e) = 1 .. Len(s) + 1
  BY <1>1, LenProperties
<1> QED BY <1>1, <1>2

-----------------------------------------------------------------------------
(* A finite set of numbers has a least element, and a greatest one. *)

LEMMA Least ==
    ASSUME NEW Numbers \in SUBSET Nat, Numbers # {}
    PROVE  \E x \in Numbers : \A y \in Numbers : x <= y
<1> DEFINE Less == {r \in Nat \X Nat : r[1] < r[2]}
<1>1. OpToRel(<, Nat) = Less
  BY DEF OpToRel
<1>2. IsWellFoundedOn(Less, Nat)
  BY <1>1, NatLessThanWellFounded
<1> HIDE DEF Less
<1>3. PICK x \in Numbers : \A y \in Numbers : ~(<<y, x>> \in Less)
  BY <1>2, WFMin, Zenon
<1>4. ASSUME NEW y \in Numbers PROVE x <= y
  <2>1. x \in Nat /\ y \in Nat
    OBVIOUS
  <2>2. y < x => <<y, x>> \in Less
    BY <2>1 DEF Less
  <2> QED BY <1>3, <2>1, <2>2
<1> QED BY <1>4

LEMMA Greatest ==
    ASSUME NEW n \in Nat, NEW Set \in SUBSET (1 .. n), Set # {}
    PROVE  \E k \in Set : \A j \in Set : j <= k
<1> DEFINE Numbers == {n - k : k \in Set}
<1>1. Numbers \in SUBSET Nat /\ Numbers # {}
  <2>1. \A k \in Set : n - k \in Nat
    OBVIOUS
  <2> QED BY <2>1
<1> HIDE DEF Numbers
<1>2. PICK x \in Numbers : \A y \in Numbers : x <= y
  BY <1>1, Least
<1>3. PICK k \in Set : x = n - k
  BY <1>2 DEF Numbers
<1>4. \A j \in Set : n - j \in Numbers
  BY DEF Numbers
<1> QED BY <1>2, <1>3, <1>4

LEMMA LatestFacts ==
    ASSUME ThreadsInv, NEW phone, O!ValidCodes(phone) # {}
    PROVE  /\ O!Latest(O!ValidCodes(phone)) \in DOMAIN codes
           /\ codes[O!Latest(O!ValidCodes(phone))].phone = phone
<1>1. DOMAIN codes = 1 .. Len(codes) /\ Len(codes) \in Nat
  BY LenProperties DEF ThreadsInv
<1>2. O!ValidCodes(phone) \in SUBSET (1 .. Len(codes))
  BY <1>1 DEF O!ValidCodes
<1>3. O!Latest(O!ValidCodes(phone)) \in O!ValidCodes(phone)
  BY <1>1, <1>2, Greatest DEF O!Latest
<1> QED BY <1>3 DEF O!ValidCodes

-----------------------------------------------------------------------------
(* The windows. *)

(* The failed sign-ins still in their windows, each as one row: they are the *)
(* rows of the address, which every one of them counts for too.              *)
LoginLogs == {"login"} \X O!Identifiers

LoginRows == {row \in LoginLogs \X Nat : row[2] \in 1 .. recent[row[1]]}

CodesRowsInv ==
    /\ IsFiniteSet(LoginRows)
    /\ recent[O!Address] = Cardinality(LoginRows)

(* The requests that may yet add a row to a log. *)
Writers(l) == {t \in A : l \in codeTh[t].logs}

(* A window has room for every writer beyond its limit. *)
LimitsInv ==
    \A l \in O!Logs :
        recent[l] + Cardinality(Writers(l)) <= O!Limit(l) + Cardinality(A) - 1

CodesInv == ThreadsInv /\ CodesRowsInv

AccountsInv == CodesInv /\ LimitsInv /\ O!AttemptsWereMade /\ O!OneAccountEach /\ O!PhoneWasProved

LEMMA InitInv ==
    ASSUME O!LimitsAssumption, O!ThreadsAssumption, O!Init
    PROVE  AccountsInv
<1>1. DOMAIN <<>> = {} /\ (\A Elems : <<>> \in Seq(Elems))
  BY EmptySeq, LenProperties
<1>2. ThreadsInv
  BY <1>1 DEF O!Init, ThreadsInv, ThreadOK
<1>3. LoginRows = {}
  <2>1. \A l \in LoginLogs : l \in O!Logs /\ recent[l] = 0
    BY DEF O!Init, LoginLogs, O!Logs
  <2> QED BY <2>1 DEF LoginRows
<1>4. CodesRowsInv
  BY <1>3, FS_EmptySet DEF CodesRowsInv, O!Init, O!Logs
<1>5. LimitsInv
  <2>1. \A l : Writers(l) = {}
    BY DEF Writers, O!Init, O!Idle
  <2>2. \A l \in O!Logs : O!Limit(l) \in Nat \ {0}
    BY DEF O!Logs, O!Limit, O!Address, O!LimitsAssumption
  <2>3. Cardinality({}) = 0 /\ Cardinality(A) \in Nat /\ Cardinality(A) # 0
    BY FS_EmptySet, FS_CardinalityType, FiniteThreads
  <2>4. \A l \in O!Logs : recent[l] = 0
    BY DEF O!Init
  <2>5. ASSUME NEW l \in O!Logs
        PROVE  recent[l] + Cardinality(Writers(l)) <= O!Limit(l) + Cardinality(A) - 1
    <3>1. Cardinality(Writers(l)) = 0 /\ recent[l] = 0 /\ O!Limit(l) \in Nat \ {0}
      BY <2>1, <2>2, <2>3, <2>4
    <3> QED BY <2>3, <3>1
  <2> QED BY <2>5 DEF LimitsInv
<1>6. O!AttemptsWereMade /\ O!OneAccountEach /\ O!PhoneWasProved
  BY <1>1 DEF O!Init, O!AttemptsWereMade, O!OneAccountEach, O!PhoneWasProved
<1> QED BY <1>2, <1>4, <1>5, <1>6 DEF AccountsInv, CodesInv

-----------------------------------------------------------------------------
(* What a request has established stays so: rows are never deleted, a code   *)
(* keeps its phone, stays redeemed, and the guesses at it only grow.         *)
Grows ==
    /\ DOMAIN users \subseteq DOMAIN users'
    /\ DOMAIN codes \subseteq DOMAIN codes'
    /\ \A k \in DOMAIN codes :
           /\ codes'[k].phone = codes[k].phone
           /\ codes[k].consumed => codes'[k].consumed
           /\ codes[k].wrong \in Nat /\ codes'[k].wrong \in Nat
           /\ codes[k].wrong <= codes'[k].wrong

LEMMA RowTypes ==
    ASSUME ThreadsInv
    PROVE  /\ DOMAIN codes = 1 .. Len(codes) /\ Len(codes) \in Nat
           /\ \A k \in DOMAIN codes : codes[k] \in O!CodeType
           /\ DOMAIN users = 1 .. Len(users) /\ Len(users) \in Nat
           /\ \A u \in DOMAIN users : users[u] \in O!UserType
BY LenProperties, ElementOfSeq DEF ThreadsInv

LEMMA CodesRowsKept ==
    ASSUME ThreadsInv, UNCHANGED <<users, codes>>
    PROVE  Grows
BY RowTypes DEF Grows, O!CodeType

LEMMA CodesRequestStays ==
    ASSUME NEW t \in A, UNCHANGED codeTh[t], codeTh[t] \in {O!Idle} \cup O!ThreadType,
           ThreadOK(t), Grows
    PROVE  ThreadOK(t)'
BY DEF ThreadOK, RequestOK, KindOK, LogsOK, CodeOK, UserOK, Grows, O!ThreadType

(* A step of thread t: the others' requests stay as they are. *)
LEMMA ThreadStep ==
    ASSUME ThreadsInv, Grows, NEW t \in A, NEW r \in {O!Idle} \cup O!ThreadType,
           codeTh' = [codeTh EXCEPT ![t] = r], ThreadOK(t)',
           users' \in Seq(O!UserType), codes' \in Seq(O!CodeType), recent' \in [O!Logs -> Nat]
    PROVE  ThreadsInv'
<1>1. codeTh' \in [A -> {O!Idle} \cup O!ThreadType]
  BY DEF ThreadsInv
<1>2. ASSUME NEW u \in A
      PROVE  ThreadOK(u)'
  <2>1. CASE u # t
    <3>1. codeTh'[u] = codeTh[u]
      BY <2>1 DEF ThreadsInv
    <3> QED BY <3>1, CodesRequestStays DEF ThreadsInv
  <2> QED BY <2>1
<1> QED BY <1>1, <1>2 DEF ThreadsInv

(* A step of no thread. *)
LEMMA OtherStep ==
    ASSUME ThreadsInv, Grows, UNCHANGED codeTh,
           users' \in Seq(O!UserType), codes' \in Seq(O!CodeType), recent' \in [O!Logs -> Nat]
    PROVE  ThreadsInv'
BY CodesRequestStays DEF ThreadsInv

-----------------------------------------------------------------------------
(* What requests do, one step of a thread at a time. *)

(* A request as it is taken up. *)
Taken(op, id, user, at, logs) ==
    [at |-> at, op |-> op, id |-> id, user |-> user, code |-> 0, seen |-> 0, logs |-> logs]

LEMMA BeginStep ==
    ASSUME O!LimitsAssumption, ThreadsInv, NEW t \in A, UNCHANGED <<users, codes, recent>>,
           NEW op, NEW id \in O!Identifiers \cup Endpoints, NEW user \in Nat,
           NEW at \in {"issue", "verify", "write", "password", "log"}, NEW logs,
           O!Begin(t, op, id, user, at, logs),
           KindOK(Taken(op, id, user, at, logs)), LogsOK(Taken(op, id, user, at, logs)),
           IF op = "link_phone" THEN user \in DOMAIN users ELSE user = 0,
           at = "write" => op = "signup_email"
    PROVE  ThreadsInv'
<1> DEFINE r == Taken(op, id, user, at, logs)
<1>1. Grows /\ AttemptLimit \in Nat \ {0}
  BY CodesRowsKept DEF O!LimitsAssumption
<1>2. /\ r.at = at /\ r.op = op /\ r.id = id /\ r.user = user /\ r.code = 0 /\ r.seen = 0
      /\ r.logs = logs
  BY DEF Taken
<1>3. op \in Ops /\ logs \subseteq O!Logs
  BY <1>2 DEF O!Begin, LogsOK
<1>4. r \in O!ThreadType
  BY <1>1, <1>3 DEF Taken, O!ThreadType
<1>5. codeTh' = [codeTh EXCEPT ![t] = r]
  BY DEF O!Begin, Taken
<1>6. codeTh'[t] = r
  BY <1>5 DEF ThreadsInv
<1>7. CodeOK(r) /\ UserOK(r)
  BY <1>2 DEF CodeOK, UserOK
<1> HIDE DEF r
<1>8. ThreadOK(t)'
  BY <1>6, <1>7 DEF ThreadOK, RequestOK, KindOK, LogsOK, UserOK, CodeOK, r
<1> QED BY <1>1, <1>4, <1>5, <1>8, ThreadStep DEF ThreadsInv

LEMMA BeginThreads ==
    ASSUME O!LimitsAssumption, ThreadsInv, NEW t \in A, O!Request(t)
    PROVE  ThreadsInv'
<1>1. DOMAIN users \subseteq Nat
  BY RowTypes
<1>2. ASSUME NEW p \in Phones, NEW op \in PhoneOps, NEW u \in Nat, O!PhoneOp(t, op, p, u),
             IF op = "link_phone" THEN u \in DOMAIN users ELSE u = 0
      PROVE  ThreadsInv'
  <2>1. p \in O!Identifiers \cup Endpoints /\ <<"otp", p>> \in O!Logs /\ O!FailureLogs(p) \subseteq O!Logs
    BY DEF O!Identifiers, O!Logs, O!FailureLogs
  <2>2. CASE O!StartCode(t, op, p, u)
    <3>1. KindOK(Taken(op, p, u, "issue", {<<"otp", p>>}))
      BY DEF KindOK, Taken
    <3>2. LogsOK(Taken(op, p, u, "issue", {<<"otp", p>>}))
      BY <2>1 DEF LogsOK, Taken
    <3> QED BY <1>2, <2>1, <2>2, <3>1, <3>2, BeginStep DEF O!StartCode
  <2>3. CASE O!BeginVerify(t, op, p, u)
    <3> DEFINE logs == IF op = "login_phone" THEN O!FailureLogs(p) ELSE {}
    <3>1. KindOK(Taken(op, p, u, "verify", logs))
      BY DEF KindOK, Taken
    <3>2. LogsOK(Taken(op, p, u, "verify", logs))
      BY <2>1 DEF LogsOK, Taken, PhoneOps
    <3>3. O!Begin(t, op, p, u, "verify", logs) /\ UNCHANGED <<users, codes, recent>>
      BY <2>3 DEF O!BeginVerify
    <3> HIDE DEF logs
    <3> QED BY <1>2, <2>1, <3>1, <3>2, <3>3, BeginStep
  <2> QED BY <1>2, <2>2, <2>3 DEF O!PhoneOp
<1>3. ASSUME NEW e \in Emails, O!SignupEmail(t, e)
      PROVE  ThreadsInv'
  <2>1. KindOK(Taken("signup_email", e, 0, "write", {})) /\ LogsOK(Taken("signup_email", e, 0, "write", {}))
    BY DEF KindOK, LogsOK, Taken
  <2> QED BY <1>3, <2>1, BeginStep DEF O!SignupEmail, O!Identifiers
<1>4. ASSUME NEW e \in Emails, O!LoginEmail(t, e)
      PROVE  ThreadsInv'
  <2>1. KindOK(Taken("login_email", e, 0, "password", O!FailureLogs(e)))
    BY DEF KindOK, Taken
  <2>2. LogsOK(Taken("login_email", e, 0, "password", O!FailureLogs(e)))
    BY DEF LogsOK, Taken, O!FailureLogs, O!Logs, O!Identifiers
  <2> QED BY <1>4, <2>1, <2>2, BeginStep DEF O!LoginEmail, O!Identifiers
<1>5. ASSUME NEW e \in Endpoints, O!BeginCall(t, e)
      PROVE  ThreadsInv'
  <2>1. KindOK(Taken("call", e, 0, "log", {<<"call", e>>})) /\ LogsOK(Taken("call", e, 0, "log", {<<"call", e>>}))
    BY DEF KindOK, LogsOK, Taken, O!Logs
  <2> QED BY <1>5, <2>1, BeginStep DEF O!BeginCall
<1> QED BY <1>1, <1>2, <1>3, <1>4, <1>5 DEF O!Request, PhoneOps

LEMMA DoneStep ==
    ASSUME ThreadsInv, Grows, NEW t \in A, O!Done(t),
           users' \in Seq(O!UserType), codes' \in Seq(O!CodeType), recent' \in [O!Logs -> Nat]
    PROVE  ThreadsInv'
<1>1. codeTh' = [codeTh EXCEPT ![t] = O!Idle] /\ codeTh'[t] = O!Idle
  BY DEF O!Done, ThreadsInv
<1>2. ThreadOK(t)'
  BY <1>1 DEF ThreadOK
<1> QED BY <1>1, <1>2, ThreadStep

(* The request goes on to another step of its handler. *)
LEMMA GotoStep ==
    ASSUME ThreadsInv, Grows, NEW t \in A, NEW at, O!Goto(t, at),
           codeTh[t].at \notin {"idle", "issue"},
           \/ at = "record" /\ codeTh[t].op \in {"login_phone", "login_email"}
           \/ /\ codeTh[t].at = "consume" /\ at = "account"
              /\ codes'[codeTh[t].code].consumed
           \/ /\ codeTh[t].at = "account" /\ at = "write"
              /\ codeTh[t].op \in {"signup_phone", "link_phone"},
           users' \in Seq(O!UserType), codes' \in Seq(O!CodeType), recent' \in [O!Logs -> Nat]
    PROVE  ThreadsInv'
<1> DEFINE r == [codeTh[t] EXCEPT !.at = at]
<1>1. codeTh[t] \in O!ThreadType /\ RequestOK(codeTh[t])
  BY DEF ThreadsInv, ThreadOK, O!Idle
<1>2. /\ r \in O!ThreadType /\ r.at = at /\ r.op = codeTh[t].op /\ r.id = codeTh[t].id /\ r.logs = codeTh[t].logs
      /\ r.user = codeTh[t].user /\ r.code = codeTh[t].code /\ r.seen = codeTh[t].seen
  BY <1>1 DEF O!ThreadType
<1>3. codeTh' = [codeTh EXCEPT ![t] = r] /\ codeTh'[t] = r
  BY DEF O!Goto, ThreadsInv
<1> HIDE DEF r
<1>4. KindOK(r) /\ LogsOK(r)
  BY <1>1, <1>2 DEF RequestOK, KindOK, LogsOK, PhoneOps
<1>5. /\ r.at \in {"miss", "consume"} \/ (r.at \in {"account", "write"} /\ r.op # "signup_email") =>
             r.code \in DOMAIN codes' /\ codes'[r.code].phone = r.id
      /\ r.at \in {"account", "write"} /\ r.op # "signup_email" => codes'[r.code].consumed
      /\ r.at # "miss"
  <2>1. r.at \in {"account", "write", "record"}
    BY <1>2
  <2>2. r.at \in {"account", "write"} => codeTh[t].at \in {"consume", "account"} /\ codeTh[t].op # "signup_email"
    BY <1>1, <1>2 DEF RequestOK, KindOK, PhoneOps
  <2>3. r.at \in {"account", "write"} => codeTh[t].code \in DOMAIN codes /\ codes[codeTh[t].code].phone = codeTh[t].id
    BY <1>1, <2>2 DEF RequestOK, CodeOK
  <2>4. r.at = "write" => codes[codeTh[t].code].consumed
    BY <1>1, <1>2, <2>2 DEF RequestOK, CodeOK
  <2>5. r.at = "account" => codes'[codeTh[t].code].consumed
    BY <1>2
  <2> QED BY <1>2, <2>1, <2>3, <2>4, <2>5 DEF Grows
<1>6. IF r.op = "link_phone" THEN r.user \in DOMAIN users' ELSE r.user = 0
  BY <1>1, <1>2 DEF RequestOK, UserOK, Grows
<1>7. ThreadOK(t)'
  BY <1>3, <1>4, <1>5, <1>6 DEF ThreadOK, RequestOK, KindOK, LogsOK, CodeOK, UserOK
<1> QED BY <1>2, <1>3, <1>7, ThreadStep

LEMMA InsertType ==
    ASSUME ThreadsInv, NEW logs, O!Insert(logs)
    PROVE  recent' \in [O!Logs -> Nat]
BY DEF ThreadsInv, O!Insert

(* A change of one row of otp_codes. *)
LEMMA CodeStep ==
    ASSUME ThreadsInv, NEW k \in DOMAIN codes, NEW row \in O!CodeType, codes' = [codes EXCEPT ![k] = row],
           UNCHANGED users, row.phone = codes[k].phone, codes[k].consumed => row.consumed,
           codes[k].wrong <= row.wrong
    PROVE  Grows /\ codes' \in Seq(O!CodeType) /\ DOMAIN codes' = DOMAIN codes /\ codes'[k] = row
<1>1. codes' \in Seq(O!CodeType)
  BY ExceptSeq DEF ThreadsInv
<1>2. DOMAIN codes' = DOMAIN codes /\ codes'[k] = row
  BY DEF ThreadsInv
<1> QED BY <1>1, <1>2, RowTypes DEF Grows, O!CodeType

LEMMA CodesBusy ==
    ASSUME ThreadsInv, NEW t \in A, codeTh[t].at # "idle"
    PROVE  codeTh[t] \in O!ThreadType /\ RequestOK(codeTh[t]) /\ codeTh[t] # O!Idle
BY DEF ThreadsInv, ThreadOK, O!Idle

LEMMA IssueThreads ==
    ASSUME O!LimitsAssumption, ThreadsInv, NEW t \in A, O!IssueCode(t)
    PROVE  ThreadsInv' /\ Grows
<1> DEFINE row == [phone |-> codeTh[t].id, attempts |-> 0, wrong |-> 0, consumed |-> FALSE, expired |-> FALSE]
<1>1. codeTh[t].id \in Phones
  BY CodesBusy DEF O!IssueCode, O!At, RequestOK, KindOK
<1>2. row \in O!CodeType
  BY <1>1 DEF O!CodeType, O!LimitsAssumption
<1>3. codes \in Seq(O!CodeType) /\ codes' = Append(codes, row) /\ UNCHANGED users
  BY DEF O!IssueCode, ThreadsInv
<1> HIDE DEF row
<1>4. codes' \in Seq(O!CodeType) /\ Grows
  BY <1>2, <1>3, AppendFacts, RowTypes DEF Grows, O!CodeType
<1>5. recent' \in [O!Logs -> Nat]
  BY InsertType DEF O!IssueCode
<1> QED BY <1>3, <1>4, <1>5, DoneStep DEF O!IssueCode, ThreadsInv

LEMMA MissStep ==
    ASSUME ThreadsInv, Grows, NEW t \in A, O!Miss(t), codeTh[t].at \notin {"idle", "issue"},
           users' \in Seq(O!UserType), codes' \in Seq(O!CodeType), recent' \in [O!Logs -> Nat]
    PROVE  ThreadsInv'
BY DoneStep, GotoStep DEF O!Miss

LEMMA GuessThreads ==
    ASSUME O!LimitsAssumption, ThreadsInv, O!AttemptsWereMade,
           NEW t \in A, NEW right \in BOOLEAN, O!Guess(t, right)
    PROVE  ThreadsInv' /\ Grows
<1> DEFINE k == O!Latest(O!ValidCodes(codeTh[t].id))
<1>1. codeTh[t] \in O!ThreadType /\ RequestOK(codeTh[t]) /\ codeTh[t].at = "verify"
  BY CodesBusy DEF O!Guess, O!At
<1>2. k \in DOMAIN codes /\ codes[k].phone = codeTh[t].id
  BY LatestFacts DEF O!Guess
<1>3. codes[k] \in O!CodeType /\ codes[k].attempts \in 0 .. AttemptLimit - 1 /\ k \in Nat
  BY <1>2, RowTypes DEF O!Guess, O!TriedTooOften, O!CodeType, O!LimitsAssumption
<1> DEFINE r == [codeTh[t] EXCEPT !.at = IF right THEN "consume" ELSE "miss", !.code = k,
                                  !.seen = codes[k].attempts]
<1>4. /\ codes' = IF right THEN codes ELSE [codes EXCEPT ![k].wrong = @ + 1]
      /\ UNCHANGED <<users, recent>> /\ codeTh' = [codeTh EXCEPT ![t] = r]
  BY DEF O!Guess
<1> HIDE DEF k
<1>5. /\ r \in O!ThreadType /\ r.at = (IF right THEN "consume" ELSE "miss") /\ r.op = codeTh[t].op
      /\ r.id = codeTh[t].id /\ r.logs = codeTh[t].logs /\ r.user = codeTh[t].user
      /\ r.code = k /\ r.seen = codes[k].attempts
  BY <1>1, <1>3 DEF O!ThreadType
<1> HIDE DEF r
<1>6. KindOK(r) /\ LogsOK(r) /\ UserOK(r)
  BY <1>1, <1>5 DEF RequestOK, KindOK, LogsOK, UserOK, PhoneOps
<1>7. codeTh'[t] = r
  BY <1>4 DEF ThreadsInv
<1>8. CASE right
  <2>1. UNCHANGED codes /\ Grows
    BY <1>4, <1>8, CodesRowsKept
  <2>2. ThreadOK(t)'
    BY <1>2, <1>4, <1>5, <1>6, <1>7, <1>8, <2>1 DEF ThreadOK, RequestOK, KindOK, LogsOK, UserOK, CodeOK
  <2> QED BY <1>4, <1>5, <2>1, <2>2, ThreadStep DEF ThreadsInv
<1>9. CASE ~right
  <2> DEFINE row == [codes[k] EXCEPT !.wrong = @ + 1]
  <2>1. /\ row \in O!CodeType /\ row.phone = codes[k].phone /\ row.consumed = codes[k].consumed
        /\ codes[k].wrong <= row.wrong /\ row.wrong = codes[k].wrong + 1
    BY <1>3 DEF O!CodeType
  <2>2. codes' = [codes EXCEPT ![k] = row]
    BY <1>4, <1>9
  <2> HIDE DEF row
  <2>3. Grows /\ codes' \in Seq(O!CodeType) /\ DOMAIN codes' = DOMAIN codes /\ codes'[k] = row
    BY <1>2, <1>4, <2>1, <2>2, CodeStep
  <2>4. r.seen < codes'[k].wrong
    BY <1>2, <1>3, <1>5, <2>1, <2>3 DEF O!AttemptsWereMade, O!CodeType
  <2>5. ThreadOK(t)'
    BY <1>2, <1>4, <1>5, <1>6, <1>7, <1>9, <2>1, <2>3, <2>4
    DEF ThreadOK, RequestOK, KindOK, LogsOK, UserOK, CodeOK
  <2> QED BY <1>4, <1>5, <2>3, <2>5, ThreadStep DEF ThreadsInv
<1> QED BY <1>8, <1>9

LEMMA CountThreads ==
    ASSUME O!LimitsAssumption, ThreadsInv, NEW t \in A, O!CountMiss(t)
    PROVE  ThreadsInv' /\ Grows /\ codes' = [codes EXCEPT ![codeTh[t].code].attempts = codeTh[t].seen + 1]
<1> DEFINE k == codeTh[t].code
           row == [codes[k] EXCEPT !.attempts = codeTh[t].seen + 1]
<1>1. codeTh[t] \in O!ThreadType /\ RequestOK(codeTh[t]) /\ codeTh[t].at = "miss"
  BY CodesBusy DEF O!CountMiss, O!At
<1>2. k \in DOMAIN codes /\ codes[k] \in O!CodeType
  BY <1>1, RowTypes DEF RequestOK, CodeOK
<1>3. /\ row \in O!CodeType /\ row.phone = codes[k].phone /\ row.consumed = codes[k].consumed
      /\ row.wrong = codes[k].wrong /\ codes[k].wrong <= row.wrong
  <2>1. codes[k] \in O!CodeType /\ codeTh[t].seen \in 0 .. AttemptLimit - 1 /\ AttemptLimit \in Nat
    BY <1>1, <1>2 DEF O!ThreadType, O!LimitsAssumption
  <2>2. codeTh[t].seen + 1 \in 0 .. AttemptLimit
    BY <2>1
  <2>3. row \in O!CodeType
    BY <2>1, <2>2 DEF O!CodeType
  <2>4. row.phone = codes[k].phone /\ row.consumed = codes[k].consumed /\ row.wrong = codes[k].wrong
        /\ codes[k].wrong \in Nat
    BY <2>1 DEF O!CodeType
  <2> QED BY <2>3, <2>4
<1>4. codes' = [codes EXCEPT ![k] = row] /\ UNCHANGED <<users, recent>>
  BY DEF O!CountMiss
<1> HIDE DEF k, row
<1>5. Grows /\ codes' \in Seq(O!CodeType)
  BY <1>2, <1>3, <1>4, CodeStep
<1> QED BY <1>1, <1>4, <1>5, MissStep DEF O!CountMiss, ThreadsInv

LEMMA ConsumeThreads ==
    ASSUME ThreadsInv, NEW t \in A, O!Consume(t)
    PROVE  ThreadsInv' /\ Grows
<1> DEFINE k == codeTh[t].code
           row == [codes[k] EXCEPT !.consumed = TRUE]
<1>1. codeTh[t] \in O!ThreadType /\ RequestOK(codeTh[t]) /\ codeTh[t].at = "consume"
  BY CodesBusy DEF O!Consume, O!At
<1>2. k \in DOMAIN codes /\ codes[k] \in O!CodeType
  BY <1>1, RowTypes DEF RequestOK, CodeOK
<1>3. /\ row \in O!CodeType /\ row.phone = codes[k].phone /\ row.consumed
      /\ row.wrong = codes[k].wrong /\ codes[k].wrong <= row.wrong
  <2> HIDE DEF k
  <2>1. row \in O!CodeType
    BY <1>2 DEF O!CodeType
  <2>2. row.phone = codes[k].phone /\ row.consumed /\ row.wrong = codes[k].wrong
        /\ codes[k].wrong \in Nat
    BY <1>2 DEF O!CodeType
  <2> QED BY <2>1, <2>2
<1>4. codes' = [codes EXCEPT ![k] = row] /\ UNCHANGED <<users, recent>>
  BY DEF O!Consume
<1> HIDE DEF row
<1>5. Grows /\ codes' \in Seq(O!CodeType) /\ codes'[k] = row
  BY <1>2, <1>3, <1>4, CodeStep
<1> QED BY <1>1, <1>3, <1>4, <1>5, GotoStep DEF O!Consume, ThreadsInv

LEMMA LookThreads ==
    ASSUME ThreadsInv, NEW t \in A,
           \/ O!NoCode(t) \/ O!Refuse(t) \/ O!FindAccount(t) \/ O!CheckPassword(t)
    PROVE  ThreadsInv' /\ Grows
<1>1. UNCHANGED <<users, codes, recent>> /\ Grows /\ codeTh[t].at \notin {"idle", "issue"}
      /\ users' \in Seq(O!UserType) /\ codes' \in Seq(O!CodeType) /\ recent' \in [O!Logs -> Nat]
  BY CodesRowsKept DEF O!NoCode, O!Refuse, O!FindAccount, O!CheckPassword, O!At, ThreadsInv
<1>2. codeTh[t] \in O!ThreadType /\ RequestOK(codeTh[t])
  BY <1>1, CodesBusy
<1>3. CASE O!NoCode(t) \/ O!Refuse(t)
  BY <1>1, <1>3, DoneStep, MissStep DEF O!NoCode, O!Refuse
<1>4. CASE O!FindAccount(t)
  <2>1. codeTh[t].op \in PhoneOps /\ codeTh[t].at = "account"
    BY <1>2, <1>4 DEF O!FindAccount, O!At, RequestOK, KindOK
  <2>2. \/ O!Done(t)
        \/ O!Goto(t, "record") /\ codeTh[t].op = "login_phone"
        \/ O!Goto(t, "write") /\ codeTh[t].op \in {"signup_phone", "link_phone"}
    BY <1>4, <2>1 DEF O!FindAccount, PhoneOps
  <2> QED BY <1>1, <2>1, <2>2, DoneStep, GotoStep
<1>5. CASE O!CheckPassword(t)
  <2>1. codeTh[t].op = "login_email"
    BY <1>2, <1>5 DEF O!CheckPassword, O!At, RequestOK, KindOK
  <2> QED BY <1>1, <1>5, <2>1, DoneStep, GotoStep DEF O!CheckPassword
<1> QED BY <1>3, <1>4, <1>5

LEMMA WriteThreads ==
    ASSUME ThreadsInv, NEW t \in A, O!WriteAccount(t)
    PROVE  /\ ThreadsInv' /\ Grows
           /\ \/ UNCHANGED users
              \/ /\ O!Unique(t) /\ codeTh[t].op = "signup_email" /\ codeTh[t].id \in Emails
                 /\ users' = Append(users, [email |-> codeTh[t].id, phone |-> None])
              \/ /\ O!Unique(t) /\ codeTh[t].op = "signup_phone" /\ codeTh[t].id \in Phones
                 /\ users' = Append(users, [email |-> None, phone |-> codeTh[t].id])
              \/ /\ O!Unique(t) /\ codeTh[t].op = "link_phone" /\ codeTh[t].id \in Phones
                 /\ users' = [users EXCEPT ![codeTh[t].user].phone = codeTh[t].id]
<1>1. codeTh[t] \in O!ThreadType /\ RequestOK(codeTh[t]) /\ codeTh[t].at = "write"
  BY CodesBusy DEF O!WriteAccount, O!At
<1>2. \/ codeTh[t].op = "signup_email" /\ codeTh[t].id \in Emails
      \/ codeTh[t].op = "signup_phone" /\ codeTh[t].id \in Phones
      \/ codeTh[t].op = "link_phone" /\ codeTh[t].id \in Phones /\ codeTh[t].user \in DOMAIN users
  BY <1>1 DEF RequestOK, KindOK, UserOK
<1>3. \/ UNCHANGED users
      \/ /\ O!Unique(t) /\ codeTh[t].op = "signup_email" /\ codeTh[t].id \in Emails
         /\ users' = Append(users, [email |-> codeTh[t].id, phone |-> None])
      \/ /\ O!Unique(t) /\ codeTh[t].op = "signup_phone" /\ codeTh[t].id \in Phones
         /\ users' = Append(users, [email |-> None, phone |-> codeTh[t].id])
      \/ /\ O!Unique(t) /\ codeTh[t].op = "link_phone" /\ codeTh[t].id \in Phones
         /\ users' = [users EXCEPT ![codeTh[t].user].phone = codeTh[t].id]
  BY <1>2 DEF O!WriteAccount
<1>4. users' \in Seq(O!UserType) /\ DOMAIN users \subseteq DOMAIN users'
  <2>1. CASE UNCHANGED users
    BY <2>1 DEF ThreadsInv
  <2>2. ASSUME NEW row \in O!UserType, users' = Append(users, row)
        PROVE  users' \in Seq(O!UserType) /\ DOMAIN users \subseteq DOMAIN users'
    BY <2>2, AppendFacts DEF ThreadsInv
  <2>3. CASE codeTh[t].op = "link_phone" /\ users' = [users EXCEPT ![codeTh[t].user].phone = codeTh[t].id]
    <3> DEFINE row == [users[codeTh[t].user] EXCEPT !.phone = codeTh[t].id]
    <3>1. codeTh[t].user \in DOMAIN users /\ row \in O!UserType
      BY <1>2, <2>3, RowTypes DEF O!UserType
    <3>2. users' = [users EXCEPT ![codeTh[t].user] = row]
      BY <2>3
    <3> HIDE DEF row
    <3> QED BY <3>1, <3>2, ExceptSeq, RowTypes DEF ThreadsInv
  <2>4. CASE codeTh[t].id \in Emails /\ users' = Append(users, [email |-> codeTh[t].id, phone |-> None])
    <3>1. [email |-> codeTh[t].id, phone |-> None] \in O!UserType
      BY <2>4 DEF O!UserType
    <3> QED BY <2>2, <2>4, <3>1
  <2>5. CASE codeTh[t].id \in Phones /\ users' = Append(users, [email |-> None, phone |-> codeTh[t].id])
    <3>1. [email |-> None, phone |-> codeTh[t].id] \in O!UserType
      BY <2>5 DEF O!UserType
    <3> QED BY <2>2, <2>5, <3>1
  <2> QED BY <1>3, <2>1, <2>3, <2>4, <2>5
<1>5. Grows
  <2>1. UNCHANGED codes
    BY DEF O!WriteAccount
  <2>2. \A k \in DOMAIN codes : codes[k].wrong \in Nat
    BY RowTypes DEF O!CodeType
  <2> QED BY <1>4, <2>1, <2>2 DEF Grows
<1> QED BY <1>3, <1>4, <1>5, DoneStep DEF O!WriteAccount, ThreadsInv

LEMMA RecordThreads ==
    ASSUME ThreadsInv, NEW t \in A, O!RecordFailure(t) \/ O!LogCall(t)
    PROVE  ThreadsInv' /\ Grows
<1>1. UNCHANGED <<users, codes>> /\ O!Insert(codeTh[t].logs) /\ O!Done(t)
  BY DEF O!RecordFailure, O!LogCall
<1> QED BY <1>1, CodesRowsKept, InsertType, DoneStep DEF ThreadsInv

LEMMA ExpireThreads ==
    ASSUME ThreadsInv, NEW k, O!CodeExpires(k)
    PROVE  ThreadsInv' /\ Grows /\ UNCHANGED <<users, recent, codeTh>>
<1> DEFINE row == [codes[k] EXCEPT !.expired = TRUE]
<1>1. k \in DOMAIN codes /\ codes[k] \in O!CodeType
  BY RowTypes DEF O!CodeExpires
<1>2. /\ row \in O!CodeType /\ row.phone = codes[k].phone /\ row.consumed = codes[k].consumed
      /\ row.wrong = codes[k].wrong /\ codes[k].wrong <= row.wrong
  <2>1. row \in O!CodeType
    BY <1>1 DEF O!CodeType
  <2>2. row.phone = codes[k].phone /\ row.consumed = codes[k].consumed /\ row.wrong = codes[k].wrong
        /\ codes[k].wrong \in Nat
    BY <1>1 DEF O!CodeType
  <2> QED BY <2>1, <2>2
<1>3. codes' = [codes EXCEPT ![k] = row] /\ UNCHANGED <<users, recent, codeTh>>
  BY DEF O!CodeExpires
<1> HIDE DEF row
<1> QED BY <1>1, <1>2, <1>3, CodeStep, OtherStep DEF ThreadsInv

-----------------------------------------------------------------------------
(* What a step does to the windows. *)

LEMMA WriterFacts ==
    ASSUME O!ThreadsAssumption, NEW l
    PROVE  /\ IsFiniteSet(Writers(l)) /\ Cardinality(Writers(l)) \in Nat
           /\ Cardinality(Writers(l)) <= Cardinality(A)
           /\ Cardinality(A) \in Nat \ {0}
<1>1. Writers(l) \in SUBSET A
  BY DEF Writers
<1>2. IsFiniteSet(Writers(l)) /\ Cardinality(Writers(l)) <= Cardinality(A)
  BY <1>1, FS_Subset, FiniteThreads
<1>3. Cardinality(A) # 0
  BY FS_EmptySet, FiniteThreads
<1> QED BY <1>2, <1>3, FS_CardinalityType, FiniteThreads

LEMMA LimitTypes ==
    ASSUME O!LimitsAssumption, NEW l \in O!Logs
    PROVE  O!Limit(l) \in Nat \ {0}
BY DEF O!Logs, O!Limit, O!Address, O!LimitsAssumption

(* A request is taken up: each log it will write to was below its limit. *)
Takes(t) ==
    /\ UNCHANGED recent
    /\ \A u \in A \ {t} : codeTh'[u] = codeTh[u]
    /\ codeTh'[t].logs \subseteq O!Logs
    /\ O!Within(codeTh'[t].logs)

(* A request inserts its rows, and ends. *)
Inserts(t) ==
    /\ O!Insert(codeTh[t].logs)
    /\ \A u \in A \ {t} : codeTh'[u] = codeTh[u]
    /\ codeTh'[t].logs = {}
    /\ \/ codeTh[t].logs \cap LoginLogs = {} /\ O!Address \notin codeTh[t].logs
       \/ \E id \in O!Identifiers : codeTh[t].logs = O!FailureLogs(id)

(* The requests that may write are no more than before, nor are the rows. *)
Keeps ==
    /\ recent' \in [O!Logs -> Nat]
    /\ \A l \in O!Logs : recent'[l] <= recent[l]
    /\ \A u \in A : codeTh'[u].logs \subseteq codeTh[u].logs

LEMMA TakesStep ==
    ASSUME ThreadsInv, NEW t \in A, O!Request(t)
    PROVE  Takes(t)
<1>1. ASSUME NEW op, NEW id, NEW user, NEW at, NEW logs, O!Begin(t, op, id, user, at, logs),
             UNCHANGED recent, logs \subseteq O!Logs, O!Within(logs)
      PROVE  Takes(t)
  BY <1>1 DEF O!Begin, Takes, ThreadsInv
<1>2. ASSUME NEW p \in Phones, NEW op, NEW user, O!PhoneOp(t, op, p, user)
      PROVE  Takes(t)
  <2>1. <<"otp", p>> \in O!Logs /\ O!FailureLogs(p) \subseteq O!Logs
    BY DEF O!Logs, O!FailureLogs, O!Identifiers
  <2>2. CASE O!StartCode(t, op, p, user)
    BY <1>1, <2>1, <2>2 DEF O!StartCode, O!Requested
  <2>3. CASE O!BeginVerify(t, op, p, user)
    <3> DEFINE logs == IF op = "login_phone" THEN O!FailureLogs(p) ELSE {}
    <3>1. O!Begin(t, op, p, user, "verify", logs) /\ UNCHANGED recent
      BY <2>3 DEF O!BeginVerify
    <3>2. logs \subseteq O!Logs /\ O!Within(logs)
      BY <2>1, <2>3 DEF O!BeginVerify, O!Within
    <3> HIDE DEF logs
    <3> QED BY <1>1, <3>1, <3>2
  <2> QED BY <1>2, <2>2, <2>3 DEF O!PhoneOp
<1>3. ASSUME NEW e \in Emails, O!SignupEmail(t, e) \/ O!LoginEmail(t, e)
      PROVE  Takes(t)
  <2>1. O!FailureLogs(e) \subseteq O!Logs /\ O!Within({})
    BY DEF O!Logs, O!FailureLogs, O!Identifiers, O!Within
  <2> QED BY <1>1, <1>3, <2>1 DEF O!SignupEmail, O!LoginEmail
<1>4. ASSUME NEW e \in Endpoints, O!BeginCall(t, e)
      PROVE  Takes(t)
  <2>1. {<<"call", e>>} \subseteq O!Logs
    BY DEF O!Logs
  <2> QED BY <1>1, <1>4, <2>1 DEF O!BeginCall
<1> QED BY <1>2, <1>3, <1>4 DEF O!Request

LEMMA InsertsStep ==
    ASSUME ThreadsInv, NEW t \in A, O!IssueCode(t) \/ O!RecordFailure(t) \/ O!LogCall(t)
    PROVE  Inserts(t)
<1>1. O!Insert(codeTh[t].logs) /\ O!Done(t) /\ codeTh[t].at \in {"issue", "record", "log"}
  BY DEF O!IssueCode, O!RecordFailure, O!LogCall, O!At
<1>2. RequestOK(codeTh[t])
  BY <1>1, CodesBusy
<1>3. (\A u \in A \ {t} : codeTh'[u] = codeTh[u]) /\ codeTh'[t].logs = {}
  BY <1>1 DEF O!Done, O!Idle, ThreadsInv
<1>4. CASE codeTh[t].at = "issue"
  <2>1. codeTh[t].logs = {<<"otp", codeTh[t].id>>}
    BY <1>2, <1>4 DEF RequestOK, LogsOK
  <2> QED BY <1>1, <1>3, <2>1 DEF Inserts, LoginLogs, O!Address
<1>5. CASE codeTh[t].at = "log"
  <2>1. codeTh[t].logs = {<<"call", codeTh[t].id>>}
    BY <1>2, <1>5 DEF RequestOK, LogsOK
  <2> QED BY <1>1, <1>3, <2>1 DEF Inserts, LoginLogs, O!Address
<1>6. CASE codeTh[t].at = "record"
  <2>1. codeTh[t].logs = O!FailureLogs(codeTh[t].id) /\ codeTh[t].id \in O!Identifiers
    BY <1>2, <1>6 DEF RequestOK, KindOK, LogsOK, O!Identifiers
  <2> QED BY <1>1, <1>3, <2>1 DEF Inserts
<1> QED BY <1>1, <1>4, <1>5, <1>6

LEMMA KeepsStep ==
    ASSUME ThreadsInv, UNCHANGED recent,
           \/ UNCHANGED codeTh
           \/ \E t \in A : \/ O!Done(t) \/ O!Miss(t)
                           \/ \E at : O!Goto(t, at)
                           \/ \E right : O!Guess(t, right)
    PROVE  Keeps
<1>1. recent' \in [O!Logs -> Nat] /\ \A l \in O!Logs : recent'[l] <= recent[l]
  BY DEF ThreadsInv
<1>2. ASSUME NEW t \in A, O!Done(t)
      PROVE  \A u \in A : codeTh'[u].logs \subseteq codeTh[u].logs
  BY <1>2 DEF O!Done, O!Idle, ThreadsInv
<1>3. ASSUME NEW t \in A, NEW at, O!Goto(t, at)
      PROVE  \A u \in A : codeTh'[u].logs \subseteq codeTh[u].logs
  <2>1. codeTh[t] \in {O!Idle} \cup O!ThreadType /\ \A u \in A : u # t => codeTh'[u] = codeTh[u]
    BY <1>3 DEF O!Goto, ThreadsInv
  <2>2. codeTh'[t] = [codeTh[t] EXCEPT !.at = at]
    BY <1>3 DEF O!Goto, ThreadsInv
  <2>3. codeTh'[t].logs = codeTh[t].logs
    BY <2>1, <2>2 DEF O!Idle, O!ThreadType
  <2> QED BY <2>1, <2>3
<1>4. ASSUME NEW t \in A, NEW right, O!Guess(t, right)
      PROVE  \A u \in A : codeTh'[u].logs \subseteq codeTh[u].logs
  <2>1. codeTh[t] \in O!ThreadType /\ \A u \in A : u # t => codeTh'[u] = codeTh[u]
    BY <1>4, CodesBusy DEF O!Guess, O!At, ThreadsInv
  <2>2. PICK a, k, n : codeTh'[t] = [codeTh[t] EXCEPT !.at = a, !.code = k, !.seen = n]
    BY <1>4 DEF O!Guess, ThreadsInv
  <2>3. codeTh'[t].logs = codeTh[t].logs
    BY <2>1, <2>2 DEF O!ThreadType
  <2> QED BY <2>1, <2>3
<1> QED BY <1>1, <1>2, <1>3, <1>4 DEF Keeps, O!Miss

(* A row leaves its window: one row, and no more than there are. *)
LEMMA ForgetStep ==
    ASSUME CodesInv, NEW l \in O!Logs, O!Forget(l)
    PROVE  Keeps /\ CodesRowsInv'
<1>1. recent \in [O!Logs -> Nat] /\ recent[l] > 0 /\ l # O!Address /\ UNCHANGED codeTh /\ O!Address \in O!Logs
  BY DEF O!Forget, CodesInv, ThreadsInv, O!Logs
<1>2. \A m \in O!Logs : recent'[m] = IF m = l \/ (m = O!Address /\ l[1] = "login") THEN recent[m] - 1
                                    ELSE recent[m]
  BY DEF O!Forget
<1>3. DOMAIN recent' = O!Logs /\ recent' = [m \in O!Logs |-> recent'[m]]
  BY DEF O!Forget
<1>4. CASE l \in LoginLogs
  <2> DEFINE row == <<l, recent[l]>>
  <2>1. l[1] = "login" /\ O!Address \notin LoginLogs /\ LoginLogs \subseteq O!Logs
    BY <1>4 DEF LoginLogs, O!Address, O!Logs
  <2>2. row \in LoginRows
    BY <1>1, <1>4 DEF LoginRows
  <2>3. LoginRows' = LoginRows \ {row}
    <3>1. ASSUME NEW m \in LoginLogs, NEW n \in Nat
          PROVE  n \in 1 .. recent'[m] <=> n \in 1 .. recent[m] /\ <<m, n>> # row
      <4>1. m \in O!Logs /\ m # O!Address /\ recent[m] \in Nat
        BY <1>1, <2>1
      <4>2. CASE m = l
        <5>1. recent'[m] = recent[m] - 1
          BY <1>2, <4>1, <4>2
        <5> QED BY <4>1, <4>2, <5>1
      <4>3. CASE m # l
        <5>1. recent'[m] = recent[m]
          BY <1>2, <4>1, <4>3
        <5> QED BY <4>3, <5>1
      <4> QED BY <4>2, <4>3
    <3>2. ASSUME NEW x PROVE x \in LoginRows' <=> x \in LoginRows \ {row}
      <4>1. CASE x \in LoginLogs \X Nat
        <5>1. PICK m \in LoginLogs, n \in Nat : x = <<m, n>>
          BY <4>1
        <5> QED BY <3>1, <5>1 DEF LoginRows
      <4>2. CASE x \notin LoginLogs \X Nat
        BY <4>2 DEF LoginRows
      <4> QED BY <4>1, <4>2
    <3> QED BY <3>2
  <2>4. IsFiniteSet(LoginRows) /\ recent[O!Address] = Cardinality(LoginRows)
    BY DEF CodesInv, CodesRowsInv
  <2> HIDE DEF row
  <2>5. /\ IsFiniteSet(LoginRows \ {row})
        /\ Cardinality(LoginRows \ {row}) = Cardinality(LoginRows) - 1
        /\ Cardinality(LoginRows \ {row}) \in Nat
    BY <2>2, <2>4, FS_RemoveElement, FS_CardinalityType
  <2>6. recent'[O!Address] = recent[O!Address] - 1
    BY <1>1, <1>2, <2>1
  <2>7. CodesRowsInv'
    BY <2>3, <2>4, <2>5, <2>6 DEF CodesRowsInv
  <2>8. ASSUME NEW m \in O!Logs PROVE recent'[m] \in Nat /\ recent'[m] <= recent[m]
    <3>1. CASE m = O!Address
      BY <1>1, <2>4, <2>5, <2>6, <3>1
    <3>2. CASE m = l
      BY <1>1, <1>2, <3>2
    <3>3. CASE m # O!Address /\ m # l
      BY <1>1, <1>2, <3>3
    <3> QED BY <3>1, <3>2, <3>3
  <2>9. Keeps
    BY <1>1, <1>3, <2>8 DEF Keeps
  <2> QED BY <2>7, <2>9
<1>5. CASE l \notin LoginLogs
  <2>1. l[1] # "login"
    BY <1>1, <1>5 DEF LoginLogs, O!Logs, O!Address
  <2>2. ASSUME NEW m \in O!Logs
        PROVE  recent'[m] \in Nat /\ recent'[m] <= recent[m] /\ (m # l => recent'[m] = recent[m])
    BY <1>1, <1>2, <2>1
  <2>3. Keeps
    BY <1>1, <1>3, <2>2 DEF Keeps
  <2>4. (\A m \in LoginLogs : recent'[m] = recent[m]) /\ recent'[O!Address] = recent[O!Address]
    BY <1>1, <1>5, <2>2 DEF LoginLogs, O!Logs
  <2>5. LoginRows' = LoginRows
    BY <2>4 DEF LoginRows
  <2> QED BY <2>3, <2>4, <2>5 DEF CodesRowsInv, CodesInv
<1> QED BY <1>4, <1>5

(* A failed sign-in is one more row of its identifier and of the address. *)
LEMMA InsertRows ==
    ASSUME CodesInv, NEW t \in A, Inserts(t)
    PROVE  CodesRowsInv'
<1>1. recent \in [O!Logs -> Nat] /\ O!Address \in O!Logs /\ LoginLogs \subseteq O!Logs /\ O!Address \notin LoginLogs
  BY DEF CodesInv, ThreadsInv, O!Logs, LoginLogs, O!Address
<1>2. \A m \in O!Logs : recent'[m] = IF m \in codeTh[t].logs THEN recent[m] + 1 ELSE recent[m]
  BY DEF Inserts, O!Insert
<1>3. IsFiniteSet(LoginRows) /\ recent[O!Address] = Cardinality(LoginRows)
  BY DEF CodesInv, CodesRowsInv
<1>4. CASE codeTh[t].logs \cap LoginLogs = {} /\ O!Address \notin codeTh[t].logs
  <2>1. (\A m \in LoginLogs : recent'[m] = recent[m]) /\ recent'[O!Address] = recent[O!Address]
    BY <1>1, <1>2, <1>4
  <2>2. LoginRows' = LoginRows
    BY <2>1 DEF LoginRows
  <2> QED BY <1>3, <2>1, <2>2 DEF CodesRowsInv
<1>5. ASSUME NEW id \in O!Identifiers, codeTh[t].logs = O!FailureLogs(id)
      PROVE  CodesRowsInv'
  <2> DEFINE l == <<"login", id>>
             row == <<l, recent[l] + 1>>
  <2>1. l \in LoginLogs /\ codeTh[t].logs = {l, O!Address}
    BY <1>5 DEF LoginLogs, O!FailureLogs
  <2> HIDE DEF l
  <2>2. recent'[O!Address] = recent[O!Address] + 1
    BY <1>1, <1>2, <2>1
  <2>3. LoginRows' = LoginRows \cup {row}
    <3>1. ASSUME NEW m \in LoginLogs, NEW n \in Nat
          PROVE  n \in 1 .. recent'[m] <=> n \in 1 .. recent[m] \/ <<m, n>> = row
      <4>1. m \in O!Logs /\ m # O!Address /\ recent[m] \in Nat
        BY <1>1
      <4>2. CASE m = l
        <5>1. recent'[m] = recent[m] + 1
          BY <1>2, <2>1, <4>1, <4>2
        <5> QED BY <4>1, <4>2, <5>1
      <4>3. CASE m # l
        <5>1. recent'[m] = recent[m]
          BY <1>2, <2>1, <4>1, <4>3
        <5> QED BY <4>3, <5>1
      <4> QED BY <4>2, <4>3
    <3>2. row \in LoginLogs \X Nat
      BY <1>1, <2>1
    <3>3. ASSUME NEW x PROVE x \in LoginRows' <=> x \in LoginRows \cup {row}
      <4>1. CASE x \in LoginLogs \X Nat
        <5>1. PICK m \in LoginLogs, n \in Nat : x = <<m, n>>
          BY <4>1
        <5> QED BY <3>1, <5>1 DEF LoginRows
      <4>2. CASE x \notin LoginLogs \X Nat
        BY <3>2, <4>2 DEF LoginRows
      <4> QED BY <4>1, <4>2
    <3> QED BY <3>3
  <2>4. row \notin LoginRows
    <3>1. recent[l] \in Nat
      BY <1>1, <2>1
    <3> QED BY <3>1 DEF LoginRows
  <2> HIDE DEF row
  <2>5. /\ IsFiniteSet(LoginRows \cup {row})
        /\ Cardinality(LoginRows \cup {row}) = Cardinality(LoginRows) + 1
    BY <1>3, <2>4, FS_AddElement
  <2> QED BY <1>3, <2>2, <2>3, <2>5 DEF CodesRowsInv
<1> QED BY <1>4, <1>5 DEF Inserts

(* No window outgrows its limit and the writers under way. *)
LEMMA LimitsStep ==
    ASSUME O!LimitsAssumption, O!ThreadsAssumption, CodesInv, LimitsInv,
           Keeps \/ \E t \in A : Takes(t) \/ Inserts(t)
    PROVE  LimitsInv'
<1> USE WriterFacts, LimitTypes
<1>1. recent \in [O!Logs -> Nat]
  BY DEF CodesInv, ThreadsInv
<1>2. \A l : Writers(l)' \subseteq A
  BY DEF Writers
<1>3. \A Elems \in SUBSET A : IsFiniteSet(Elems) /\ Cardinality(Elems) \in Nat /\ Cardinality(Elems) <= Cardinality(A)
  BY FS_Subset, FS_CardinalityType, FiniteThreads
<1>4. ASSUME NEW l, Writers(l)' \subseteq Writers(l)
      PROVE  Cardinality(Writers(l)') <= Cardinality(Writers(l))
  BY <1>4, FS_Subset
<1>5. CASE Keeps
  <2>1. ASSUME NEW l \in O!Logs
        PROVE  recent'[l] + Cardinality(Writers(l)') <= O!Limit(l) + Cardinality(A) - 1
    <3>1. Writers(l)' \subseteq Writers(l) /\ recent'[l] \in Nat /\ recent'[l] <= recent[l]
      BY <1>5 DEF Keeps, Writers
    <3>2. recent[l] + Cardinality(Writers(l)) <= O!Limit(l) + Cardinality(A) - 1
      BY DEF LimitsInv
    <3>3. Cardinality(Writers(l)') \in Nat /\ Cardinality(Writers(l)') <= Cardinality(Writers(l))
      BY <1>2, <1>3, <1>4, <3>1
    <3> QED BY <1>1, <3>1, <3>2, <3>3
  <2> QED BY <2>1 DEF LimitsInv, Writers
<1>6. ASSUME NEW t \in A, Takes(t)
      PROVE  LimitsInv'
  <2>1. ASSUME NEW l \in O!Logs
        PROVE  recent'[l] + Cardinality(Writers(l)') <= O!Limit(l) + Cardinality(A) - 1
    <3>1. recent' = recent
      BY <1>6 DEF Takes
    <3>2. Cardinality(Writers(l)') \in Nat /\ Cardinality(Writers(l)') <= Cardinality(A)
      BY <1>2, <1>3
    <3>3. CASE l \in codeTh'[t].logs
      <4>1. recent[l] < O!Limit(l)
        BY <1>6, <3>3 DEF Takes, O!Within
      <4>2. recent[l] \in Nat /\ O!Limit(l) \in Nat /\ Cardinality(A) \in Nat
        BY <1>1
      <4>3. \A a, b, c, d \in Nat : a < b /\ c <= d => a + c <= b + d - 1
        OBVIOUS
      <4> QED BY <3>1, <3>2, <4>1, <4>2, <4>3
    <3>4. CASE l \notin codeTh'[t].logs
      <4>1. Writers(l)' \subseteq Writers(l)
        BY <1>6, <3>4 DEF Takes, Writers
      <4>2. recent[l] + Cardinality(Writers(l)) <= O!Limit(l) + Cardinality(A) - 1
        BY DEF LimitsInv
      <4> QED BY <1>1, <1>4, <3>1, <3>2, <4>1, <4>2
    <3> QED BY <3>3, <3>4
  <2> QED BY <2>1 DEF LimitsInv, Writers
<1>7. ASSUME NEW t \in A, Inserts(t)
      PROVE  LimitsInv'
  <2>1. ASSUME NEW l \in O!Logs
        PROVE  recent'[l] + Cardinality(Writers(l)') <= O!Limit(l) + Cardinality(A) - 1
    <3>1. recent'[l] = IF l \in codeTh[t].logs THEN recent[l] + 1 ELSE recent[l]
      BY <1>7 DEF Inserts, O!Insert
    <3>2. Writers(l)' = Writers(l) \ {t}
      BY <1>7 DEF Inserts, Writers
    <3>3. recent[l] + Cardinality(Writers(l)) <= O!Limit(l) + Cardinality(A) - 1
      BY DEF LimitsInv
    <3>4. Cardinality(Writers(l)') \in Nat
      BY <1>2, <1>3
    <3>5. CASE l \in codeTh[t].logs
      <4>1. t \in Writers(l)
        BY <3>5 DEF Writers
      <4>2. IsFiniteSet(Writers(l))
        BY WriterFacts
      <4>3. Cardinality(Writers(l) \ {t}) = Cardinality(Writers(l)) - 1
        <5> HIDE WriterFacts, LimitTypes
        <5> QED BY <4>1, <4>2, FS_RemoveElement
      <4> QED BY <1>1, <3>1, <3>2, <3>3, <3>4, <3>5, <4>3
    <3>6. CASE l \notin codeTh[t].logs
      <4>1. Cardinality(Writers(l)') <= Cardinality(Writers(l))
        BY <1>4, <3>2
      <4> QED BY <1>1, <3>1, <3>3, <3>4, <3>6, <4>1
    <3> QED BY <3>5, <3>6
  <2> QED BY <2>1 DEF LimitsInv, Writers
<1> QED BY <1>5, <1>6, <1>7

-----------------------------------------------------------------------------
(* Each step of the system. *)

LEMMA CodesStep ==
    ASSUME O!LimitsAssumption, O!ThreadsAssumption, CodesInv, O!AttemptsWereMade, O!Next
    PROVE  /\ CodesInv' /\ Grows
           /\ Keeps \/ \E t \in A : Takes(t) \/ Inserts(t)
<1>1. ThreadsInv
  BY DEF CodesInv
<1>2. UNCHANGED recent => (CodesRowsInv => CodesRowsInv')
  BY DEF CodesRowsInv, LoginRows
<1>3. CodesRowsInv
  BY DEF CodesInv
<1>4. ASSUME NEW t \in A, O!Request(t)
      PROVE  CodesInv' /\ Grows /\ Takes(t)
  <2>1. UNCHANGED <<users, codes, recent>>
    BY <1>4 DEF O!Request, O!PhoneOp, O!StartCode, O!BeginVerify, O!SignupEmail, O!LoginEmail, O!BeginCall
  <2> QED BY <1>1, <1>2, <1>3, <1>4, <2>1, BeginThreads, CodesRowsKept, TakesStep DEF CodesInv
<1>5. ASSUME NEW t \in A, O!IssueCode(t) \/ O!RecordFailure(t) \/ O!LogCall(t)
      PROVE  CodesInv' /\ Grows /\ Inserts(t)
  BY <1>1, <1>5, IssueThreads, RecordThreads, InsertsStep, InsertRows DEF CodesInv
<1>6. ASSUME NEW t \in A, O!NoCode(t) \/ O!Refuse(t) \/ O!FindAccount(t) \/ O!CheckPassword(t)
      PROVE  CodesInv' /\ Grows /\ Keeps
  <2>1. UNCHANGED recent /\ (O!Done(t) \/ O!Miss(t) \/ \E at : O!Goto(t, at))
    <3>1. CASE O!NoCode(t) \/ O!Refuse(t)
      BY <3>1 DEF O!NoCode, O!Refuse
    <3>2. CASE O!CheckPassword(t)
      BY <3>2 DEF O!CheckPassword
    <3>3. CASE O!FindAccount(t)
      <4>1. codeTh[t].op \in PhoneOps
        BY <1>1, <3>3, CodesBusy DEF O!FindAccount, O!At, RequestOK, KindOK
      <4> QED BY <3>3, <4>1 DEF O!FindAccount, PhoneOps
    <3> QED BY <1>6, <3>1, <3>2, <3>3
  <2> QED BY <1>1, <1>2, <1>3, <1>6, <2>1, LookThreads, KeepsStep DEF CodesInv
<1>7. ASSUME NEW t \in A, NEW right \in BOOLEAN, O!Guess(t, right)
      PROVE  CodesInv' /\ Grows /\ Keeps
  <2>1. UNCHANGED recent
    BY <1>7 DEF O!Guess
  <2> QED BY <1>1, <1>2, <1>3, <1>7, <2>1, GuessThreads, KeepsStep DEF CodesInv
<1>8. ASSUME NEW t \in A, O!CountMiss(t) \/ O!Consume(t)
      PROVE  CodesInv' /\ Grows /\ Keeps
  <2>1. UNCHANGED recent /\ (O!Miss(t) \/ O!Goto(t, "account"))
    BY <1>8 DEF O!CountMiss, O!Consume
  <2> QED BY <1>1, <1>2, <1>3, <1>8, <2>1, CountThreads, ConsumeThreads, KeepsStep DEF CodesInv
<1>9. ASSUME NEW t \in A, O!WriteAccount(t)
      PROVE  CodesInv' /\ Grows /\ Keeps
  <2>1. UNCHANGED recent /\ O!Done(t)
    BY <1>9 DEF O!WriteAccount
  <2> QED BY <1>1, <1>2, <1>3, <1>9, <2>1, WriteThreads, KeepsStep DEF CodesInv
<1>10. ASSUME NEW k, O!CodeExpires(k)
       PROVE  CodesInv' /\ Grows /\ Keeps
  <2>1. UNCHANGED <<recent, codeTh>>
    BY <1>10 DEF O!CodeExpires
  <2> QED BY <1>1, <1>2, <1>3, <1>10, <2>1, ExpireThreads, KeepsStep DEF CodesInv
<1>11. ASSUME NEW l \in O!Logs, O!Forget(l)
       PROVE  CodesInv' /\ Grows /\ Keeps
  <2>1. Keeps /\ CodesRowsInv' /\ UNCHANGED <<users, codes, codeTh>>
    BY <1>11, ForgetStep DEF O!Forget
  <2>2. Grows /\ users' \in Seq(O!UserType) /\ codes' \in Seq(O!CodeType) /\ recent' \in [O!Logs -> Nat]
    BY <1>1, <2>1, CodesRowsKept DEF ThreadsInv, Keeps
  <2> QED BY <1>1, <2>1, <2>2, OtherStep DEF CodesInv
<1> QED BY <1>4, <1>5, <1>6, <1>7, <1>8, <1>9, <1>10, <1>11 DEF O!Next, O!Serve

(* Which steps change a code's counters, and which write an account. *)
LEMMA RowsChange ==
    ASSUME O!Next
    PROVE  /\ \/ UNCHANGED codes
              \/ \E t \in A : O!IssueCode(t) \/ O!CountMiss(t) \/ O!Consume(t)
              \/ \E t \in A, right \in BOOLEAN : O!Guess(t, right)
              \/ \E k : O!CodeExpires(k)
           /\ UNCHANGED users \/ \E t \in A : O!WriteAccount(t)
<1>1. ASSUME NEW t \in A, O!Request(t)
      PROVE  UNCHANGED <<users, codes>>
  BY <1>1 DEF O!Request, O!PhoneOp, O!StartCode, O!BeginVerify, O!SignupEmail, O!LoginEmail, O!BeginCall
<1>2. ASSUME NEW t \in A, O!NoCode(t) \/ O!Refuse(t) \/ O!FindAccount(t) \/ O!CheckPassword(t)
                               \/ O!RecordFailure(t) \/ O!LogCall(t)
      PROVE  UNCHANGED <<users, codes>>
  BY <1>2 DEF O!NoCode, O!Refuse, O!FindAccount, O!CheckPassword, O!RecordFailure, O!LogCall
<1>3. ASSUME NEW t \in A, NEW right \in BOOLEAN,
             O!IssueCode(t) \/ O!CountMiss(t) \/ O!Consume(t) \/ O!Guess(t, right)
      PROVE  UNCHANGED users
  BY <1>3 DEF O!IssueCode, O!CountMiss, O!Consume, O!Guess
<1>4. ASSUME NEW t \in A, O!WriteAccount(t)
      PROVE  UNCHANGED codes
  BY <1>4 DEF O!WriteAccount
<1>5. ASSUME NEW k, O!CodeExpires(k) PROVE UNCHANGED users
  BY <1>5 DEF O!CodeExpires
<1>6. ASSUME NEW l, O!Forget(l) PROVE UNCHANGED <<users, codes>>
  BY <1>6 DEF O!Forget
<1> QED BY <1>1, <1>2, <1>3, <1>4, <1>5, <1>6 DEF O!Next, O!Serve

LEMMA AttemptsStep ==
    ASSUME O!LimitsAssumption, ThreadsInv, O!AttemptsWereMade, O!Next
    PROVE  O!AttemptsWereMade'
<1> USE RowTypes
<1>1. CASE UNCHANGED codes
  BY <1>1 DEF O!AttemptsWereMade
<1>2. ASSUME NEW t \in A, O!IssueCode(t)
      PROVE  O!AttemptsWereMade'
  <2> DEFINE row == [phone |-> codeTh[t].id, attempts |-> 0, wrong |-> 0, consumed |-> FALSE, expired |-> FALSE]
  <2>1. codes' = Append(codes, row) /\ row.attempts <= row.wrong /\ row \in O!CodeType
    BY <1>2, CodesBusy DEF O!IssueCode, O!At, RequestOK, KindOK, O!CodeType, O!LimitsAssumption
  <2> HIDE DEF row
  <2> QED BY <2>1, AppendFacts DEF O!AttemptsWereMade, ThreadsInv
<1>3. ASSUME NEW t \in A, O!CountMiss(t)
      PROVE  O!AttemptsWereMade'
  <2>1. codeTh[t].code \in DOMAIN codes /\ codeTh[t].seen < codes[codeTh[t].code].wrong /\ codeTh[t] \in O!ThreadType
    BY <1>3, CodesBusy DEF O!CountMiss, O!At, RequestOK, CodeOK
  <2>2. codeTh[t].seen \in Nat /\ codes[codeTh[t].code].wrong \in Nat
    BY <2>1 DEF O!ThreadType, O!CodeType, O!LimitsAssumption
  <2>3. codes' = [codes EXCEPT ![codeTh[t].code].attempts = codeTh[t].seen + 1]
    BY <1>3 DEF O!CountMiss
  <2>4. ASSUME NEW k \in DOMAIN codes'
        PROVE  codes'[k].attempts <= codes'[k].wrong
    <3>1. k \in DOMAIN codes /\ codes[k] \in O!CodeType /\ codes[k].attempts <= codes[k].wrong
      BY <2>3 DEF O!AttemptsWereMade
    <3>2. CASE k = codeTh[t].code
      <4>1. codes'[k].attempts = codeTh[t].seen + 1 /\ codes'[k].wrong = codes[k].wrong
        BY <2>3, <3>1, <3>2 DEF O!CodeType
      <4> QED BY <2>1, <2>2, <3>2, <4>1
    <3>3. CASE k # codeTh[t].code
      <4>1. codes'[k] = codes[k]
        BY <2>3, <3>1, <3>3
      <4> QED BY <3>1, <4>1
    <3> QED BY <3>2, <3>3
  <2> QED BY <2>4 DEF O!AttemptsWereMade
<1>4. ASSUME NEW t \in A, NEW right \in BOOLEAN, O!Guess(t, right)
      PROVE  O!AttemptsWereMade'
  <2>1. UNCHANGED codes \/ \E k \in DOMAIN codes : codes' = [codes EXCEPT ![k].wrong = @ + 1]
    BY <1>4, LatestFacts DEF O!Guess
  <2>2. ASSUME NEW n \in DOMAIN codes, codes' = [codes EXCEPT ![n].wrong = @ + 1],
               NEW k \in DOMAIN codes'
        PROVE  codes'[k].attempts <= codes'[k].wrong
    <3>1. k \in DOMAIN codes /\ codes[k] \in O!CodeType /\ codes[k].attempts <= codes[k].wrong
      BY <2>2 DEF O!AttemptsWereMade
    <3>2. codes'[k].attempts = codes[k].attempts /\ codes'[k].wrong \in {codes[k].wrong, codes[k].wrong + 1}
      BY <2>2, <3>1 DEF O!CodeType
    <3>3. codes[k].attempts \in Nat /\ codes[k].wrong \in Nat
      BY <3>1 DEF O!CodeType, O!LimitsAssumption
    <3> QED BY <3>1, <3>2, <3>3
  <2> QED BY <1>1, <2>1, <2>2 DEF O!AttemptsWereMade
<1>5. ASSUME (\E t \in A : O!Consume(t)) \/ \E k : O!CodeExpires(k)
      PROVE  O!AttemptsWereMade'
  <2>1. /\ DOMAIN codes' = DOMAIN codes
        /\ \A k \in DOMAIN codes : codes'[k].attempts = codes[k].attempts /\ codes'[k].wrong = codes[k].wrong
    <3>1. \/ \E n : codes' = [codes EXCEPT ![n].consumed = TRUE]
          \/ \E n : codes' = [codes EXCEPT ![n].expired = TRUE]
      BY <1>5 DEF O!Consume, O!CodeExpires
    <3>2. \A k \in DOMAIN codes : codes[k] \in O!CodeType
      OBVIOUS
    <3> QED BY <3>1, <3>2 DEF O!CodeType
  <2> QED BY <2>1 DEF O!AttemptsWereMade
<1> QED BY <1>1, <1>2, <1>3, <1>4, <1>5, RowsChange

LEMMA AccountsStep ==
    ASSUME ThreadsInv, O!OneAccountEach, O!Next
    PROVE  O!OneAccountEach'
<1>1. CASE UNCHANGED users
  BY <1>1 DEF O!OneAccountEach
<1>2. ASSUME NEW t \in A, O!WriteAccount(t)
      PROVE  O!OneAccountEach'
  <2>1. ASSUME NEW row \in O!UserType, users' = Append(users, row),
               row.email # None => O!Registered(row.email) = {},
               row.phone # None => O!Holders(row.phone) = {}
        PROVE  O!OneAccountEach'
    <3>1. /\ Len(users) \in Nat /\ DOMAIN users = 1 .. Len(users)
          /\ DOMAIN users' = DOMAIN users \cup {Len(users) + 1} /\ users'[Len(users) + 1] = row
          /\ \A i \in DOMAIN users : users'[i] = users[i] /\ i # Len(users) + 1
      BY <2>1, AppendFacts DEF ThreadsInv
    <3>2. \A u \in DOMAIN users : /\ row.email # None => users[u].email # row.email
                                  /\ row.phone # None => users[u].phone # row.phone
      BY <2>1 DEF O!Registered, O!Holders
    <3>3. ASSUME NEW u \in DOMAIN users', NEW v \in DOMAIN users', u # v
          PROVE  /\ users'[u].email = users'[v].email => users'[u].email = None
                 /\ users'[u].phone = users'[v].phone => users'[u].phone = None
      <4>1. CASE u \in DOMAIN users /\ v \in DOMAIN users
        BY <3>1, <3>3, <4>1 DEF O!OneAccountEach
      <4>2. CASE u \in DOMAIN users /\ v = Len(users) + 1
        BY <3>1, <3>2, <4>2
      <4>3. CASE v \in DOMAIN users /\ u = Len(users) + 1
        BY <3>1, <3>2, <4>3
      <4> QED BY <3>1, <3>3, <4>1, <4>2, <4>3
    <3> QED BY <3>3 DEF O!OneAccountEach
  <2>2. codeTh[t] \in O!ThreadType /\ RequestOK(codeTh[t]) /\ codeTh[t].at = "write"
    BY <1>2, CodesBusy DEF O!WriteAccount, O!At
  <2>3. CASE codeTh[t].op = "signup_email" /\ O!Unique(t) /\ codeTh[t].id \in Emails
             /\ users' = Append(users, [email |-> codeTh[t].id, phone |-> None])
    <3> DEFINE row == [email |-> codeTh[t].id, phone |-> None]
    <3>1. row \in O!UserType /\ row.email = codeTh[t].id /\ row.phone = None /\ users' = Append(users, row)
      BY <2>3 DEF O!UserType
    <3>2. O!Registered(codeTh[t].id) = {}
      BY <2>3 DEF O!Unique
    <3> HIDE DEF row
    <3> QED BY <2>1, <3>1, <3>2
  <2>4. CASE codeTh[t].op = "signup_phone" /\ O!Unique(t) /\ codeTh[t].id \in Phones
             /\ users' = Append(users, [email |-> None, phone |-> codeTh[t].id])
    <3> DEFINE row == [email |-> None, phone |-> codeTh[t].id]
    <3>1. row \in O!UserType /\ row.email = None /\ row.phone = codeTh[t].id /\ users' = Append(users, row)
      BY <2>4 DEF O!UserType
    <3>2. O!Holders(codeTh[t].id) \subseteq {0}
      BY <2>2, <2>4 DEF O!Unique, RequestOK, UserOK
    <3>3. O!Holders(codeTh[t].id) = {}
      BY <3>2, RowTypes DEF O!Holders
    <3> HIDE DEF row
    <3> QED BY <2>1, <3>1, <3>3
  <2>5. CASE codeTh[t].op = "link_phone" /\ O!Unique(t)
             /\ users' = [users EXCEPT ![codeTh[t].user].phone = codeTh[t].id]
    <3> DEFINE n == codeTh[t].user
               p == codeTh[t].id
    <3>1. n \in DOMAIN users /\ users[n] \in O!UserType
      BY <2>2, <2>5, RowTypes DEF RequestOK, UserOK
    <3>2. \A u \in DOMAIN users : u # n => users[u].phone # p
      BY <2>5 DEF O!Unique, O!Holders
    <3>3. /\ DOMAIN users' = DOMAIN users /\ users'[n].email = users[n].email /\ users'[n].phone = p
          /\ \A u \in DOMAIN users : u # n => users'[u] = users[u]
      BY <2>5, <3>1 DEF O!UserType
    <3> HIDE DEF n, p
    <3>4. ASSUME NEW u \in DOMAIN users, NEW v \in DOMAIN users, u # v
          PROVE  /\ users'[u].email = users'[v].email => users'[u].email = None
                 /\ users'[u].phone = users'[v].phone => users'[u].phone = None
      <4>1. users'[u].email = users[u].email /\ users'[v].email = users[v].email
        BY <3>3
      <4>2. CASE u # n /\ v # n
        BY <3>3, <3>4, <4>2 DEF O!OneAccountEach
      <4>3. CASE u = n \/ v = n
        BY <3>2, <3>3, <3>4, <4>1, <4>3 DEF O!OneAccountEach
      <4> QED BY <4>2, <4>3
    <3> QED BY <3>3, <3>4 DEF O!OneAccountEach
  <2> QED BY <1>1, <1>2, <2>3, <2>4, <2>5, WriteThreads
<1> QED BY <1>1, <1>2, RowsChange

LEMMA ProvedStep ==
    ASSUME ThreadsInv, O!PhoneWasProved, Grows, O!Next
    PROVE  O!PhoneWasProved'
<1>1. ASSUME NEW p, \E k \in DOMAIN codes : codes[k].phone = p /\ codes[k].consumed
      PROVE  \E k \in DOMAIN codes' : codes'[k].phone = p /\ codes'[k].consumed
  BY <1>1 DEF Grows
<1>2. ASSUME NEW u \in DOMAIN users', users'[u].phone # None,
             \/ u \in DOMAIN users /\ users'[u].phone = users[u].phone
             \/ \E k \in DOMAIN codes : codes[k].phone = users'[u].phone /\ codes[k].consumed
      PROVE  \E k \in DOMAIN codes' : codes'[k].phone = users'[u].phone /\ codes'[k].consumed
  BY <1>1, <1>2, SMTT(60) DEF O!PhoneWasProved
<1>3. CASE UNCHANGED users
  BY <1>2, <1>3 DEF O!PhoneWasProved
<1>4. ASSUME NEW t \in A, O!WriteAccount(t)
      PROVE  O!PhoneWasProved'
  <2>1. RequestOK(codeTh[t]) /\ codeTh[t].at = "write"
    BY <1>4, CodesBusy DEF O!WriteAccount, O!At
  <2>2. codeTh[t].op # "signup_email" =>
                \E k \in DOMAIN codes : codes[k].phone = codeTh[t].id /\ codes[k].consumed
    BY <2>1 DEF RequestOK, CodeOK
  <2>3. ASSUME NEW row \in O!UserType, users' = Append(users, row), NEW u \in DOMAIN users'
        PROVE  \/ u \in DOMAIN users /\ users'[u].phone = users[u].phone
               \/ users'[u] = row
    BY <2>3, AppendFacts DEF ThreadsInv
  <2>4. ASSUME NEW u \in DOMAIN users', users'[u].phone # None
        PROVE  \/ u \in DOMAIN users /\ users'[u].phone = users[u].phone
               \/ \E k \in DOMAIN codes : codes[k].phone = users'[u].phone /\ codes[k].consumed
    <3>1. CASE UNCHANGED users
      BY <3>1
    <3>2. CASE codeTh[t].id \in Emails /\ users' = Append(users, [email |-> codeTh[t].id, phone |-> None])
      <4>1. [email |-> codeTh[t].id, phone |-> None] \in O!UserType
        BY <3>2 DEF O!UserType
      <4> QED BY <2>3, <2>4, <3>2, <4>1
    <3>3. CASE codeTh[t].id \in Phones /\ users' = Append(users, [email |-> None, phone |-> codeTh[t].id])
               /\ codeTh[t].op # "signup_email"
      <4>1. [email |-> None, phone |-> codeTh[t].id] \in O!UserType
        BY <3>3 DEF O!UserType
      <4> QED BY <2>2, <2>3, <3>3, <4>1
    <3>4. CASE users' = [users EXCEPT ![codeTh[t].user].phone = codeTh[t].id] /\ codeTh[t].op # "signup_email"
      <4>1. \A v \in DOMAIN users : users[v] \in O!UserType
        BY RowTypes
      <4>2. u \in DOMAIN users
        BY <3>4
      <4>3. users'[u].phone = users[u].phone \/ users'[u].phone = codeTh[t].id
        BY <3>4, <4>1, <4>2 DEF O!UserType
      <4> QED BY <2>2, <3>4, <4>2, <4>3
    <3> QED BY <1>4, <3>1, <3>2, <3>3, <3>4, WriteThreads
  <2> QED BY <1>2, <2>4 DEF O!PhoneWasProved
<1> QED BY <1>3, <1>4, RowsChange

LEMMA StepInv ==
    ASSUME O!LimitsAssumption, O!ThreadsAssumption, AccountsInv, [O!Next]_(O!vars)
    PROVE  AccountsInv'
<1>1. CASE O!Next
  BY <1>1, CodesStep, LimitsStep, AttemptsStep, AccountsStep, ProvedStep DEF AccountsInv, CodesInv
<1>2. CASE UNCHANGED O!vars
  <2>1. UNCHANGED users /\ UNCHANGED codes /\ UNCHANGED recent /\ UNCHANGED codeTh
    BY <1>2 DEF O!vars
  <2>2. ThreadsInv'
    BY <2>1, CodesRowsKept, OtherStep DEF AccountsInv, CodesInv, ThreadsInv
  <2>3. CodesRowsInv' /\ LimitsInv'
    BY <2>1 DEF AccountsInv, CodesInv, CodesRowsInv, LoginRows, LimitsInv, Writers
  <2>4. O!AttemptsWereMade' /\ O!OneAccountEach' /\ O!PhoneWasProved'
    BY <2>1 DEF AccountsInv, O!AttemptsWereMade, O!OneAccountEach, O!PhoneWasProved
  <2> QED BY <2>2, <2>3, <2>4 DEF AccountsInv, CodesInv
<1> QED BY <1>1, <1>2

LEMMA AccountsInvCorrect ==
    ASSUME O!LimitsAssumption, O!ThreadsAssumption
    PROVE  O!Spec => []AccountsInv
<1>1. O!Init => AccountsInv
  BY InitInv
<1>2. AccountsInv /\ [O!Next]_(O!vars) => AccountsInv'
  BY StepInv
<1> QED BY <1>1, <1>2, PTL DEF O!Spec

-----------------------------------------------------------------------------
(* Whatever requests overlap, the rows and the threads are well formed, and  *)
(* a code's counter, written back from an old reading, stays within its      *)
(* limit (router.py _verify_and_consume_otp).                                *)
THEOREM CodesTypeCorrect ==
    ASSUME O!LimitsAssumption, O!ThreadsAssumption
    PROVE  O!Spec => []O!TypeOK
<1>1. AccountsInv => O!TypeOK
  BY DEF AccountsInv, CodesInv, ThreadsInv, O!TypeOK
<1> QED BY <1>1, AccountsInvCorrect, PTL

(* Any number of threads, any limits: each request counts the rows before it *)
(* inserts its own, so a window exceeds its limit by at most one row for     *)
(* every other thread (rate_limit.py).                                       *)
THEOREM LimitsCorrect ==
    ASSUME O!LimitsAssumption, O!ThreadsAssumption
    PROVE  O!Spec => []O!LimitsHold
<1>1. AccountsInv => O!LimitsHold
  <2> SUFFICES ASSUME AccountsInv, NEW l \in O!Logs
               PROVE  recent[l] <= O!Limit(l) + Cardinality(A) - 1
    BY SameSizes DEF O!LimitsHold
  <2>1. recent[l] \in Nat /\ recent[l] + Cardinality(Writers(l)) <= O!Limit(l) + Cardinality(A) - 1
    BY DEF AccountsInv, CodesInv, ThreadsInv, LimitsInv
  <2>2. Cardinality(Writers(l)) \in Nat /\ Cardinality(A) \in Nat
    BY WriterFacts
  <2>3. O!Limit(l) \in Nat
    BY LimitTypes
  <2> QED BY <2>1, <2>2, <2>3
<1> QED BY <1>1, AccountsInvCorrect, PTL

(* A code's counter never exceeds the wrong guesses made at it, whichever of *)
(* the threads' updates of it are lost (router.py _verify_and_consume_otp).  *)
THEOREM AttemptsCorrect ==
    ASSUME O!LimitsAssumption, O!ThreadsAssumption
    PROVE  O!Spec => []O!AttemptsWereMade
<1>1. AccountsInv => O!AttemptsWereMade
  BY DEF AccountsInv
<1> QED BY <1>1, AccountsInvCorrect, PTL

(* No two accounts come to share an email or a phone, though handlers look   *)
(* for one before they write it (router.py signup_email, signup_phone_verify, *)
(* link_phone_verify).                                                       *)
THEOREM OneEachCorrect ==
    ASSUME O!LimitsAssumption, O!ThreadsAssumption
    PROVE  O!Spec => []O!OneAccountEach
<1>1. AccountsInv => O!OneAccountEach
  BY DEF AccountsInv
<1> QED BY <1>1, AccountsInvCorrect, PTL

(* Every phone an account has was proved by a code redeemed for it.          *)
THEOREM ProvedCorrect ==
    ASSUME O!LimitsAssumption, O!ThreadsAssumption
    PROVE  O!Spec => []O!PhoneWasProved
<1>1. AccountsInv => O!PhoneWasProved
  BY DEF AccountsInv
<1> QED BY <1>1, AccountsInvCorrect, PTL

(* Sign-up and sign-in are sound (auth/router.py:160-345, rate_limit.py),    *)
(* whichever requests are under way at once.                                 *)
THEOREM AccountsCorrect == Spec => []AccountsAreSound
<1>1. O!LimitsAssumption /\ O!ThreadsAssumption
  BY PartsAssumption DEF PartsAssumption
<1>2. O!Spec => /\ []O!TypeOK /\ []O!LimitsHold /\ []O!AttemptsWereMade
                /\ []O!OneAccountEach /\ []O!PhoneWasProved
  BY <1>1, CodesTypeCorrect, LimitsCorrect, AttemptsCorrect, OneEachCorrect, ProvedCorrect
<1>3. O!TypeOK /\ O!LimitsHold /\ O!AttemptsWereMade /\ O!OneAccountEach /\ O!PhoneWasProved
      => AccountsAreSound
  BY DEF AccountsAreSound
<1> QED BY <1>2, <1>3, AccountsOfSpec, PTL
================================================================================
