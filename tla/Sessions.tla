------------------------------ MODULE Sessions ------------------------------
(***************************************************************************)
(* Sign-in sessions: the refresh tokens of app/auth/router.py, their       *)
(* rotation in two transactions, sign-out, and password reset, with the    *)
(* pages of frontend/src/auth and frontend/src/api.ts that use them.       *)
(*                                                                         *)
(* A page is a tab of a browser; the tabs of one browser share its refresh *)
(* cookie, each tab holds an access token of its own in memory.  A token   *)
(* is known by its row's place in the table, the first is number 1; 0      *)
(* stands for no token.  FastAPI drops the headers of the response         *)
(* parameter when a handler raises, so a refused refresh leaves the cookie *)
(* as it is.                                                               *)
(***************************************************************************)
EXTENDS Naturals, Sequences, FiniteSets

CONSTANTS
    Users,
    Browsers, Tabs,
    Requests,       \* request threads of the server
    MaxTokens,      \* bound: rows of refresh_tokens
    MaxLinks,       \* bound: password-reset links
    Faults,         \* subset of {"loss", "restart"}
    None

BoundsAssumption == MaxTokens \in Nat /\ MaxLinks \in Nat
NoneAssumption == None \notin Users

VARIABLES
    tokens,    \* the rows of refresh_tokens, oldest first
    links,     \* the password-reset rows of auth_tokens
    cookie,    \* the refresh cookie of each browser
    access,    \* access token in each page's memory
    signed,    \* the user each page shows as signed in
    loading,   \* whether a page still waits for its mount-time refresh
    req,       \* what each request thread is at
    excused    \* history: browsers whose session something else may have ended

vars == <<tokens, links, cookie, access, signed, loading, req, excused>>

Pages == Browsers \X Tabs
Jar(p) == p[1]

Idle == [at |-> "idle"]
Free(r) == req[r].at = "idle"
Busy == {r \in Requests : ~Free(r)}

(* Requests of browser b under way. *)
FromBrowser(b) == {r \in Busy : Jar(req[r].page) = b}

(* A page's requests; the promise of a mount-time or of an automatic refresh *)
(* is held while a request of that kind is under way.                       *)
FromPage(p) == {r \in Busy : req[r].page = p /\ ~req[r].orphan}
Refreshing(p) == {r \in FromPage(p) : req[r].op \in {"mount", "renew"}}

Family(f) == {t \in DOMAIN tokens : tokens[t].family = f}
Families == {tokens[t].family : t \in DOMAIN tokens}

(* Threads that read a live token of family f and have yet to write. *)
Rotating(f) == {r \in Busy : /\ req[r].at \in {"revoke", "issue"}
                             /\ req[r].family = f}

(* Rows still to come from requests under way. *)
Owed == {r \in Busy : req[r].op \in {"login", "mount", "renew"} /\
                      req[r].at \in {"sent", "revoke", "issue"}}
RoomForToken == Len(tokens) + Cardinality(Owed) < MaxTokens

Init ==
    /\ tokens = <<>>
    /\ links = <<>>
    /\ cookie = [b \in Browsers |-> 0]
    /\ access = [p \in Pages |-> None]
    /\ signed = [p \in Pages |-> None]
    /\ loading = [p \in Pages |-> FALSE]
    /\ req = [r \in Requests |-> Idle]
    /\ excused = {}

-----------------------------------------------------------------------------
(* The pages. *)

(* A request the page did not hold back while others used the same cookie. *)
Overlaps(p, op) ==
    \E r \in FromBrowser(Jar(p)) :
        ~(op \in {"mount", "renew"} /\ r \in Refreshing(p))

Send(r, p, op, user, token) ==
    /\ Free(r)
    /\ req' = [req EXCEPT ![r] =
           [at |-> "sent", op |-> op, page |-> p, orphan |-> FALSE,
            user |-> user, token |-> token, family |-> 0]]
    /\ excused' = IF Overlaps(p, op) THEN excused \cup {Jar(p)} ELSE excused

(* A page opens, or is loaded again: what it had in memory is gone, and the *)
(* requests it was waiting for are no longer awaited.  The effect that runs *)
(* on mount shares one promise between its two runs.                        *)
Open(p, r) ==
    /\ RoomForToken
    /\ Free(r)
    /\ req' = [q \in Requests |->
           IF q = r THEN [at |-> "sent", op |-> "mount", page |-> p,
                          orphan |-> FALSE, user |-> None,
                          token |-> cookie[Jar(p)], family |-> 0]
           ELSE IF q \in FromPage(p) THEN [req[q] EXCEPT !.orphan = TRUE]
           ELSE req[q]]
    /\ loading' = [loading EXCEPT ![p] = TRUE]
    /\ access' = [access EXCEPT ![p] = None]
    /\ signed' = [signed EXCEPT ![p] = None]
    /\ excused' = IF FromBrowser(Jar(p)) # {} THEN excused \cup {Jar(p)}
                  ELSE excused
    /\ UNCHANGED <<tokens, links, cookie>>

(* The promise of refreshAccessToken: one refresh at a time. *)
MayRefresh(p) == Refreshing(p) = {}

(* fetchWithRefresh: a call without a usable access token was answered 401, *)
(* and the page refreshes before it tries again; a call made meanwhile      *)
(* joins the refresh under way.  Pages behind ProtectedRoute make no call   *)
(* while the mount-time refresh lasts.                                      *)
Renew(p, r) ==
    /\ signed[p] # None
    /\ ~loading[p]
    /\ access[p] \in {None, "stale"}
    /\ MayRefresh(p)
    /\ RoomForToken
    /\ Send(r, p, "renew", None, cookie[Jar(p)])
    /\ UNCHANGED <<tokens, links, cookie, access, signed, loading>>

Login(p, r, u) ==
    /\ ~loading[p]
    /\ signed[p] = None
    /\ RoomForToken
    /\ Send(r, p, "login", u, 0)
    /\ UNCHANGED <<tokens, links, cookie, access, signed, loading>>

(* logout sends the access token and the cookie it has. *)
Logout(p, r) ==
    /\ ~loading[p]
    /\ signed[p] # None
    /\ \A q \in FromPage(p) : req[q].op # "logout"
    /\ Send(r, p, "logout", IF access[p] = "fresh" THEN signed[p] ELSE None,
            cookie[Jar(p)])
    /\ UNCHANGED <<tokens, links, cookie, access, signed, loading>>

(* A password reset: the link comes by mail, and is opened in some page. *)
RequestReset(u) ==
    /\ Len(links) < MaxLinks
    /\ links' = Append(links, [user |-> u, consumed |-> FALSE])
    /\ UNCHANGED <<tokens, cookie, access, signed, loading, req, excused>>

ConfirmReset(p, r, k) ==
    /\ k \in DOMAIN links
    /\ signed[p] = None
    /\ Send(r, p, "confirm", None, k)
    /\ UNCHANGED <<tokens, links, cookie, access, signed, loading>>

(* Sixty minutes pass. *)
AccessExpires(p) ==
    /\ access[p] = "fresh"
    /\ access' = [access EXCEPT ![p] = "stale"]
    /\ UNCHANGED <<tokens, links, cookie, signed, loading, req, excused>>

-----------------------------------------------------------------------------
(* The server, one transaction at a time. *)

At(r, op, at) == req[r].at = at /\ req[r].op \in op
Goto(r, at) == req' = [req EXCEPT ![r].at = at]
ServerOnly == UNCHANGED <<cookie, access, signed, loading>>

(* Mutant of Verdicts: a redeemed token is redeemed again. *)
VerdictsBlind(t) == IF t = 0 THEN {"refused"} ELSE {"revoke"}

(* What refresh may do with the row it read: the token is seven days old or *)
(* not.                                                                     *)
Verdicts(t) ==
    IF t = 0 THEN {"refused"}
    ELSE IF tokens[t].revoked THEN {"revokeFamily"}
    ELSE {"refused", "revoke"}

ReadToken(r) ==
    /\ At(r, {"mount", "renew"}, "sent")
    /\ LET t == req[r].token IN
       \E at \in Verdicts(t) :
           req' = [req EXCEPT
               ![r].at = at,
               ![r].user = IF t = 0 THEN None ELSE tokens[t].user,
               ![r].family = IF t = 0 THEN 0 ELSE tokens[t].family]
    /\ ServerOnly
    /\ UNCHANGED <<tokens, links, excused>>

Revoked(T) == [t \in DOMAIN tokens |->
    IF t \in T THEN [tokens[t] EXCEPT !.revoked = TRUE] ELSE tokens[t]]

(* A token that was redeemed before ends every session of its family. *)
RevokeFamily(r) ==
    /\ At(r, {"mount", "renew"}, "revokeFamily")
    /\ tokens' = Revoked(Family(req[r].family))
    /\ Goto(r, "refused")
    /\ ServerOnly
    /\ UNCHANGED <<links, excused>>

RevokeToken(r) ==
    /\ At(r, {"mount", "renew"}, "revoke")
    /\ tokens' = Revoked({req[r].token})
    /\ Goto(r, "issue")
    /\ ServerOnly
    /\ UNCHANGED <<links, excused>>

(* _issue_session: the row of the token the answer carries. *)
IssueSession(r) ==
    /\ At(r, {"mount", "renew", "login"}, "issue")
    /\ LET t == Len(tokens) + 1
           heir == req[r].op # "login" IN
       /\ tokens' = Append(tokens,
              [user |-> req[r].user, revoked |-> FALSE,
               family |-> IF heir THEN req[r].family ELSE t,
               parent |-> IF heir THEN req[r].token ELSE 0])
       /\ req' = [req EXCEPT ![r].at = "ok", ![r].token = t]
    /\ ServerOnly
    /\ UNCHANGED <<links, excused>>

(* login_email, its credentials right or not; OneTimeCodes has its limits. *)
CheckPassword(r) ==
    /\ At(r, {"login"}, "sent")
    /\ \E at \in {"issue", "refused"} : Goto(r, at)
    /\ ServerOnly
    /\ UNCHANGED <<tokens, links, excused>>

(* logout reads the user's row, and revokes it if it was not. *)
ReadOwnToken(r) ==
    /\ At(r, {"logout"}, "sent")
    /\ LET t == req[r].token IN
       Goto(r, IF req[r].user = None THEN "refused"
               ELSE IF t # 0 /\ tokens[t].user = req[r].user /\ ~tokens[t].revoked
               THEN "revokeOwn" ELSE "ok")
    /\ ServerOnly
    /\ UNCHANGED <<tokens, links, excused>>

RevokeOwnToken(r) ==
    /\ At(r, {"logout"}, "revokeOwn")
    /\ tokens' = Revoked({req[r].token})
    /\ Goto(r, "ok")
    /\ ServerOnly
    /\ UNCHANGED <<links, excused>>

(* password_reset_confirm: the link, thirty minutes old or not, is checked, *)
(* then used in one commit.                                                 *)
ReadLink(r) ==
    /\ At(r, {"confirm"}, "sent")
    /\ \E at \in {"refused", "apply"} :
           /\ at = "apply" => ~links[req[r].token].consumed
           /\ Goto(r, at)
    /\ ServerOnly
    /\ UNCHANGED <<tokens, links, excused>>

ApplyReset(r) ==
    /\ At(r, {"confirm"}, "apply")
    /\ LET k == req[r].token
           own == {t \in DOMAIN tokens : tokens[t].user = links[k].user} IN
       /\ links' = [links EXCEPT ![k].consumed = TRUE]
       /\ tokens' = Revoked(own)
       /\ excused' = excused \cup
              {b \in Browsers : \/ cookie[b] \in own
                                \/ \E q \in FromBrowser(b) :
                                       req[q].op # "confirm" /\ req[q].token \in own}
    /\ Goto(r, "ok")
    /\ ServerOnly

-----------------------------------------------------------------------------
(* The answers, and what the page makes of them. *)

Keep(p) == UNCHANGED <<access, signed, loading>>
SetPage(p, a, u) ==
    /\ access' = [access EXCEPT ![p] = a]
    /\ signed' = [signed EXCEPT ![p] = u]
    /\ loading' = [loading EXCEPT ![p] = FALSE]

(* The page's part of each answer: the mount-time refresh also asks for the *)
(* profile, and a failure of either drops the session of the page; a failed *)
(* automatic refresh drops the access token only; sign-out always drops the *)
(* session.                                                                 *)
React(r, ok) ==
    LET p == req[r].page
        op == req[r].op IN
    CASE op = "mount" ->
            \/ ok /\ SetPage(p, "fresh", req[r].user)
            \/ (~ok \/ "loss" \in Faults) /\ SetPage(p, None, None)
      [] op = "renew" ->
            /\ access' = [access EXCEPT ![p] = IF ok THEN "fresh" ELSE None]
            /\ UNCHANGED <<signed, loading>>
      [] op = "login" ->
            IF ok THEN SetPage(p, "fresh", req[r].user) ELSE Keep(p)
      [] op = "logout" -> SetPage(p, None, None)
      [] OTHER -> Keep(p)

(* The browser keeps the cookie of a good answer. *)
NewCookie(r) ==
    IF req[r].op \in {"mount", "renew", "login"} THEN req[r].token
    ELSE IF req[r].op = "logout" THEN 0
    ELSE cookie[Jar(req[r].page)]

(* A sign-in or a sign-out nothing else disturbed. *)
Undisturbed(r) ==
    /\ FromBrowser(Jar(req[r].page)) = {r}
    /\ \/ req[r].op = "logout"
       \/ req[r].op = "login" /\ ~tokens[req[r].token].revoked

Answer(r) ==
    /\ req[r].at \in {"ok", "refused"}
    /\ ~req[r].orphan
    /\ LET b == Jar(req[r].page)
           ok == req[r].at = "ok" IN
       /\ React(r, ok)
       /\ cookie' = IF ok THEN [cookie EXCEPT ![b] = NewCookie(r)] ELSE cookie
       /\ excused' = IF ok /\ Undisturbed(r)
                     THEN excused \ {b} ELSE excused
    /\ req' = [req EXCEPT ![r] = Idle]
    /\ UNCHANGED <<tokens, links>>

(* The answer to a page that was left may still set the browser's cookie. *)
LateAnswer(r) ==
    /\ req[r].at \in {"ok", "refused"}
    /\ req[r].orphan
    /\ LET b == Jar(req[r].page) IN
       \/ req[r].at = "ok" /\ cookie' = [cookie EXCEPT ![b] = NewCookie(r)]
       \/ UNCHANGED cookie
    /\ req' = [req EXCEPT ![r] = Idle]
    /\ UNCHANGED <<tokens, links, access, signed, loading, excused>>

(* The answer never arrives, or the server restarts in the middle: every    *)
(* request under way fails at the page, what was committed stays.           *)
LoseAnswer(r) ==
    /\ "loss" \in Faults
    /\ req[r].at \in {"ok", "refused"}
    /\ IF req[r].orphan THEN UNCHANGED <<access, signed, loading>>
       ELSE React(r, FALSE)
    /\ excused' = excused \cup {Jar(req[r].page)}
    /\ req' = [req EXCEPT ![r] = Idle]
    /\ UNCHANGED <<tokens, links, cookie>>

Restart ==
    /\ "restart" \in Faults
    /\ Busy # {}
    /\ req' = [r \in Requests |->
           IF Free(r) \/ req[r].at \in {"ok", "refused"} THEN req[r]
           ELSE [req[r] EXCEPT !.at = "refused"]]
    /\ excused' = excused \cup {Jar(req[r].page) : r \in Busy}
    /\ UNCHANGED <<tokens, links, cookie, access, signed, loading>>

-----------------------------------------------------------------------------
Serve(r) ==
    \/ ReadToken(r) \/ RevokeFamily(r) \/ RevokeToken(r) \/ IssueSession(r)
    \/ CheckPassword(r) \/ ReadOwnToken(r) \/ RevokeOwnToken(r)
    \/ ReadLink(r) \/ ApplyReset(r)

Receive(r) == Answer(r) \/ LateAnswer(r) \/ LoseAnswer(r)

Visit(p, r) ==
    \/ Open(p, r) \/ Renew(p, r) \/ Logout(p, r)
    \/ \E u \in Users : Login(p, r, u)
    \/ \E k \in 1..MaxLinks : ConfirmReset(p, r, k)

Next ==
    \/ \E r \in Requests : Serve(r) \/ Receive(r)
    \/ \E p \in Pages, r \in Requests : Visit(p, r)
    \/ \E u \in Users : RequestReset(u)
    \/ \E p \in Pages : AccessExpires(p)
    \/ Restart

Spec == Init /\ [][Next]_vars

-----------------------------------------------------------------------------
TokenType == [user : Users, family : Nat, parent : Nat, revoked : BOOLEAN]
LinkType == [user : Users, consumed : BOOLEAN]
RequestType ==
    [at : {"sent", "revoke", "revokeFamily", "issue", "revokeOwn", "apply",
           "ok", "refused"},
     op : {"mount", "renew", "login", "logout", "confirm"},
     page : Pages, orphan : BOOLEAN, user : Users \cup {None}, token : Nat,
     family : Nat]

(* The type invariant: every row, cookie and request has its shape. *)
TypeOK ==
    /\ tokens \in Seq(TokenType)
    /\ links \in Seq(LinkType)
    /\ cookie \in [Browsers -> Nat]
    /\ access \in [Pages -> {None, "fresh", "stale"}]
    /\ signed \in [Pages -> Users \cup {None}]
    /\ loading \in [Pages -> BOOLEAN]
    /\ req \in [Requests -> {Idle} \cup RequestType]
    /\ excused \subseteq Browsers

(* A token that has a successor is spent, wherever a restart or a lost      *)
(* answer interrupted the rotation: refresh revokes in one transaction and  *)
(* inserts in the next, so a line of descent never has two usable tokens.   *)
ParentIsSpent ==
    \A t \in DOMAIN tokens :
        tokens[t].parent # 0 =>
            /\ tokens[t].parent < t
            /\ tokens[tokens[t].parent].revoked
            /\ tokens[tokens[t].parent].family = tokens[t].family

(* A browser left to itself keeps its session: with nothing under way its   *)
(* cookie is a token that was never redeemed and the only such token of its *)
(* family, unless an answer was lost, the server restarted, the password    *)
(* was reset, or tabs used the cookie at once.  One tab's refreshes must    *)
(* never overlap (AuthContext.jsx:10-21, api.ts:23-29).                     *)
SessionSurvives ==
    \A b \in Browsers \ excused :
        FromBrowser(b) = {} /\ cookie[b] # 0 =>
            {t \in Family(tokens[cookie[b]].family) : ~tokens[t].revoked}
                = {cookie[b]}

(* No live token of family f, and none on its way. *)
Ended(f) ==
    /\ \A t \in Family(f) : tokens[t].revoked
    /\ Rotating(f) = {}

(* A family that has ended (by sign-out, a redeemed token shown again, or a *)
(* password reset) with no rotation in progress never yields a usable token *)
(* again: what escapes a revocation is a successor whose predecessor had    *)
(* been read before it, and nothing else.                                   *)
EndedStaysEnded ==
    [][\A f \in Families : Ended(f) => Ended(f)']_vars

=============================================================================
