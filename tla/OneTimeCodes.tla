----------------------------- MODULE OneTimeCodes -----------------------------
(***************************************************************************)
(* Accounts and what admits to them (app/auth/router.py, rate_limit.py):   *)
(* sign-up and sign-in by email and by one-time codes sent to a phone, the *)
(* linking of a phone, and the limits that count the rows of a window: of  *)
(* otp_codes, of login_attempts, and of api_call_log for the endpoints     *)
(* that spend model calls.                                                 *)
(*                                                                         *)
(* A handler runs on a thread of the server, and each of its queries and   *)
(* commits is a step of its own: what it read may have changed by the time *)
(* it writes.  An account is known by its row's place in users, a code by  *)
(* its row's place in otp_codes, oldest first.  Sessions has the tokens a  *)
(* sign-in ends with.                                                      *)
(***************************************************************************)
EXTENDS Naturals, Sequences, FiniteSets

CONSTANTS
    Threads,
    Emails, Phones, Endpoints,
    OtpLimit,       \* OTP_REQUEST_LIMIT
    AttemptLimit,   \* OTP_VERIFY_ATTEMPT_LIMIT
    LoginLimit,     \* LOGIN_IDENTIFIER_LIMIT
    IpLimit,        \* LOGIN_IP_LIMIT; every request comes from one address
    CallLimit,      \* the limit of enforce_call_limit
    MaxAccounts, MaxCodes,   \* bounds: rows of users and of otp_codes
    MaxGuesses,     \* bound: wrong guesses at one code
    Ops,            \* the endpoints in use
    None

Identifiers == Emails \cup Phones

(* The logs the limits count: a failed sign-in counts for its identifier    *)
(* and for its address.                                                     *)
Address == <<"ip", None>>
Logs == ({"otp"} \X Phones) \cup ({"login"} \X Identifiers) \cup {Address}
        \cup ({"call"} \X Endpoints)

Limit(log) == CASE log[1] = "otp" -> OtpLimit
                [] log[1] = "login" -> LoginLimit
                [] log[1] = "ip" -> IpLimit
                [] log[1] = "call" -> CallLimit

LimitsAssumption ==
    {OtpLimit, AttemptLimit, LoginLimit, IpLimit, CallLimit} \subseteq Nat \ {0}
ThreadsAssumption == IsFiniteSet(Threads) /\ Threads # {}

VARIABLES
    users,     \* the rows of users
    codes,     \* the rows of otp_codes; wrong is history: the wrong guesses made
    recent,    \* how many rows of each log are within its window
    th         \* what each thread is at

vars == <<users, codes, recent, th>>

Idle == [at |-> "idle", logs |-> {}]

Init ==
    /\ users = <<>>
    /\ codes = <<>>
    /\ recent = [l \in Logs |-> 0]
    /\ th = [t \in Threads |-> Idle]

At(t, at) == th[t].at = at
Goto(t, at) == th' = [th EXCEPT ![t].at = at]
Done(t) == th' = [th EXCEPT ![t] = Idle]

Holders(phone) == {u \in DOMAIN users : users[u].phone = phone}
Registered(email) == {u \in DOMAIN users : users[u].email = email}

(* The rows are counted; the request's own is inserted by a later step.     *)
Within(logs) == \A l \in logs : recent[l] < Limit(l)

Insert(logs) ==
    recent' = [l \in Logs |-> IF l \in logs THEN recent[l] + 1 ELSE recent[l]]

(* A thread takes a request up; logs are the rows it may yet insert. *)
Begin(t, op, id, user, at, logs) ==
    /\ At(t, "idle")
    /\ op \in Ops
    /\ th' = [th EXCEPT ![t] = [at |-> at, op |-> op, id |-> id, user |-> user,
                                code |-> 0, seen |-> 0, logs |-> logs]]

-----------------------------------------------------------------------------
(* enforce_otp_request_limit. *)
Requested(phone) == Within({<<"otp", phone>>})

(* The three endpoints that send a code: sign-up refuses a phone that has   *)
(* an account, linking one that has another account.                        *)
StartCode(t, op, phone, user) ==
    /\ op = "signup_phone" => Holders(phone) = {}
    /\ op = "link_phone" => Holders(phone) \subseteq {user}
    /\ Requested(phone)
    /\ Begin(t, op, phone, user, "issue", {<<"otp", phone>>})
    /\ UNCHANGED <<users, codes, recent>>

(* _issue_otp. *)
IssueCode(t) ==
    /\ At(t, "issue")
    /\ Len(codes) < MaxCodes
    /\ codes' = Append(codes, [phone |-> th[t].id, attempts |-> 0, wrong |-> 0,
                               consumed |-> FALSE, expired |-> FALSE])
    /\ Insert(th[t].logs)
    /\ Done(t)
    /\ UNCHANGED users

(* enforce_login_rate_limit, for the sign-in endpoints alone. *)
FailureLogs(id) == {<<"login", id>>, Address}

BeginVerify(t, op, phone, user) ==
    /\ op = "login_phone" => Within(FailureLogs(phone))
    /\ Begin(t, op, phone, user, "verify",
             IF op = "login_phone" THEN FailureLogs(phone) ELSE {})
    /\ UNCHANGED <<users, codes, recent>>

ValidCodes(phone) ==
    {k \in DOMAIN codes : codes[k].phone = phone /\ ~codes[k].consumed
                          /\ ~codes[k].expired}
Latest(K) == CHOOSE k \in K : \A j \in K : j <= k

(* A sign-in that failed is recorded; other endpoints just answer. *)
Miss(t) == IF th[t].op = "login_phone" THEN Goto(t, "record") ELSE Done(t)

(* _verify_and_consume_otp: no code, a code tried too often, or a guess at  *)
(* the latest one, wrong or right.                                          *)
NoCode(t) ==
    /\ At(t, "verify")
    /\ ValidCodes(th[t].id) = {}
    /\ Miss(t)
    /\ UNCHANGED <<users, codes, recent>>

TriedTooOften(k) == codes[k].attempts >= AttemptLimit

Refuse(t) ==
    /\ At(t, "verify")
    /\ ValidCodes(th[t].id) # {}
    /\ TriedTooOften(Latest(ValidCodes(th[t].id)))
    /\ Done(t)
    /\ UNCHANGED <<users, codes, recent>>

Guess(t, right) ==
    /\ At(t, "verify")
    /\ ValidCodes(th[t].id) # {}
    /\ LET k == Latest(ValidCodes(th[t].id)) IN
       /\ ~TriedTooOften(k)
       /\ ~right => codes[k].wrong < MaxGuesses
       /\ th' = [th EXCEPT ![t].at = IF right THEN "consume" ELSE "miss",
                           ![t].code = k, ![t].seen = codes[k].attempts]
       /\ codes' = IF right THEN codes ELSE [codes EXCEPT ![k].wrong = @ + 1]
    /\ UNCHANGED <<users, recent>>

(* The counter is written back as read, plus one. *)
CountMiss(t) ==
    /\ At(t, "miss")
    /\ codes' = [codes EXCEPT ![th[t].code].attempts = th[t].seen + 1]
    /\ Miss(t)
    /\ UNCHANGED <<users, recent>>

(* Mutant of Consume: the code is not marked. *)
ConsumeNot(t) ==
    /\ At(t, "consume")
    /\ Goto(t, "account")
    /\ UNCHANGED <<users, codes, recent>>

Consume(t) ==
    /\ At(t, "consume")
    /\ codes' = [codes EXCEPT ![th[t].code].consumed = TRUE]
    /\ Goto(t, "account")
    /\ UNCHANGED <<users, recent>>

(* What the code was for: the account is looked up, *)
FindAccount(t) ==
    /\ At(t, "account")
    /\ LET held == Holders(th[t].id) IN
       CASE th[t].op = "login_phone" ->
              IF held = {} THEN Goto(t, "record") ELSE Done(t)
         [] th[t].op = "signup_phone" ->
              IF held = {} THEN Goto(t, "write") ELSE Done(t)
         [] th[t].op = "link_phone" ->
              IF held \subseteq {th[t].user} THEN Goto(t, "write") ELSE Done(t)
    /\ UNCHANGED <<users, codes, recent>>

(* The unique indexes of users let no second row take a phone or an email. *)
Unique(t) == IF th[t].op = "signup_email" THEN Registered(th[t].id) = {}
             ELSE Holders(th[t].id) \subseteq {th[t].user}

(* and written: a new row, or the phone of the signed-in user's. *)
WriteAccount(t) ==
    /\ At(t, "write")
    /\ users' = IF ~Unique(t) THEN users
                ELSE CASE th[t].op = "signup_email" ->
                            Append(users, [email |-> th[t].id, phone |-> None])
                       [] th[t].op = "signup_phone" ->
                            Append(users, [email |-> None, phone |-> th[t].id])
                       [] th[t].op = "link_phone" ->
                            [users EXCEPT ![th[t].user].phone = th[t].id]
    /\ Done(t)
    /\ UNCHANGED <<codes, recent>>

SignupEmail(t, email) ==
    /\ Registered(email) = {}
    /\ Begin(t, "signup_email", email, 0, "write", {})
    /\ UNCHANGED <<users, codes, recent>>

(* login_email: an account and its password, or a failure to record. *)
LoginEmail(t, email) ==
    /\ Within(FailureLogs(email))
    /\ Begin(t, "login_email", email, 0, "password", FailureLogs(email))
    /\ UNCHANGED <<users, codes, recent>>

CheckPassword(t) ==
    /\ At(t, "password")
    /\ \/ Goto(t, "record")
       \/ Registered(th[t].id) # {} /\ Done(t)
    /\ UNCHANGED <<users, codes, recent>>

(* record_login_attempt, of a failure; successes are not counted. *)
RecordFailure(t) ==
    /\ At(t, "record")
    /\ Insert(th[t].logs)
    /\ Done(t)
    /\ UNCHANGED <<users, codes>>

(* enforce_call_limit. *)
BeginCall(t, e) ==
    /\ Within({<<"call", e>>})
    /\ Begin(t, "call", e, 0, "log", {<<"call", e>>})
    /\ UNCHANGED <<users, codes, recent>>

LogCall(t) ==
    /\ At(t, "log")
    /\ Insert(th[t].logs)
    /\ Done(t)
    /\ UNCHANGED <<users, codes>>

(* Five minutes pass: the oldest code expires. *)
CodeExpires(k) ==
    /\ k \in DOMAIN codes
    /\ ~codes[k].expired
    /\ \A j \in 1 .. k - 1 : codes[j].expired
    /\ codes' = [codes EXCEPT ![k].expired = TRUE]
    /\ UNCHANGED <<users, recent, th>>

(* A row leaves its window; a code is long expired by then. *)
Forget(l) ==
    /\ recent[l] > 0
    /\ l # Address
    /\ l[1] = "otp" =>
           recent[l] > Cardinality({k \in DOMAIN codes :
                                      codes[k].phone = l[2] /\ ~codes[k].expired})
    /\ recent' = [m \in Logs |->
           IF m = l \/ (m = Address /\ l[1] = "login") THEN recent[m] - 1
           ELSE recent[m]]
    /\ UNCHANGED <<users, codes, th>>

-----------------------------------------------------------------------------
Serve(t) ==
    \/ IssueCode(t) \/ NoCode(t) \/ Refuse(t)
    \/ \E right \in BOOLEAN : Guess(t, right)
    \/ CountMiss(t) \/ Consume(t) \/ FindAccount(t)
    \/ Len(users) < MaxAccounts /\ WriteAccount(t)
    \/ CheckPassword(t) \/ RecordFailure(t) \/ LogCall(t)

PhoneOp(t, op, phone, user) ==
    StartCode(t, op, phone, user) \/ BeginVerify(t, op, phone, user)

Request(t) ==
    \/ \E p \in Phones, op \in {"signup_phone", "login_phone"} : PhoneOp(t, op, p, 0)
    \/ \E p \in Phones, u \in DOMAIN users : PhoneOp(t, "link_phone", p, u)
    \/ \E e \in Emails : SignupEmail(t, e) \/ LoginEmail(t, e)
    \/ \E e \in Endpoints : BeginCall(t, e)

Next ==
    \/ \E t \in Threads : Serve(t) \/ Request(t)
    \/ \E k \in 1..MaxCodes : CodeExpires(k)
    \/ \E l \in Logs : Forget(l)

Spec == Init /\ [][Next]_vars

-----------------------------------------------------------------------------
UserType == [email : Emails \cup {None}, phone : Phones \cup {None}]
CodeType == [phone : Phones, attempts : 0..AttemptLimit, wrong : Nat,
             consumed : BOOLEAN, expired : BOOLEAN]
ThreadType ==
    [at : {"issue", "verify", "miss", "consume", "account", "write", "password",
           "record", "log"},
     op : Ops, id : Identifiers \cup Endpoints, user : Nat, code : Nat,
     seen : 0..AttemptLimit - 1, logs : SUBSET Logs]

(* The type invariant; the counter of a code stays within its limit though  *)
(* requests write it back from what they read.                              *)
TypeOK ==
    /\ users \in Seq(UserType)
    /\ codes \in Seq(CodeType)
    /\ recent \in [Logs -> Nat]
    /\ th \in [Threads -> {Idle} \cup ThreadType]

(* The limits hold up to the requests that overlap: a window never has more *)
(* rows than the limit and one for every other thread, since each counts    *)
(* before it inserts (rate_limit.py:34-105).                                *)
LimitsHold ==
    \A l \in Logs : recent[l] <= Limit(l) + Cardinality(Threads) - 1

(* Nobody is locked out for guesses never made: a code's counter does not   *)
(* exceed the wrong guesses at it, though updates of it may be lost.        *)
AttemptsWereMade ==
    \A k \in DOMAIN codes : codes[k].attempts <= codes[k].wrong

(* No two accounts share an email or a phone, whichever handlers looked for *)
(* one at once and found none.                                              *)
OneAccountEach ==
    \A u, v \in DOMAIN users : u # v =>
        /\ users[u].email = users[v].email => users[u].email = None
        /\ users[u].phone = users[v].phone => users[u].phone = None

(* An account has a phone only if a code sent to it was redeemed: each      *)
(* handler that writes one consumed a code in an earlier transaction.       *)
PhoneWasProved ==
    \A u \in DOMAIN users : users[u].phone # None =>
        \E k \in DOMAIN codes : codes[k].phone = users[u].phone /\ codes[k].consumed
=============================================================================
