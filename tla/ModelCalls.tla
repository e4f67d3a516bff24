------------------------------ MODULE ModelCalls ------------------------------
(***************************************************************************)
(* The calls of language services: text and streams from the chat provider *)
(* (app/llm/client.py, factory.py, providers/), translation and language   *)
(* detection (app/language/translator.py, detector.py), speech (tts.py),   *)
(* and the circuit breakers in front of them (app/core/circuit_breaker.py).*)
(*                                                                         *)
(* A thread makes one call at a time.  A service that is down fails every  *)
(* request; one that is odd answers 200 with a body that cannot be read.   *)
(* Time passes in ticks; a breaker counts down the ticks it stays open.    *)
(***************************************************************************)
EXTENDS Naturals, FiniteSets

CONSTANTS
    Threads,
    Kinds,          \* subset of {"text", "stream", "translate", "detect", "speech"}
    Setting,        \* DIGINYAYA_LLM_PROVIDER
    Threshold,      \* failure_threshold
    Cooldown,       \* cooldown_seconds, in ticks
    Attempts,       \* retry_attempts + 1
    None

BoundsAssumption ==
    /\ Threshold \in Nat \ {0} /\ Cooldown \in Nat \ {0} /\ Attempts \in Nat \ {0}
ThreadsAssumption == IsFiniteSet(Threads)
SettingAssumption == Setting \in {"auto", "sarvam", "ollama", "mock"}
NoneAssumption == None \notin {"sarvam", "ollama", "mock"}

VARIABLES
    breaker,   \* of each breaker, the failures it counts and the ticks it stays open
    service,   \* what each service does to a request
    provider,  \* _provider, the chat provider of the process
    call,      \* what each thread is at
    late       \* history: failures since the breaker opened or last succeeded

vars == <<breaker, service, provider, call, late>>

Chat == {"text", "stream"}
BreakerOf(kind) == IF kind \in Chat THEN "llm" ELSE kind
Breakers == {BreakerOf(kind) : kind \in Kinds}
Services == {"sarvam", "ollama"}

Idle == [at |-> "idle"]
At(t, at) == call[t].at = at
Goto(t, at) == call' = [call EXCEPT ![t].at = at]
Return(t) == call' = [call EXCEPT ![t] = Idle]

Calling(b) == {t \in Threads : ~At(t, "idle") /\ BreakerOf(call[t].kind) = b}

Closed == [failures |-> 0, left |-> 0]

Init ==
    /\ breaker = [b \in Breakers |-> Closed]
    /\ service \in [Services -> {"up", "down"}]
    /\ provider = None
    /\ call = [t \in Threads |-> Idle]
    /\ late = [b \in Breakers |-> 0]

-----------------------------------------------------------------------------
(* The breaker; each method runs under its lock. *)

Allows(b) == breaker[b].left = 0

Succeed(b) ==
    /\ breaker' = [breaker EXCEPT ![b] = Closed]
    /\ late' = [late EXCEPT ![b] = 0]

(* Mutant of Reopens: the breaker opens when the counter gets to the        *)
(* threshold, and not when it is there.                                     *)
ReopensOnce(b, failures) ==
    failures >= Threshold /\ breaker[b].failures < Threshold /\ breaker[b].left = 0

Reopens(b, failures) == failures >= Threshold /\ breaker[b].left = 0

(* The counter goes on beyond the threshold; all that is asked of it is     *)
(* whether it reached it.                                                   *)
Counted(b) ==
    IF breaker[b].failures = Threshold THEN Threshold ELSE breaker[b].failures + 1

(* Calls that were under way when the breaker opened, a tick ago or longer. *)
Overtaken(b) == [t \in Threads |->
    IF t \in Calling(b) THEN [call[t] EXCEPT !.stale = TRUE] ELSE call[t]]

Fail(t, b) ==
    LET failures == Counted(b)
        opens == Reopens(b, failures) IN
    /\ breaker' = [breaker EXCEPT ![b] =
           [failures |-> failures, left |-> IF opens THEN Cooldown ELSE @.left]]
    /\ late' = [late EXCEPT ![b] = IF opens THEN 0 ELSE @ + 1]
    /\ call' = [(IF opens THEN Overtaken(b) ELSE call) EXCEPT ![t] = Idle]

-----------------------------------------------------------------------------
(* A call while the breaker is open returns nothing at once. *)
Admit(t, kind) ==
    /\ At(t, "idle")
    /\ Allows(BreakerOf(kind))
    /\ call' = [call EXCEPT ![t] =
           [at |-> IF kind \in Chat THEN "provider" ELSE "post", kind |-> kind,
            tries |-> 1, stale |-> FALSE]]
    /\ UNCHANGED <<breaker, service, provider, late>>

(* get_provider: created by the first call that needs it, without a lock. *)
GetProvider(t) ==
    /\ At(t, "provider")
    /\ Goto(t, IF provider = None THEN "create" ELSE "post")
    /\ UNCHANGED <<breaker, service, provider, late>>

Reachable == {s \in Services : service[s] # "down"}

(* LLMFactory.create: the configured one, which must be reachable; or the   *)
(* first that is, for as long as the process lives.                         *)
CreateProvider(t) ==
    /\ At(t, "create")
    /\ \/ /\ Setting \in Services \ Reachable
          /\ Goto(t, "failed")
          /\ UNCHANGED provider
       \/ /\ Setting \notin Services \ Reachable
          /\ provider' = IF Setting # "auto" THEN Setting
                         ELSE IF "sarvam" \in Reachable THEN "sarvam"
                         ELSE IF "ollama" \in Reachable THEN "ollama"
                         ELSE "mock"
          /\ Goto(t, "post")
    /\ UNCHANGED <<breaker, service, late>>

(* What answers the call; the mock answers at once, with nothing. *)
Answers(t) ==
    LET s == IF call[t].kind \in Chat THEN provider ELSE "sarvam" IN
    IF s \in Services THEN service[s] ELSE "up"

(* An answer: a text, or one without the field that was asked for. *)
Answer(t) ==
    /\ At(t, "post")
    /\ Answers(t) = "up"
    /\ Succeed(BreakerOf(call[t].kind))
    /\ Return(t)
    /\ UNCHANGED <<service, provider>>

(* generate_json makes nothing of a body it cannot read, and so does the    *)
(* stream of Sarvam; generate, speech and the stream of Ollama raise.       *)
OddAnswer(t) ==
    /\ At(t, "post")
    /\ Answers(t) = "odd"
    /\ call[t].kind \in Chat \cup {"speech"}
    /\ \/ /\ call[t].kind \in Chat
          /\ Succeed(BreakerOf(call[t].kind))
          /\ Return(t)
       \/ /\ call[t].kind = "stream" => provider = "ollama"
          /\ Goto(t, "failed")
          /\ UNCHANGED <<breaker, late>>
    /\ UNCHANGED <<service, provider>>

Retries(t) == call[t].kind \in {"translate", "detect"} /\ call[t].tries < Attempts
Again(t) ==
    IF Retries(t) THEN call' = [call EXCEPT ![t].tries = @ + 1]
    ELSE Goto(t, "failed")

(* The translator and the detector record the success of a request before   *)
(* they read its body, and try again when they cannot.                      *)
OddTranslation(t) ==
    /\ At(t, "post")
    /\ Answers(t) = "odd"
    /\ call[t].kind \in {"translate", "detect"}
    /\ Succeed(BreakerOf(call[t].kind))
    /\ Again(t)
    /\ UNCHANGED <<service, provider>>

NoAnswer(t) ==
    /\ At(t, "post")
    /\ Answers(t) = "down"
    /\ Again(t)
    /\ UNCHANGED <<breaker, service, provider, late>>

RecordFailure(t) ==
    /\ At(t, "failed")
    /\ Fail(t, BreakerOf(call[t].kind))
    /\ UNCHANGED <<service, provider>>

(* A stream whose reader stops is closed, and records nothing. *)
Abandon(t) ==
    /\ At(t, "post")
    /\ call[t].kind = "stream"
    /\ Return(t)
    /\ UNCHANGED <<breaker, service, provider, late>>

-----------------------------------------------------------------------------
Tick ==
    /\ \E b \in Breakers : breaker[b].left > 0
    /\ breaker' = [b \in Breakers |->
           [breaker[b] EXCEPT !.left = IF @ > 0 THEN @ - 1 ELSE 0]]
    /\ UNCHANGED <<service, provider, call, late>>

Change(s) ==
    /\ \E state \in {"up", "odd", "down"} \ {service[s]} :
           service' = [service EXCEPT ![s] = state]
    /\ UNCHANGED <<breaker, provider, call, late>>

Serve(t) ==
    \/ GetProvider(t) \/ CreateProvider(t)
    \/ Answer(t) \/ OddAnswer(t) \/ OddTranslation(t) \/ NoAnswer(t)
    \/ RecordFailure(t)

Next ==
    \/ \E t \in Threads : Serve(t) \/ Abandon(t)
    \/ \E t \in Threads, kind \in Kinds : Admit(t, kind)
    \/ Tick
    \/ \E s \in Services : Change(s)

Spec == Init /\ [][Next]_vars

-----------------------------------------------------------------------------
CallType == [at : {"provider", "create", "post", "failed"}, kind : Kinds,
             tries : 1 .. Attempts, stale : BOOLEAN]

(* The type invariant; once created, the provider is there to stay. *)
TypeOK ==
    /\ breaker \in [Breakers -> [failures : 0 .. Threshold, left : 0 .. Cooldown]]
    /\ service \in [Services -> {"up", "odd", "down"}]
    /\ provider \in Services \cup {"mock", None}
    /\ call \in [Threads -> {Idle} \cup CallType]
    /\ late \in [Breakers -> Nat]
    /\ \A t \in Threads : At(t, "post") /\ call[t].kind \in Chat => provider # None

Larger(m, n) == IF m > n THEN m ELSE n

(* An outage costs few timeouts: between two openings of a breaker no more  *)
(* calls fail than the threshold lets, or than were under way when it       *)
(* opened, however often its cooldown ends while the outage lasts.          *)
OutageIsCheap ==
    \A b \in Breakers : late[b] <= Larger(Threshold, Cardinality(Threads)) - 1

(* An open breaker closes before its cooldown is over only through a request *)
(* of a call it admitted before it opened.                                   *)
ClosesOnTimeOrByStale ==
    \A b \in Breakers :
        breaker'[b].left + 1 < breaker[b].left =>
            \E t \in Calling(b) : call[t].stale /\ call'[t] # call[t]

EarlyCloseIsStale == [][ClosesOnTimeOrByStale]_vars
=============================================================================
