------------------------------ MODULE EventStream ------------------------------
(***************************************************************************)
(* How the events of one case reach its pages: the durable log (app/db.py, *)
(* append_event and get_events), the in-memory bus (app/core/events.py),   *)
(* the threads that append and publish (app/jobs.py) and the generator     *)
(* behind GET /api/cases/{id}/events (app/main.py).                        *)
(*                                                                         *)
(* Appending and publishing are two steps of a thread, and publishing puts *)
(* the event in one subscriber's queue after another.  A stream subscribes,*)
(* replays the log from the page's cursor, looks whether an agents' job is *)
(* alive, and only then reads its queue.  An event is identified by its    *)
(* position in the log, which is what its seq number orders.               *)
(***************************************************************************)
EXTENDS Naturals, Sequences

CONSTANTS
    Agents,     \* the job of the case that holds the claim in jobs._running
    Others,     \* the other threads that append events to the case's log
    Quiet,      \* those of Others that append only while no page watches
    Pages,      \* the browser pages that watch the case
    None,       \* no seq
    MaxSteps,   \* bound: no thread begins, or goes on, beyond this log length
    MaxTokens,  \* bound on the live tokens of one run
    MaxWire     \* bound on the frames sent to a page and not yet received

ASSUME NoneAssumption == None \notin Nat

ASSUME QuietAssumption == Quiet \subseteq Others

ASSUME BoundAssumption ==
    MaxSteps \in Nat /\ MaxTokens \in Nat /\ MaxWire \in Nat \ {0}

VARIABLES
    log,      \* the types of the case's events, in the order of their seq
    running,  \* whether jobs._running holds the case
    thread,   \* what each appending thread is doing
    subs,     \* the pages whose queues the bus has
    inbox,    \* the bus queue of each page's stream
    stream,   \* the generator serving each page
    wire,     \* frames sent and not yet received
    page      \* what each page has shown since it was loaded, and its cursor

vars == <<log, running, thread, subs, inbox, stream, wire, page>>

-----------------------------------------------------------------------------
(* The data. *)

Threads == Agents \cup Others

(* "stop" stands for awaiting_decision, resolved and escalated_terminal.  *)
Type == {"step", "stop", "error"}

Terminal == {"stop", "error"}

(* What is published: the event's position in the log (0 for a token, which
   has none), the seq it carries, and its type.                             *)
Event == [pos : Nat, seq : Nat \cup {None}, type : Type \cup {"token"}]

ThreadState ==
    [pc : {"idle", "work", "publish", "put", "done"}, ev : Event \cup {None},
     targets : SUBSET Pages, tokens : 0 .. MaxTokens]

StreamState ==
    [pc : {"closed", "fetch", "replay", "live", "ended"}, delivered : Nat,
     upto : Nat]

TypeOK ==
    /\ log \in Seq(Type)
    /\ running \in BOOLEAN
    /\ thread \in [Threads -> ThreadState]
    /\ subs \subseteq Pages
    /\ inbox \in [Pages -> Seq(Event)]
    /\ stream \in [Pages -> StreamState]
    /\ wire \in [Pages -> Seq(Event)]
    /\ page \in [Pages -> [shown : Seq(Nat), cursor : Nat]]

Idle == [pc |-> "idle", ev |-> None, targets |-> {}, tokens |-> 0]

Closed == [pc |-> "closed", delivered |-> 0, upto |-> 0]

FreshPage == [shown |-> <<>>, cursor |-> 0]

Init ==
    /\ log = <<>>
    /\ running = FALSE
    /\ thread = [t \in Threads |-> Idle]
    /\ subs = {}
    /\ inbox = [p \in Pages |-> <<>>]
    /\ stream = [p \in Pages |-> Closed]
    /\ wire = [p \in Pages |-> <<>>]
    /\ page = [p \in Pages |-> FreshPage]

-----------------------------------------------------------------------------
(* The threads that append and publish. *)

(* A case's job starts: start_pipeline and start_resolution claim the case,
   an extraction or a discrepancy check claims something else.              *)
Start(t) ==
    /\ thread[t].pc = "idle"
    /\ Len(log) < MaxSteps
    /\ t \notin Quiet
    /\ t \in Agents => ~running
    /\ running' = (running \/ t \in Agents)
    /\ thread' = [thread EXCEPT ![t] = [Idle EXCEPT !.pc = "work"]]
    /\ UNCHANGED <<log, subs, inbox, stream, wire, page>>

(* Thread t appends an event of this type and goes on to publish it, with
   its seq or, in the exception handlers, without.                          *)
AppendEvent(t, type, stamped) ==
    LET pos == Len(log) + 1
    IN /\ log' = Append(log, type)
       /\ thread' = [thread EXCEPT ![t].pc = "publish",
              ![t].ev = [pos |-> pos, seq |-> IF stamped THEN pos ELSE None,
                         type |-> type]]
       /\ UNCHANGED <<running, subs, inbox, stream, wire, page>>

Step(t) ==
    /\ thread[t].pc = "work"
    /\ Len(log) < MaxSteps
    /\ AppendEvent(t, "step", TRUE)

(* The graph ends at the mediation pause, an order or an escalation. *)
Stop(t) ==
    /\ t \in Agents
    /\ thread[t].pc = "work"
    /\ AppendEvent(t, "stop", TRUE)

(* The exception handlers; for the agents also after the terminal event,
   when the callback that records it raises.                                *)
Fail(t) ==
    /\ \/ thread[t].pc = "work"
       \/ thread[t].pc = "done" /\ thread[t].ev.type # "error"
    /\ AppendEvent(t, "error", FALSE)

(* A token is published and never appended, and no run begins with one. *)
Token(t) ==
    /\ t \in Agents
    /\ thread[t].pc = "work"
    /\ thread[t].ev # None
    /\ thread[t].tokens < MaxTokens
    /\ thread' = [thread EXCEPT ![t].pc = "publish", ![t].tokens = @ + 1,
                      ![t].ev = [pos |-> 0, seq |-> None, type |-> "token"]]
    /\ UNCHANGED <<log, running, subs, inbox, stream, wire, page>>

(* An append without a publish: submit_case, of a case no page watches yet,
   and reset_stuck_cases.py, of which the server knows nothing.             *)
Note(t) ==
    /\ t \in Others
    /\ t \in Quiet => subs = {}
    /\ thread[t].pc = "idle"
    /\ Len(log) < MaxSteps
    /\ log' = Append(log, "step")
    /\ UNCHANGED <<running, thread, subs, inbox, stream, wire, page>>

(* EventBus.publish copies the list of queues ... *)
PublishTo(t) ==
    /\ thread[t].pc = "publish"
    /\ thread' = [thread EXCEPT ![t].pc = "put", ![t].targets = subs]
    /\ UNCHANGED <<log, running, subs, inbox, stream, wire, page>>

(* ... and then puts the event in each. *)
Put(t, p) ==
    /\ thread[t].pc = "put"
    /\ p \in thread[t].targets
    /\ inbox' = [inbox EXCEPT ![p] = Append(@, thread[t].ev)]
    /\ thread' = [thread EXCEPT ![t].targets = @ \ {p}]
    /\ UNCHANGED <<log, running, subs, stream, wire, page>>

(* The event is with every subscriber: on to the next one, or to the end. *)
Published(t) ==
    /\ thread[t].pc = "put"
    /\ thread[t].targets = {}
    /\ thread' = [thread EXCEPT ![t].pc =
                     IF thread[t].ev.type \in Terminal THEN "done" ELSE "work"]
    /\ UNCHANGED <<log, running, subs, inbox, stream, wire, page>>

(* The finally clause.  A thread other than the agents' ends after any event;
   the agents' own ends early only when its exception handler raises too.   *)
Finish(t) ==
    /\ thread[t].pc \in {"work", "done"}
    /\ thread' = [thread EXCEPT ![t] = Idle]
    /\ running' = (running /\ t \notin Agents)
    /\ UNCHANGED <<log, subs, inbox, stream, wire, page>>

-----------------------------------------------------------------------------
(* The generator of main.events, serving page p. *)

(* The stream's queue leaves the bus, and what is still put in it is lost. *)
Unsubscribe(p) ==
    /\ subs' = subs \ {p}
    /\ inbox' = [inbox EXCEPT ![p] = <<>>]
    /\ thread' = [t \in Threads |-> [thread[t] EXCEPT !.targets = @ \ {p}]]

(* Mutant of Open: the cursor is taken for the first event still wanted. *)
OpenPast(p) ==
    /\ stream[p].pc = "closed"
    /\ subs' = subs \cup {p}
    /\ stream' = [stream EXCEPT
           ![p] = [pc |-> "fetch", delivered |-> page[p].cursor + 1, upto |-> 0]]
    /\ UNCHANGED <<log, running, thread, inbox, wire, page>>

(* The page asks for the events after its cursor: bus.subscribe comes first. *)
Open(p) ==
    /\ stream[p].pc = "closed"
    /\ subs' = subs \cup {p}
    /\ stream' = [stream EXCEPT
           ![p] = [pc |-> "fetch", delivered |-> page[p].cursor, upto |-> 0]]
    /\ UNCHANGED <<log, running, thread, inbox, wire, page>>

(* db.get_events, in one query. *)
Fetch(p) ==
    /\ stream[p].pc = "fetch"
    /\ stream' = [stream EXCEPT ![p].pc = "replay", ![p].upto = Len(log)]
    /\ UNCHANGED <<log, running, thread, subs, inbox, wire, page>>

Send(p, ev) ==
    /\ Len(wire[p]) < MaxWire
    /\ wire' = [wire EXCEPT ![p] = Append(@, ev)]

ReplayRow(p) ==
    /\ stream[p].pc = "replay"
    /\ stream[p].delivered < stream[p].upto
    /\ LET pos == stream[p].delivered + 1
       IN /\ Send(p, [pos |-> pos, seq |-> pos, type |-> log[pos]])
          /\ stream' = [stream EXCEPT ![p].delivered = pos]
    /\ UNCHANGED <<log, running, thread, subs, inbox, page>>

(* Mutant of CheckRunning: the stream gets its queue only to go live. *)
CheckRunningLate(p) ==
    /\ stream[p].pc = "replay"
    /\ stream[p].delivered >= stream[p].upto
    /\ stream' = [stream EXCEPT ![p].pc = IF running THEN "live" ELSE "ended"]
    /\ IF running
       THEN inbox' = [inbox EXCEPT ![p] = <<>>] /\ UNCHANGED <<thread, subs>>
       ELSE Unsubscribe(p)
    /\ UNCHANGED <<log, running, wire, page>>

(* Without a job the stream ends, otherwise it goes live. *)
CheckRunning(p) ==
    /\ stream[p].pc = "replay"
    /\ stream[p].delivered >= stream[p].upto
    /\ IF running
       THEN /\ stream' = [stream EXCEPT ![p].pc = "live"]
            /\ UNCHANGED <<thread, subs, inbox>>
       ELSE /\ stream' = [stream EXCEPT ![p].pc = "ended"]
            /\ Unsubscribe(p)
    /\ UNCHANGED <<log, running, wire, page>>

(* Mutant of Live: nothing of the queue is skipped. *)
LiveUnskipped(p) ==
    /\ stream[p].pc = "live"
    /\ inbox[p] # <<>>
    /\ LET ev == Head(inbox[p])
           last == ev.type \in Terminal
       IN /\ Send(p, ev)
          /\ stream' = [stream EXCEPT
                 ![p].delivered = IF ev.seq = None THEN @ ELSE ev.seq,
                 ![p].pc = IF last THEN "ended" ELSE "live"]
          /\ IF last
             THEN Unsubscribe(p)
             ELSE /\ inbox' = [inbox EXCEPT ![p] = Tail(@)]
                  /\ UNCHANGED <<thread, subs>>
    /\ UNCHANGED <<log, running, page>>

(* What the generator has delivered already is skipped; a terminal event,
   skipped or not, ends stream_from_queue and with it the stream.           *)
Live(p) ==
    /\ stream[p].pc = "live"
    /\ inbox[p] # <<>>
    /\ LET ev == Head(inbox[p])
           known == ev.seq # None /\ ev.seq <= stream[p].delivered
           last == ev.type \in Terminal
       IN /\ IF known THEN UNCHANGED wire ELSE Send(p, ev)
          /\ stream' = [stream EXCEPT
                 ![p].delivered = IF known \/ ev.seq = None THEN @ ELSE ev.seq,
                 ![p].pc = IF last THEN "ended" ELSE "live"]
          /\ IF last
             THEN Unsubscribe(p)
             ELSE /\ inbox' = [inbox EXCEPT ![p] = Tail(@)]
                  /\ UNCHANGED <<thread, subs>>
    /\ UNCHANGED <<log, running, page>>

(* Mutant of IdleTimeout: a heartbeat starts the 120 seconds anew. *)
IdleTimeoutRefreshed(p) ==
    /\ stream[p].pc = "live"
    /\ inbox[p] = <<>>
    /\ UNCHANGED vars

(* stream_from_queue gives up on a queue that stays empty for 120 seconds. *)
IdleTimeout(p) ==
    /\ stream[p].pc = "live"
    /\ inbox[p] = <<>>
    /\ stream' = [stream EXCEPT ![p].pc = "ended"]
    /\ Unsubscribe(p)
    /\ UNCHANGED <<log, running, wire, page>>

-----------------------------------------------------------------------------
(* The page. *)

(* Mutant of Receive: the cursor follows events that have no seq. *)
ReceiveUnguarded(p) ==
    /\ wire[p] # <<>>
    /\ LET ev == Head(wire[p])
       IN page' = [page EXCEPT
              ![p].shown = IF ev.pos = 0 THEN @ ELSE Append(@, ev.pos),
              ![p].cursor = ev.seq]
    /\ wire' = [wire EXCEPT ![p] = Tail(@)]
    /\ UNCHANGED <<log, running, thread, subs, inbox, stream>>

Receive(p) ==
    /\ wire[p] # <<>>
    /\ LET ev == Head(wire[p])
       IN page' = [page EXCEPT
              ![p].shown = IF ev.pos = 0 THEN @ ELSE Append(@, ev.pos),
              ![p].cursor = IF ev.seq # None /\ ev.seq > @ THEN ev.seq ELSE @]
    /\ wire' = [wire EXCEPT ![p] = Tail(@)]
    /\ UNCHANGED <<log, running, thread, subs, inbox, stream>>

(* The page aborts the stream, or the connection breaks: frames on their way
   are lost, and the generator's finally clause unsubscribes.               *)
Close(p) ==
    /\ stream[p].pc # "closed"
    /\ stream' = [stream EXCEPT ![p] = Closed]
    /\ wire' = [wire EXCEPT ![p] = <<>>]
    /\ Unsubscribe(p)
    /\ UNCHANGED <<log, running, page>>

(* A refresh starts again from an empty page. *)
Reload(p) ==
    /\ stream[p].pc = "closed"
    /\ page[p] # FreshPage
    /\ page' = [page EXCEPT ![p] = FreshPage]
    /\ UNCHANGED <<log, running, thread, subs, inbox, stream, wire>>

-----------------------------------------------------------------------------
(* The process restarts: the log and the pages survive, with their cursors. *)
Crash ==
    /\ running' = FALSE
    /\ thread' = [t \in Threads |-> Idle]
    /\ subs' = {}
    /\ inbox' = [p \in Pages |-> <<>>]
    /\ stream' = [p \in Pages |-> Closed]
    /\ wire' = [p \in Pages |-> <<>>]
    /\ UNCHANGED <<log, page>>

-----------------------------------------------------------------------------
Work(t) ==
    \/ Step(t)
    \/ Stop(t)
    \/ Token(t)
    \/ PublishTo(t)
    \/ \E p \in Pages : Put(t, p)
    \/ Published(t)
    \/ Finish(t)

Serve(p) ==
    \/ Fetch(p)
    \/ ReplayRow(p)
    \/ CheckRunning(p)
    \/ Live(p)
    \/ IdleTimeout(p)

Visit(p) == Open(p) \/ Close(p) \/ Reload(p)

Next ==
    \/ \E t \in Threads : Start(t) \/ Work(t) \/ Fail(t) \/ Note(t)
    \/ \E p \in Pages : Serve(p) \/ Receive(p) \/ Visit(p)
    \/ Crash

Spec == Init /\ [][Next]_vars

(* A job goes on, the server sends what it can, a page takes what it gets.
   Nobody has to start a job, visit a page or leave it.                     *)
Fairness ==
    /\ \A t \in Threads : WF_vars(Work(t))
    /\ \A p \in Pages : WF_vars(Serve(p)) /\ WF_vars(Receive(p))
-----------------------------------------------------------------------------
(* Properties. *)

(* A page sees the case advance in the order of the log and never sees a step
   twice, however streams are cut, reopened and overlap with what the threads
   have in flight.  Only an error may come again: it is published without its
   seq.                                                                     *)
ShownInOrder ==
    \A p \in Pages :
        LET shown == page[p].shown
        IN \A i, j \in DOMAIN shown :
               i < j /\ log[shown[i]] # "error" /\ log[shown[j]] # "error"
                   => shown[i] < shown[j]

(* What a page asks for again, "after" its cursor, is all it has not seen:
   nothing up to the cursor is missing from the page.                       *)
CursorIsComplete ==
    \A p \in Pages : \A n \in 1 .. page[p].cursor :
        \E i \in DOMAIN page[p].shown : page[p].shown[i] = n

(* A stream never hangs: it reaches a terminal event, runs idle or is cut. *)
StreamEnds ==
    \A p \in Pages :
        stream[p].pc \in {"fetch", "replay", "live"}
            ~> stream[p].pc \in {"ended", "closed"}

(* The abstract promise: each page replays the log entry by entry. *)
Replay == INSTANCE LogReplay WITH cursor <- [p \in Pages |-> page[p].cursor]

ImplementsLogReplay == Replay!Spec
=============================================================================
