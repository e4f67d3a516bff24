-------------------------- MODULE EventStream_proofs --------------------------
(* Theorems about EventStream, for every value of its constants. *)
EXTENDS EventStream, SequenceTheorems, TLAPS

-----------------------------------------------------------------------------
(* Sequences by their positions. *)

LEMMA AppendFacts ==
    ASSUME NEW S, NEW s \in Seq(S), NEW e \in S
    PROVE  /\ Append(s, e) \in Seq(S)
           /\ Len(s) \in Nat
           /\ Len(Append(s, e)) = Len(s) + 1
           /\ \A i \in 1 .. Len(s) : Append(s, e)[i] = s[i]
           /\ Append(s, e)[Len(s) + 1] = e
BY AppendProperties, LenProperties

LEMMA TailFacts ==
    ASSUME NEW S, NEW s \in Seq(S), s # <<>>
    PROVE  /\ Tail(s) \in Seq(S)
           /\ Len(s) \in Nat \ {0}
           /\ Head(s) = s[1] /\ s[1] \in S
           /\ Len(Tail(s)) = Len(s) - 1
           /\ \A i \in 1 .. Len(s) - 1 : Tail(s)[i] = s[i + 1]
<1>1. Len(s) \in Nat \ {0}
  BY EmptySeq, LenProperties
<1>2. s[1] \in S
  BY <1>1, ElementOfSeq
<1> QED BY <1>1, <1>2, HeadTailProperties

-----------------------------------------------------------------------------
(* What an event on its way through the bus or to a page says of the log l:  *)
(* its position is in it, with its type, and only an error lacks its seq.    *)
EventOK(ev, l) ==
    /\ ev \in Event
    /\ \/ /\ ev.pos \in 1 .. Len(l)
          /\ ev.type = l[ev.pos]
          /\ \/ ev.seq = ev.pos
             \/ ev.seq = None /\ ev.type = "error"
       \/ ev.pos = 0 /\ ev.seq = None /\ ev.type = "token"

ThreadOK(t) == thread[t].pc \in {"publish", "put"} => EventOK(thread[t].ev, log)

PlaceOK(p) ==
    /\ \A i \in 1 .. Len(inbox[p]) : EventOK(inbox[p][i], log)
    /\ \A i \in 1 .. Len(wire[p]) : EventOK(wire[p][i], log)
    /\ stream[p].upto <= Len(log) /\ stream[p].delivered <= Len(log)
    /\ stream[p].pc = "closed" => wire[p] = <<>>
    /\ page[p].cursor <= Len(log)
    /\ \A i \in 1 .. Len(page[p].shown) : page[p].shown[i] \in 1 .. Len(log)

TypeInv ==
    /\ TypeOK
    /\ \A t \in Threads : ThreadOK(t)
    /\ \A p \in Pages : PlaceOK(p)

(* The log only grows. *)
LogGrows ==
    /\ log \in Seq(Type) /\ log' \in Seq(Type)
    /\ Len(log) \in Nat /\ Len(log') \in Nat /\ Len(log) <= Len(log')
    /\ \A n \in 1 .. Len(log) : log'[n] = log[n]

LEMMA EventStays ==
    ASSUME LogGrows, NEW ev, EventOK(ev, log)
    PROVE  EventOK(ev, log')
BY DEF LogGrows, EventOK

LEMMA LogAppended ==
    ASSUME TypeOK, NEW type \in Type, log' = Append(log, type)
    PROVE  /\ LogGrows
           /\ Len(log') = Len(log) + 1
           /\ log'[Len(log) + 1] = type
<1>1. log \in Seq(Type)
  BY DEF TypeOK
<1> QED BY <1>1, AppendFacts DEF LogGrows

LEMMA LogKept ==
    ASSUME TypeOK, UNCHANGED log
    PROVE  LogGrows
BY LenProperties DEF TypeOK, LogGrows

(* What a page's places hold stays as it should be while the log grows. *)
LEMMA PlaceStays ==
    ASSUME TypeInv, LogGrows, NEW p \in Pages,
           UNCHANGED <<inbox[p], wire[p], stream[p], page[p]>>
    PROVE  PlaceOK(p)'
<1>1. PlaceOK(p)
  BY DEF TypeInv
<1>2. stream[p].upto \in Nat /\ stream[p].delivered \in Nat /\ page[p].cursor \in Nat
  BY DEF TypeInv, TypeOK, StreamState
<1> QED BY <1>1, <1>2, EventStays, SMTT(60) DEF PlaceOK, LogGrows

LEMMA ThreadStays ==
    ASSUME TypeInv, LogGrows, NEW t \in Threads, thread'[t].ev = thread[t].ev,
           thread'[t].pc = thread[t].pc \/ thread'[t].pc \notin {"publish", "put"}
    PROVE  ThreadOK(t)'
BY EventStays DEF TypeInv, ThreadOK

LEMMA InitTypeInv ==
    ASSUME Init
    PROVE  TypeInv
<1>1. /\ \A S : <<>> \in Seq(S)
      /\ Len(<<>>) = 0
  BY EmptySeq
<1>2. Idle \in ThreadState /\ Closed \in StreamState /\ FreshPage \in [shown : Seq(Nat), cursor : Nat]
  BY <1>1, BoundAssumption DEF Idle, ThreadState, Closed, StreamState, FreshPage
<1>3. TypeOK
  BY <1>1, <1>2 DEF Init, TypeOK
<1>4. \A t \in Threads : ThreadOK(t)
  BY DEF Init, ThreadOK, Idle
<1>5. \A p \in Pages : PlaceOK(p)
  BY <1>1 DEF Init, PlaceOK, Closed, FreshPage
<1> QED BY <1>3, <1>4, <1>5 DEF TypeInv

-----------------------------------------------------------------------------
(* The threads. *)

LEMMA AppendEventType ==
    ASSUME TypeInv, NEW t \in Threads, NEW type \in Type, NEW stamped \in BOOLEAN,
           stamped \/ type = "error", AppendEvent(t, type, stamped)
    PROVE  TypeInv' /\ LogGrows
<1> DEFINE pos == Len(log) + 1
           ev == [pos |-> pos, seq |-> IF stamped THEN pos ELSE None, type |-> type]
<1>1. LogGrows /\ Len(log') = pos /\ log'[pos] = type
  BY LogAppended DEF AppendEvent, TypeInv
<1>2. pos \in Nat \ {0}
  BY <1>1 DEF LogGrows
<1>3. ev \in Event /\ EventOK(ev, log')
  <2>1. ev.pos = pos /\ ev.type = type /\ ev.seq = IF stamped THEN pos ELSE None
    OBVIOUS
  <2>2. ev \in Event
    BY <1>2 DEF Event
  <2>3. pos \in 1 .. Len(log')
    BY <1>1, <1>2
  <2> HIDE DEF ev, pos
  <2>4. CASE stamped
    <3>1. ev.seq = pos
      BY <2>1, <2>4, Zenon
    <3> QED BY <1>1, <2>1, <2>2, <2>3, <3>1 DEF EventOK
  <2>5. CASE ~stamped
    BY <1>1, <2>1, <2>2, <2>3, <2>5 DEF EventOK
  <2> QED BY <2>4, <2>5
<1>4. thread' = [thread EXCEPT ![t].pc = "publish", ![t].ev = ev]
  BY DEF AppendEvent
<1> HIDE DEF ev
<1>5. thread' \in [Threads -> ThreadState] /\ thread'[t].ev = ev
  <2>1. thread \in [Threads -> ThreadState] /\ ev \in Event
    BY <1>3 DEF TypeInv, TypeOK
  <2>2. [thread[t] EXCEPT !.pc = "publish", !.ev = ev] \in ThreadState
    BY <2>1 DEF ThreadState
  <2>3. [thread[t] EXCEPT !.pc = "publish", !.ev = ev].ev = ev
    BY <2>1 DEF ThreadState
  <2> QED BY <1>4, <2>1, <2>2, <2>3
<1>6. TypeOK'
  BY <1>1, <1>5 DEF TypeInv, TypeOK, AppendEvent, LogGrows
<1>7. ASSUME NEW u \in Threads PROVE ThreadOK(u)'
  <2>1. CASE u = t
    BY <1>3, <1>5, <2>1 DEF ThreadOK
  <2>2. CASE u # t
    BY <1>1, <1>4, <2>2, ThreadStays DEF TypeInv, TypeOK
  <2> QED BY <2>1, <2>2
<1>8. \A p \in Pages : PlaceOK(p)'
  BY <1>1, PlaceStays DEF AppendEvent
<1> QED BY <1>1, <1>6, <1>7, <1>8 DEF TypeInv

LEMMA TokenType ==
    ASSUME TypeInv, NEW t \in Threads, Token(t)
    PROVE  TypeInv' /\ LogGrows
<1> DEFINE ev == [pos |-> 0, seq |-> None, type |-> "token"]
<1>1. LogGrows
  BY LogKept DEF Token, TypeInv
<1>2. ev \in Event /\ EventOK(ev, log')
  BY DEF EventOK, Event, Type
<1>3. /\ thread' = [thread EXCEPT ![t].pc = "publish", ![t].tokens = @ + 1, ![t].ev = ev]
      /\ thread[t].tokens + 1 \in 0 .. MaxTokens
  <2>1. thread[t].tokens \in 0 .. MaxTokens /\ thread[t].tokens < MaxTokens
    BY DEF Token, TypeInv, TypeOK, ThreadState
  <2> QED BY <2>1, BoundAssumption DEF Token
<1> HIDE DEF ev
<1>4. thread' \in [Threads -> ThreadState] /\ thread'[t].ev = ev
  <2> DEFINE new == [thread[t] EXCEPT !.pc = "publish", !.tokens = @ + 1, !.ev = ev]
  <2>1. thread \in [Threads -> ThreadState] /\ thread' = [thread EXCEPT ![t] = new]
    BY <1>3 DEF TypeInv, TypeOK
  <2>2. new \in ThreadState /\ new.ev = ev
    BY <1>2, <1>3, <2>1 DEF ThreadState
  <2> HIDE DEF new
  <2> QED BY <2>1, <2>2
<1>5. TypeOK'
  BY <1>4 DEF TypeInv, TypeOK, Token
<1>6. ASSUME NEW u \in Threads PROVE ThreadOK(u)'
  <2>1. CASE u = t
    BY <1>2, <1>4, <2>1 DEF ThreadOK
  <2>2. CASE u # t
    BY <1>1, <1>3, <2>2, ThreadStays DEF TypeInv, TypeOK
  <2> QED BY <2>1, <2>2
<1>7. \A p \in Pages : PlaceOK(p)'
  BY <1>1, PlaceStays DEF Token
<1> QED BY <1>1, <1>5, <1>6, <1>7 DEF TypeInv

(* Steps of a thread that leave the log and the places alone. *)
LEMMA ThreadOnlyType ==
    ASSUME TypeInv, NEW t \in Threads,
           Start(t) \/ PublishTo(t) \/ Published(t) \/ Finish(t)
    PROVE  TypeInv' /\ LogGrows
<1>1. LogGrows
  BY LogKept DEF TypeInv, Start, PublishTo, Published, Finish
<1>2. Idle \in ThreadState /\ [Idle EXCEPT !.pc = "work"] \in ThreadState
  BY BoundAssumption DEF Idle, ThreadState
<1>3. /\ thread' \in [Threads -> ThreadState]
      /\ \A u \in Threads :
           \/ thread'[u].pc \notin {"publish", "put"}
           \/ thread'[u].ev = thread[u].ev /\ thread[u].pc \in {"publish", "put"}
  <2>0. thread \in [Threads -> ThreadState] /\ subs \in SUBSET Pages
    BY DEF TypeInv, TypeOK
  <2>1. CASE Start(t)
    BY <1>2, <2>0, <2>1 DEF Start, Idle
  <2>2. CASE PublishTo(t)
    BY <2>0, <2>2 DEF PublishTo, ThreadState
  <2>3. CASE Published(t)
    BY <2>0, <2>3 DEF Published, ThreadState
  <2>4. CASE Finish(t)
    BY <1>2, <2>0, <2>4 DEF Finish, Idle
  <2> QED BY <2>1, <2>2, <2>3, <2>4
<1>4. TypeOK'
  BY <1>3 DEF TypeInv, TypeOK, Start, PublishTo, Published, Finish
<1>5. \A u \in Threads : ThreadOK(u)'
  BY <1>1, <1>3, EventStays DEF ThreadOK, TypeInv
<1>6. \A p \in Pages : PlaceOK(p)'
  BY <1>1, PlaceStays DEF Start, PublishTo, Published, Finish
<1> QED BY <1>1, <1>4, <1>5, <1>6 DEF TypeInv

LEMMA NoteType ==
    ASSUME TypeInv, NEW t \in Threads, Note(t)
    PROVE  TypeInv' /\ LogGrows
<1>1. LogGrows
  BY LogAppended DEF Note, TypeInv, Type
<1>2. TypeOK'
  BY <1>1 DEF TypeInv, TypeOK, Note, LogGrows
<1>3. \A u \in Threads : ThreadOK(u)'
  BY <1>1, ThreadStays DEF Note
<1>4. \A p \in Pages : PlaceOK(p)'
  BY <1>1, PlaceStays DEF Note
<1> QED BY <1>1, <1>2, <1>3, <1>4 DEF TypeInv

LEMMA PutType ==
    ASSUME TypeInv, NEW t \in Threads, NEW p \in Pages, Put(t, p)
    PROVE  TypeInv' /\ LogGrows
<1>1. LogGrows
  BY LogKept DEF Put, TypeInv
<1>2. /\ thread' \in [Threads -> ThreadState]
      /\ \A u \in Threads : thread'[u].ev = thread[u].ev /\ thread'[u].pc = thread[u].pc
  <2> DEFINE r == [thread[t] EXCEPT !.targets = @ \ {p}]
  <2>1. thread \in [Threads -> ThreadState] /\ thread' = [thread EXCEPT ![t] = r]
    BY DEF Put, TypeInv, TypeOK
  <2>2. r \in ThreadState /\ r.ev = thread[t].ev /\ r.pc = thread[t].pc
    BY <2>1 DEF ThreadState
  <2> HIDE DEF r
  <2> QED BY <2>1, <2>2
<1>3. EventOK(thread[t].ev, log) /\ thread[t].ev \in Event
  BY DEF Put, TypeInv, ThreadOK, EventOK
<1>4. /\ inbox'[p] = Append(inbox[p], thread[t].ev) /\ inbox[p] \in Seq(Event)
      /\ \A q \in Pages \ {p} : inbox'[q] = inbox[q]
  BY DEF Put, TypeInv, TypeOK
<1>5. inbox' \in [Pages -> Seq(Event)]
  BY <1>3, <1>4, AppendFacts DEF Put, TypeInv, TypeOK
<1>6. TypeOK'
  BY <1>2, <1>5 DEF TypeInv, TypeOK, Put
<1>7. \A u \in Threads : ThreadOK(u)'
  BY <1>1, <1>2, ThreadStays
<1>8. ASSUME NEW q \in Pages PROVE PlaceOK(q)'
  <2>1. CASE q # p
    BY <1>1, <1>4, <2>1, PlaceStays DEF Put
  <2>2. CASE q = p
    <3>1. PlaceOK(p)
      BY DEF TypeInv
    <3>2. \A i \in 1 .. Len(inbox'[p]) : EventOK(inbox'[p][i], log)
      BY <1>3, <1>4, <3>1, AppendFacts DEF PlaceOK
    <3> QED BY <2>2, <3>1, <3>2 DEF PlaceOK, Put
  <2> QED BY <2>1, <2>2
<1> QED BY <1>1, <1>6, <1>7, <1>8 DEF TypeInv

-----------------------------------------------------------------------------
(* The streams and the pages. *)

(* What Unsubscribe and a crash do to the threads is nothing to ThreadOK. *)
LEMMA UnsubscribeType ==
    ASSUME TypeInv, NEW p \in Pages, Unsubscribe(p)
    PROVE  /\ thread' \in [Threads -> ThreadState]
           /\ \A t \in Threads : thread'[t].ev = thread[t].ev /\ thread'[t].pc = thread[t].pc
           /\ subs' \subseteq Pages
           /\ inbox' \in [Pages -> Seq(Event)]
           /\ inbox'[p] = <<>>
           /\ \A q \in Pages \ {p} : inbox'[q] = inbox[q]
<1>1. thread \in [Threads -> ThreadState] /\ inbox \in [Pages -> Seq(Event)]
  BY DEF TypeInv, TypeOK
<1>2. \A t \in Threads :
        /\ [thread[t] EXCEPT !.targets = @ \ {p}] \in ThreadState
        /\ [thread[t] EXCEPT !.targets = @ \ {p}].ev = thread[t].ev
        /\ [thread[t] EXCEPT !.targets = @ \ {p}].pc = thread[t].pc
  BY <1>1 DEF ThreadState
<1>3. <<>> \in Seq(Event)
  BY EmptySeq
<1> QED BY <1>1, <1>2, <1>3 DEF Unsubscribe, TypeInv, TypeOK

(* A frame for page p: the wire gets an event that is as it should be. *)
LEMMA SendFacts ==
    ASSUME TypeInv, NEW p \in Pages, NEW ev \in Event, Send(p, ev)
    PROVE  /\ wire' \in [Pages -> Seq(Event)]
           /\ wire'[p] = Append(wire[p], ev)
           /\ Len(wire[p]) \in Nat
           /\ Len(wire'[p]) = Len(wire[p]) + 1
           /\ \A i \in 1 .. Len(wire[p]) : wire'[p][i] = wire[p][i]
           /\ wire'[p][Len(wire[p]) + 1] = ev
           /\ \A q \in Pages \ {p} : wire'[q] = wire[q]
<1>1. wire \in [Pages -> Seq(Event)] /\ wire' = [wire EXCEPT ![p] = Append(@, ev)]
  BY DEF TypeInv, TypeOK, Send
<1>2. wire[p] \in Seq(Event)
  BY <1>1
<1> QED BY <1>1, <1>2, AppendFacts

LEMMA SendPlaces ==
    ASSUME TypeInv, NEW p \in Pages, NEW ev \in Event, EventOK(ev, log), Send(p, ev)
    PROVE  \A i \in 1 .. Len(wire'[p]) : EventOK(wire'[p][i], log)
<1> SUFFICES ASSUME NEW i \in 1 .. Len(wire'[p])
             PROVE  EventOK(wire'[p][i], log)
  OBVIOUS
<1>1. CASE i = Len(wire[p]) + 1
  BY <1>1, SendFacts
<1>2. CASE i # Len(wire[p]) + 1
  <2>1. i \in 1 .. Len(wire[p])
    BY <1>2, SendFacts
  <2> QED BY <2>1, SendFacts DEF TypeInv, PlaceOK
<1> QED BY <1>1, <1>2

LEMMA OpenType ==
    ASSUME TypeInv, NEW p \in Pages, Open(p)
    PROVE  TypeInv' /\ LogGrows
<1>1. LogGrows
  BY LogKept DEF Open, TypeInv
<1> DEFINE new == [pc |-> "fetch", delivered |-> page[p].cursor, upto |-> 0]
<1>2. page[p].cursor \in Nat /\ PlaceOK(p)
  BY DEF TypeInv, TypeOK
<1>3. new \in StreamState /\ stream \in [Pages -> StreamState]
  BY <1>2 DEF StreamState, TypeInv, TypeOK
<1>4. stream' = [stream EXCEPT ![p] = new]
  BY DEF Open
<1>5. TypeOK'
  BY <1>3, <1>4 DEF Open, TypeInv, TypeOK
<1>6. \A t \in Threads : ThreadOK(t)'
  BY <1>1, ThreadStays DEF Open
<1>7. ASSUME NEW q \in Pages PROVE PlaceOK(q)'
  <2>1. CASE q # p
    BY <1>1, <1>3, <1>4, <2>1, PlaceStays DEF Open
  <2>2. CASE q = p
    BY <1>1, <1>2, <1>3, <1>4, <2>2 DEF Open, PlaceOK, LogGrows
  <2> QED BY <2>1, <2>2
<1> QED BY <1>1, <1>5, <1>6, <1>7 DEF TypeInv

LEMMA FetchType ==
    ASSUME TypeInv, NEW p \in Pages, Fetch(p)
    PROVE  TypeInv' /\ LogGrows
<1>1. LogGrows
  BY LogKept DEF Fetch, TypeInv
<1>2. stream' \in [Pages -> StreamState]
  <2>1. stream \in [Pages -> StreamState] /\ Len(log) \in Nat
    BY <1>1 DEF TypeInv, TypeOK, LogGrows
  <2>2. [stream[p] EXCEPT !.pc = "replay", !.upto = Len(log)] \in StreamState
    BY <2>1 DEF StreamState
  <2> QED BY <2>1, <2>2 DEF Fetch
<1>3. TypeOK'
  BY <1>2 DEF Fetch, TypeInv, TypeOK
<1>4. \A t \in Threads : ThreadOK(t)'
  BY <1>1, ThreadStays DEF Fetch
<1>5. ASSUME NEW q \in Pages PROVE PlaceOK(q)'
  <2>1. CASE q # p
    BY <1>1, <2>1, PlaceStays DEF Fetch, TypeInv, TypeOK
  <2>2. CASE q = p
    BY <1>1, <2>2 DEF Fetch, TypeInv, TypeOK, PlaceOK, LogGrows, StreamState
  <2> QED BY <2>1, <2>2
<1> QED BY <1>1, <1>3, <1>4, <1>5 DEF TypeInv

(* The row that is replayed next. *)
LEMMA RowFacts ==
    ASSUME TypeInv, NEW p \in Pages, ReplayRow(p)
    PROVE  LET pos == stream[p].delivered + 1
               ev == [pos |-> pos, seq |-> pos, type |-> log[pos]]
           IN /\ ev \in Event /\ EventOK(ev, log) /\ Send(p, ev)
              /\ ev.pos = pos /\ ev.seq = pos
              /\ pos \in Nat /\ pos \in 1 .. Len(log)
              /\ stream' = [stream EXCEPT ![p].delivered = pos]
<1> DEFINE pos == stream[p].delivered + 1
           ev == [pos |-> pos, seq |-> pos, type |-> log[pos]]
<1>1. /\ stream[p].delivered \in Nat /\ stream[p].upto \in Nat
      /\ stream[p].upto <= Len(log) /\ log \in Seq(Type)
  BY DEF TypeInv, TypeOK, StreamState, PlaceOK
<1>2. Len(log) \in Nat
  BY <1>1, LenProperties
<1>3. pos \in 1 .. Len(log)
  BY <1>1, <1>2 DEF ReplayRow
<1>4. log[pos] \in Type
  BY <1>1, <1>3, ElementOfSeq
<1>5. ev \in Event
  BY <1>3, <1>4 DEF Event
<1>6. EventOK(ev, log)
  BY <1>3, <1>5 DEF EventOK
<1>7. Send(p, ev) /\ stream' = [stream EXCEPT ![p].delivered = pos]
  BY DEF ReplayRow
<1> QED BY <1>3, <1>5, <1>6, <1>7

LEMMA ReplayRowType ==
    ASSUME TypeInv, NEW p \in Pages, ReplayRow(p)
    PROVE  TypeInv' /\ LogGrows
<1> DEFINE pos == stream[p].delivered + 1
           ev == [pos |-> pos, seq |-> pos, type |-> log[pos]]
<1>1. LogGrows
  BY LogKept DEF ReplayRow, TypeInv
<1>2. /\ ev \in Event /\ EventOK(ev, log) /\ Send(p, ev) /\ pos \in Nat /\ pos <= Len(log)
      /\ stream' = [stream EXCEPT ![p].delivered = pos]
  BY RowFacts
<1> HIDE DEF ev, pos
<1>3. stream' \in [Pages -> StreamState] /\ wire' \in [Pages -> Seq(Event)]
  <2>1. stream \in [Pages -> StreamState]
    BY DEF TypeInv, TypeOK
  <2>2. stream' \in [Pages -> StreamState]
    BY <1>2, <2>1 DEF StreamState
  <2> QED BY <1>2, <2>2, SendFacts
<1>4. TypeOK'
  BY <1>3 DEF ReplayRow, TypeInv, TypeOK
<1>5. \A t \in Threads : ThreadOK(t)'
  BY <1>1, ThreadStays DEF ReplayRow
<1>6. ASSUME NEW q \in Pages PROVE PlaceOK(q)'
  <2>1. CASE q # p
    BY <1>1, <1>2, <2>1, SendFacts, PlaceStays, SMTT(60) DEF ReplayRow, TypeInv, TypeOK
  <2>2. CASE q = p
    <3>1. \A i \in 1 .. Len(wire'[p]) : EventOK(wire'[p][i], log)
      BY <1>2, SendPlaces
    <3>2. stream'[p].delivered = pos /\ stream'[p].upto = stream[p].upto
          /\ stream'[p].pc # "closed"
      <4>1. stream[p] \in StreamState /\ stream'[p] = [stream[p] EXCEPT !.delivered = pos]
        BY <1>2 DEF TypeInv, TypeOK
      <4>2. stream[p].pc = "replay"
        BY DEF ReplayRow
      <4> QED BY <4>1, <4>2 DEF StreamState
    <3> QED BY <1>1, <1>2, <2>2, <3>1, <3>2 DEF ReplayRow, TypeInv, PlaceOK
  <2> QED BY <2>1, <2>2
<1> QED BY <1>1, <1>4, <1>5, <1>6 DEF TypeInv

(* A stream ends: it leaves the bus. *)
LEMMA EndType ==
    ASSUME TypeInv, NEW p \in Pages, Unsubscribe(p), UNCHANGED <<log, page>>,
           stream' \in [Pages -> StreamState], wire' \in [Pages -> Seq(Event)],
           running' \in BOOLEAN,
           stream'[p].pc # "closed" \/ wire'[p] = <<>>,
           stream'[p].upto <= Len(log), stream'[p].delivered <= Len(log),
           \A i \in 1 .. Len(wire'[p]) : EventOK(wire'[p][i], log),
           \A q \in Pages \ {p} : stream'[q] = stream[q] /\ wire'[q] = wire[q]
    PROVE  TypeInv' /\ LogGrows
<1>1. LogGrows
  BY LogKept DEF TypeInv
<1>2. TypeOK'
  BY UnsubscribeType DEF TypeInv, TypeOK
<1>3. \A t \in Threads : ThreadOK(t)'
  BY <1>1, UnsubscribeType, ThreadStays
<1>4. ASSUME NEW q \in Pages PROVE PlaceOK(q)'
  <2>1. CASE q # p
    BY <1>1, <2>1, UnsubscribeType, PlaceStays
  <2>2. CASE q = p
    <3>1. inbox'[p] = <<>> /\ Len(<<>>) = 0
      BY UnsubscribeType, EmptySeq
    <3> QED BY <2>2, <3>1 DEF TypeInv, PlaceOK
  <2> QED BY <2>1, <2>2
<1> QED BY <1>1, <1>2, <1>3, <1>4 DEF TypeInv

LEMMA CheckRunningType ==
    ASSUME TypeInv, NEW p \in Pages, CheckRunning(p)
    PROVE  TypeInv' /\ LogGrows
<1>1. LogGrows
  BY LogKept DEF CheckRunning, TypeInv
<1>2. stream \in [Pages -> StreamState] /\ PlaceOK(p) /\ running \in BOOLEAN
      /\ wire \in [Pages -> Seq(Event)]
  BY DEF TypeInv, TypeOK
<1>3. CASE running
  <2>1. stream' = [stream EXCEPT ![p].pc = "live"] /\ UNCHANGED <<log, running, thread, subs, inbox, wire, page>>
    BY <1>3 DEF CheckRunning
  <2>2. TypeOK'
    BY <1>2, <2>1 DEF TypeInv, TypeOK, StreamState
  <2>3. \A t \in Threads : ThreadOK(t)'
    BY <1>1, <2>1, ThreadStays
  <2>4. ASSUME NEW q \in Pages PROVE PlaceOK(q)'
    <3>1. CASE q # p
      BY <1>1, <1>2, <2>1, <3>1, PlaceStays
    <3>2. CASE q = p
      BY <1>2, <2>1, <3>2 DEF PlaceOK, StreamState
    <3> QED BY <3>1, <3>2
  <2> QED BY <1>1, <2>2, <2>3, <2>4 DEF TypeInv
<1>4. CASE ~running
  <2>1. /\ stream' = [stream EXCEPT ![p].pc = "ended"] /\ Unsubscribe(p)
        /\ UNCHANGED <<log, running, wire, page>>
    BY <1>4 DEF CheckRunning
  <2>2. /\ stream' \in [Pages -> StreamState] /\ stream'[p].pc = "ended"
        /\ stream'[p].upto = stream[p].upto /\ stream'[p].delivered = stream[p].delivered
        /\ \A q \in Pages \ {p} : stream'[q] = stream[q]
    BY <1>2, <2>1 DEF StreamState
  <2> QED BY <1>2, <2>1, <2>2, EndType DEF PlaceOK
<1> QED BY <1>3, <1>4

LEMMA IdleTimeoutType ==
    ASSUME TypeInv, NEW p \in Pages, IdleTimeout(p)
    PROVE  TypeInv' /\ LogGrows
<1>1. /\ stream \in [Pages -> StreamState] /\ PlaceOK(p) /\ running \in BOOLEAN
      /\ wire \in [Pages -> Seq(Event)]
  BY DEF TypeInv, TypeOK
<1>2. /\ stream' \in [Pages -> StreamState] /\ stream'[p].pc = "ended"
      /\ stream'[p].upto = stream[p].upto /\ stream'[p].delivered = stream[p].delivered
      /\ \A q \in Pages \ {p} : stream'[q] = stream[q]
  BY <1>1 DEF IdleTimeout, StreamState
<1> QED BY <1>1, <1>2, EndType DEF PlaceOK, IdleTimeout

LEMMA CloseType ==
    ASSUME TypeInv, NEW p \in Pages, Close(p)
    PROVE  TypeInv' /\ LogGrows
<1>1. /\ stream \in [Pages -> StreamState] /\ running \in BOOLEAN
      /\ wire \in [Pages -> Seq(Event)] /\ log \in Seq(Type)
  BY DEF TypeInv, TypeOK
<1>2. Closed \in StreamState /\ <<>> \in Seq(Event) /\ Len(<<>>) = 0 /\ Len(log) \in Nat
  BY <1>1, EmptySeq, LenProperties DEF Closed, StreamState
<1>3. /\ stream' \in [Pages -> StreamState] /\ stream'[p] = Closed
      /\ wire' \in [Pages -> Seq(Event)] /\ wire'[p] = <<>>
      /\ \A q \in Pages \ {p} : stream'[q] = stream[q] /\ wire'[q] = wire[q]
  BY <1>1, <1>2 DEF Close
<1>4. stream'[p].upto <= Len(log) /\ stream'[p].delivered <= Len(log)
  BY <1>2, <1>3 DEF Closed
<1> QED BY <1>1, <1>2, <1>3, <1>4, EndType DEF Close

(* The event at the head of a stream's queue. *)
Front(p) == Head(inbox[p])

LEMMA HeadFacts ==
    ASSUME TypeInv, NEW p \in Pages, inbox[p] # <<>>
    PROVE  /\ Front(p) = inbox[p][1]
           /\ Front(p) \in Event
           /\ EventOK(Front(p), log)
           /\ Len(inbox[p]) \in Nat \ {0}
           /\ Tail(inbox[p]) \in Seq(Event)
           /\ Len(Tail(inbox[p])) = Len(inbox[p]) - 1
           /\ \A i \in 1 .. Len(inbox[p]) - 1 : Tail(inbox[p])[i] = inbox[p][i + 1]
<1>1. inbox[p] \in Seq(Event) /\ PlaceOK(p)
  BY DEF TypeInv, TypeOK
<1> QED BY <1>1, TailFacts DEF PlaceOK, Front

(* The event the stream has not delivered yet, by its seq. *)
Delivers(p) == Front(p).seq # None /\ ~(Front(p).seq <= stream[p].delivered)

(* Live, as what it does to the stream and to its wire. *)
LEMMA LiveFacts ==
    ASSUME TypeInv, NEW p \in Pages, Live(p)
    PROVE  /\ inbox[p] # <<>>
           /\ stream' \in [Pages -> StreamState]
           /\ stream'[p].pc = IF Front(p).type \in Terminal THEN "ended" ELSE "live"
           /\ stream'[p].upto = stream[p].upto
           /\ Delivers(p) => stream'[p].delivered = Front(p).seq
           /\ ~Delivers(p) => stream'[p].delivered = stream[p].delivered
           /\ \A q \in Pages \ {p} : stream'[q] = stream[q]
           /\ \/ Send(p, Front(p))
              \/ UNCHANGED wire /\ ~Delivers(p)
           /\ Front(p).seq # None =>
                  Front(p).seq \in Nat /\ Front(p).seq = Front(p).pos /\ Front(p).pos \in 1 .. Len(log)
<1> DEFINE known == Front(p).seq # None /\ Front(p).seq <= stream[p].delivered
           new == [stream[p] EXCEPT
               !.delivered = IF known \/ Front(p).seq = None THEN @ ELSE Front(p).seq,
               !.pc = IF Front(p).type \in Terminal THEN "ended" ELSE "live"]
<1>1. Front(p) \in Event /\ EventOK(Front(p), log)
  BY HeadFacts DEF Live
<1>2. stream \in [Pages -> StreamState] /\ stream' = [stream EXCEPT ![p] = new]
  BY DEF TypeInv, TypeOK, Live, Front
<1>3. Front(p).seq # None =>
          Front(p).seq \in Nat /\ Front(p).seq = Front(p).pos /\ Front(p).pos \in 1 .. Len(log)
  BY <1>1 DEF EventOK, Event
<1>4. /\ new \in StreamState
      /\ new.pc = IF Front(p).type \in Terminal THEN "ended" ELSE "live"
      /\ new.upto = stream[p].upto
      /\ Delivers(p) => new.delivered = Front(p).seq
      /\ ~Delivers(p) => new.delivered = stream[p].delivered
  BY <1>2, <1>3 DEF StreamState, Delivers
<1>5. \/ Send(p, Front(p))
      \/ UNCHANGED wire /\ ~Delivers(p)
  <2>1. IF known THEN UNCHANGED wire ELSE Send(p, Front(p))
    BY DEF Live, Front
  <2>2. known => ~Delivers(p)
    BY DEF Delivers
  <2> HIDE DEF known
  <2> QED BY <2>1, <2>2
<1> HIDE DEF new
<1>6. /\ stream' \in [Pages -> StreamState] /\ stream'[p] = new
      /\ \A q \in Pages \ {p} : stream'[q] = stream[q]
  BY <1>2, <1>4
<1> QED BY <1>3, <1>4, <1>5, <1>6 DEF Live

LEMMA LiveType ==
    ASSUME TypeInv, NEW p \in Pages, Live(p)
    PROVE  TypeInv' /\ LogGrows
<1>1. LogGrows
  BY LogKept DEF Live, TypeInv
<1>2. Front(p) \in Event /\ EventOK(Front(p), log) /\ inbox[p] # <<>>
  BY HeadFacts, LiveFacts
<1>3. PlaceOK(p) /\ wire \in [Pages -> Seq(Event)] /\ running \in BOOLEAN
  BY DEF TypeInv, TypeOK
<1>4. /\ wire' \in [Pages -> Seq(Event)]
      /\ \A i \in 1 .. Len(wire'[p]) : EventOK(wire'[p][i], log)
      /\ \A q \in Pages \ {p} : wire'[q] = wire[q]
  <2>1. CASE Send(p, Front(p))
    BY <1>2, <2>1, SendFacts, SendPlaces
  <2>2. CASE UNCHANGED wire
    BY <1>3, <2>2 DEF PlaceOK
  <2> QED BY <2>1, <2>2, LiveFacts
<1>5. /\ stream' \in [Pages -> StreamState] /\ stream'[p].pc # "closed"
      /\ stream'[p].upto <= Len(log) /\ stream'[p].delivered <= Len(log)
      /\ \A q \in Pages \ {p} : stream'[q] = stream[q]
  <2>1. stream'[p].delivered <= Len(log)
    <3>1. CASE Delivers(p)
      <4>1. stream'[p].delivered = Front(p).seq /\ Front(p).seq \in 1 .. Len(log)
        BY <3>1, LiveFacts DEF Delivers
      <4> QED BY <1>1, <4>1 DEF LogGrows
    <3>2. CASE ~Delivers(p)
      BY <1>3, <3>2, LiveFacts DEF PlaceOK
    <3> QED BY <3>1, <3>2
  <2> QED BY <1>3, <2>1, LiveFacts DEF PlaceOK
<1>6. CASE Front(p).type \in Terminal
  <2>1. Unsubscribe(p) /\ UNCHANGED <<log, running, page>>
    BY <1>6 DEF Live, Front
  <2> QED BY <1>3, <1>4, <1>5, <2>1, EndType
<1>7. CASE Front(p).type \notin Terminal
  <2>1. inbox' = [inbox EXCEPT ![p] = Tail(@)] /\ UNCHANGED <<log, running, thread, subs, page>>
    BY <1>7 DEF Live, Front
  <2>2. /\ inbox' \in [Pages -> Seq(Event)] /\ inbox'[p] = Tail(inbox[p])
        /\ \A q \in Pages \ {p} : inbox'[q] = inbox[q]
    BY <1>2, <2>1, HeadFacts DEF TypeInv, TypeOK
  <2>3. TypeOK'
    BY <1>4, <1>5, <2>1, <2>2 DEF TypeInv, TypeOK
  <2>4. \A t \in Threads : ThreadOK(t)'
    BY <1>1, <2>1, ThreadStays
  <2>5. ASSUME NEW q \in Pages PROVE PlaceOK(q)'
    <3>1. CASE q # p
      BY <1>1, <1>4, <1>5, <2>1, <2>2, <3>1, PlaceStays
    <3>2. CASE q = p
      <4>1. \A i \in 1 .. Len(inbox'[p]) : EventOK(inbox'[p][i], log)
        <5> SUFFICES ASSUME NEW i \in 1 .. Len(inbox'[p])
                     PROVE  EventOK(inbox'[p][i], log)
          OBVIOUS
        <5>1. i \in 1 .. Len(inbox[p]) - 1 /\ i + 1 \in 1 .. Len(inbox[p])
          BY <1>2, <2>2, HeadFacts
        <5> QED BY <1>2, <1>3, <2>2, <5>1, HeadFacts DEF PlaceOK
      <4> QED BY <1>3, <1>4, <1>5, <2>1, <3>2, <4>1 DEF PlaceOK
    <3> QED BY <3>1, <3>2
  <2> QED BY <1>1, <2>3, <2>4, <2>5 DEF TypeInv
<1> QED BY <1>6, <1>7

(* The frame a page receives next. *)
Frame(p) == Head(wire[p])

LEMMA FrameFacts ==
    ASSUME TypeInv, NEW p \in Pages, wire[p] # <<>>
    PROVE  /\ Frame(p) = wire[p][1]
           /\ Frame(p) \in Event
           /\ EventOK(Frame(p), log)
           /\ Len(wire[p]) \in Nat \ {0}
           /\ Tail(wire[p]) \in Seq(Event)
           /\ Len(Tail(wire[p])) = Len(wire[p]) - 1
           /\ \A i \in 1 .. Len(wire[p]) - 1 : Tail(wire[p])[i] = wire[p][i + 1]
<1>1. wire[p] \in Seq(Event) /\ PlaceOK(p)
  BY DEF TypeInv, TypeOK
<1> QED BY <1>1, TailFacts DEF PlaceOK, Frame

(* Receive, as what it does to the page. *)
LEMMA ReceiveFacts ==
    ASSUME TypeInv, NEW p \in Pages, Receive(p)
    PROVE  /\ wire[p] # <<>>
           /\ page' \in [Pages -> [shown : Seq(Nat), cursor : Nat]]
           /\ wire' \in [Pages -> Seq(Event)]
           /\ page'[p].cursor = IF Frame(p).seq # None /\ Frame(p).seq > page[p].cursor THEN Frame(p).seq
                                ELSE page[p].cursor
           /\ page'[p].shown = IF Frame(p).pos = 0 THEN page[p].shown
                               ELSE Append(page[p].shown, Frame(p).pos)
           /\ wire'[p] = Tail(wire[p])
           /\ \A q \in Pages \ {p} : page'[q] = page[q] /\ wire'[q] = wire[q]
           /\ Frame(p).pos \in Nat
           /\ Frame(p).seq # None => Frame(p).seq \in Nat /\ Frame(p).seq = Frame(p).pos /\ Frame(p).pos \in 1 .. Len(log)
<1> DEFINE new == [page[p] EXCEPT !.shown = IF Frame(p).pos = 0 THEN @ ELSE Append(@, Frame(p).pos),
                                  !.cursor = IF Frame(p).seq # None /\ Frame(p).seq > @ THEN Frame(p).seq ELSE @]
<1>1. wire[p] # <<>> /\ Frame(p) \in Event /\ EventOK(Frame(p), log) /\ Tail(wire[p]) \in Seq(Event)
  BY FrameFacts DEF Receive
<1>2. /\ page \in [Pages -> [shown : Seq(Nat), cursor : Nat]]
      /\ wire \in [Pages -> Seq(Event)]
      /\ page' = [page EXCEPT ![p] = new]
      /\ wire' = [wire EXCEPT ![p] = Tail(@)]
  BY DEF TypeInv, TypeOK, Receive, Frame
<1>3. Frame(p).pos \in Nat /\ (Frame(p).seq # None => Frame(p).seq \in Nat /\ Frame(p).seq = Frame(p).pos /\ Frame(p).pos \in 1 .. Len(log))
  BY <1>1 DEF EventOK, Event
<1>4. page[p] \in [shown : Seq(Nat), cursor : Nat]
  BY <1>2
<1>5. Append(page[p].shown, Frame(p).pos) \in Seq(Nat)
  BY <1>3, <1>4, AppendFacts
<1>6. /\ new \in [shown : Seq(Nat), cursor : Nat]
      /\ new.shown = IF Frame(p).pos = 0 THEN page[p].shown ELSE Append(page[p].shown, Frame(p).pos)
      /\ new.cursor = IF Frame(p).seq # None /\ Frame(p).seq > page[p].cursor THEN Frame(p).seq ELSE page[p].cursor
  BY <1>3, <1>4, <1>5
<1> HIDE DEF new
<1>7. /\ page' \in [Pages -> [shown : Seq(Nat), cursor : Nat]] /\ page'[p] = new
      /\ wire' \in [Pages -> Seq(Event)] /\ wire'[p] = Tail(wire[p])
      /\ \A q \in Pages \ {p} : page'[q] = page[q] /\ wire'[q] = wire[q]
  BY <1>1, <1>2, <1>6
<1> QED BY <1>1, <1>3, <1>6, <1>7

LEMMA ReceiveType ==
    ASSUME TypeInv, NEW p \in Pages, Receive(p)
    PROVE  TypeInv' /\ LogGrows
<1>1. LogGrows
  BY LogKept DEF Receive, TypeInv
<1>2. wire[p] # <<>> /\ Frame(p) \in Event /\ EventOK(Frame(p), log)
  BY FrameFacts, ReceiveFacts
<1>3. TypeOK'
  BY ReceiveFacts DEF Receive, TypeInv, TypeOK
<1>4. \A t \in Threads : ThreadOK(t)'
  BY <1>1, ThreadStays DEF Receive
<1>5. ASSUME NEW q \in Pages PROVE PlaceOK(q)'
  <2>1. CASE q # p
    BY <1>1, <2>1, ReceiveFacts, PlaceStays DEF Receive
  <2>2. CASE q = p
    <3>0. PlaceOK(p) /\ page[p].shown \in Seq(Nat)
      BY DEF TypeInv, TypeOK
    <3>1. \A i \in 1 .. Len(wire'[p]) : EventOK(wire'[p][i], log)
      <4> SUFFICES ASSUME NEW i \in 1 .. Len(wire'[p])
                   PROVE  EventOK(wire'[p][i], log)
        OBVIOUS
      <4>1. wire'[p] = Tail(wire[p]) /\ Len(wire[p]) \in Nat \ {0}
            /\ Len(Tail(wire[p])) = Len(wire[p]) - 1
        BY <1>2, FrameFacts, ReceiveFacts
      <4>2. i \in 1 .. Len(wire[p]) - 1 /\ i + 1 \in 1 .. Len(wire[p])
        BY <4>1
      <4>3. wire'[p][i] = wire[p][i + 1]
        BY <1>2, <4>1, <4>2, FrameFacts
      <4> QED BY <3>0, <4>2, <4>3 DEF PlaceOK
    <3>2. page'[p].cursor <= Len(log)
      <4>1. CASE Frame(p).seq # None /\ Frame(p).seq > page[p].cursor
        <5>1. page'[p].cursor = Frame(p).seq /\ Frame(p).seq \in 1 .. Len(log)
          BY <4>1, ReceiveFacts
        <5> QED BY <1>1, <5>1 DEF LogGrows
      <4>2. CASE ~(Frame(p).seq # None /\ Frame(p).seq > page[p].cursor)
        BY <3>0, <4>2, ReceiveFacts DEF PlaceOK
      <4> QED BY <4>1, <4>2
    <3>3. \A i \in 1 .. Len(page'[p].shown) : page'[p].shown[i] \in 1 .. Len(log)
      <4>1. CASE Frame(p).pos = 0
        BY <3>0, <4>1, ReceiveFacts DEF PlaceOK
      <4>2. CASE Frame(p).pos # 0
        <5>1. Frame(p).pos \in 1 .. Len(log) /\ Frame(p).pos \in Nat
          BY <1>2, <4>2, ReceiveFacts DEF EventOK
        <5>2. page'[p].shown = Append(page[p].shown, Frame(p).pos)
          BY <4>2, ReceiveFacts
        <5> QED BY <3>0, <5>1, <5>2, AppendFacts DEF PlaceOK
      <4> QED BY <4>1, <4>2
    <3>4. stream'[p].pc # "closed"
      BY <1>2, <3>0 DEF PlaceOK, Receive
    <3> QED BY <2>2, <3>0, <3>1, <3>2, <3>3, <3>4 DEF PlaceOK, Receive
  <2> QED BY <2>1, <2>2
<1> QED BY <1>1, <1>3, <1>4, <1>5 DEF TypeInv

LEMMA ReloadType ==
    ASSUME TypeInv, NEW p \in Pages, Reload(p)
    PROVE  TypeInv' /\ LogGrows
<1>1. LogGrows
  BY LogKept DEF Reload, TypeInv
<1>2. FreshPage \in [shown : Seq(Nat), cursor : Nat] /\ Len(<<>>) = 0
  BY EmptySeq DEF FreshPage
<1>3. /\ page' \in [Pages -> [shown : Seq(Nat), cursor : Nat]] /\ page'[p] = FreshPage
      /\ \A q \in Pages \ {p} : page'[q] = page[q]
  BY <1>2 DEF Reload, TypeInv, TypeOK
<1>4. TypeOK'
  BY <1>3 DEF Reload, TypeInv, TypeOK
<1>5. \A t \in Threads : ThreadOK(t)'
  BY <1>1, ThreadStays DEF Reload
<1>6. ASSUME NEW q \in Pages PROVE PlaceOK(q)'
  <2>1. CASE q # p
    BY <1>1, <1>3, <2>1, PlaceStays DEF Reload
  <2>2. CASE q = p
    BY <1>1, <1>2, <1>3, <2>2 DEF TypeInv, PlaceOK, Reload, FreshPage, LogGrows
  <2> QED BY <2>1, <2>2
<1> QED BY <1>1, <1>4, <1>5, <1>6 DEF TypeInv

LEMMA CrashType ==
    ASSUME TypeInv, Crash
    PROVE  TypeInv' /\ LogGrows
<1>1. LogGrows
  BY LogKept DEF Crash, TypeInv
<1>2. /\ Idle \in ThreadState /\ Closed \in StreamState /\ <<>> \in Seq(Event)
      /\ Len(<<>>) = 0
  BY BoundAssumption, EmptySeq DEF Idle, ThreadState, Closed, StreamState
<1>3. TypeOK'
  BY <1>2 DEF Crash, TypeInv, TypeOK
<1>4. \A t \in Threads : ThreadOK(t)'
  BY DEF Crash, ThreadOK, Idle
<1>5. \A p \in Pages : PlaceOK(p)'
  BY <1>1, <1>2 DEF Crash, TypeInv, PlaceOK, Closed, LogGrows
<1> QED BY <1>1, <1>3, <1>4, <1>5 DEF TypeInv

(* Every step keeps the types, and no step takes anything out of the log. *)
LEMMA StepTypeInv ==
    ASSUME TypeInv, Next
    PROVE  TypeInv' /\ LogGrows
<1>1. ASSUME NEW t \in Threads, Start(t) \/ Work(t) \/ Fail(t) \/ Note(t)
      PROVE  TypeInv' /\ LogGrows
  <2>1. CASE Step(t) \/ Stop(t) \/ Fail(t)
    BY <2>1, AppendEventType DEF Step, Stop, Fail, Type
  <2>2. CASE \E p \in Pages : Put(t, p)
    BY <2>2, PutType
  <2>3. CASE Start(t) \/ PublishTo(t) \/ Published(t) \/ Finish(t)
    BY <2>3, ThreadOnlyType
  <2> QED BY <1>1, <2>1, <2>2, <2>3, TokenType, NoteType DEF Work
<1>2. ASSUME NEW p \in Pages, Serve(p) \/ Receive(p) \/ Visit(p)
      PROVE  TypeInv' /\ LogGrows
  BY <1>2, FetchType, ReplayRowType, CheckRunningType, LiveType, IdleTimeoutType,
     ReceiveType, OpenType, CloseType, ReloadType DEF Serve, Visit
<1> QED BY <1>1, <1>2, CrashType DEF Next

(* Every event in flight is one of the log, or a token.  TypeOK says of the *)
(* log, the threads, the queues and the pages what they hold; it is not     *)
(* inductive, since what a thread publishes ends up in the queues and what  *)
(* a stream replays must be in the log.                                     *)
THEOREM TypeInvCorrect == Spec => []TypeInv
<1>1. TypeInv /\ UNCHANGED vars => TypeInv'
  BY DEF TypeInv, TypeOK, ThreadOK, PlaceOK, vars
<1>2. TypeInv /\ [Next]_vars => TypeInv'
  BY <1>1, StepTypeInv
<1> QED BY <1>2, InitTypeInv, PTL DEF Spec

(* TypeOK holds of every behaviour (app/main.py, events; core/events.py).   *)
THEOREM TypeCorrect == Spec => []TypeOK
<1>1. TypeInv => TypeOK
  BY DEF TypeInv
<1> QED BY <1>1, TypeInvCorrect, PTL

-----------------------------------------------------------------------------
(* Order: what is on the wire of a page with a seq comes after what the page *)
(* has seen, one after another, and up to what its stream has delivered.     *)
OrderOK(p) ==
    /\ stream[p].pc # "closed" => page[p].cursor <= stream[p].delivered
    /\ \A i \in 1 .. Len(wire[p]) :
           wire[p][i].seq # None =>
               /\ page[p].cursor < wire[p][i].seq
               /\ wire[p][i].seq <= stream[p].delivered
               /\ \A j \in 1 .. i - 1 :
                      wire[p][j].seq # None => wire[p][j].seq < wire[p][i].seq

(* Of what is not an error, a page has shown nothing beyond its cursor, and  *)
(* that in the order of the log.                                             *)
ShownOK(p) ==
    \A i \in 1 .. Len(page[p].shown) :
        log[page[p].shown[i]] # "error" =>
            /\ page[p].shown[i] <= page[p].cursor
            /\ \A j \in 1 .. i - 1 :
                   log[page[p].shown[j]] # "error" => page[p].shown[j] < page[p].shown[i]

OrderInv == \A p \in Pages : OrderOK(p) /\ ShownOK(p)

LEMMA ShownStays ==
    ASSUME TypeInv, LogGrows, NEW p \in Pages, ShownOK(p), UNCHANGED page[p]
    PROVE  ShownOK(p)'
<1>1. PlaceOK(p) /\ page[p].shown \in Seq(Nat)
  BY DEF TypeInv, TypeOK
<1>2. Len(page[p].shown) \in Nat
  BY <1>1, LenProperties
<1>3. \A i \in 1 .. Len(page[p].shown) : log'[page[p].shown[i]] = log[page[p].shown[i]]
  BY <1>1 DEF PlaceOK, LogGrows
<1>4. \A i \in 1 .. Len(page[p].shown) : \A j \in 1 .. i - 1 : j \in 1 .. Len(page[p].shown)
  BY <1>2
<1> QED BY <1>3, <1>4 DEF ShownOK

LEMMA OrderStays ==
    ASSUME NEW p \in Pages, OrderOK(p), UNCHANGED <<page[p], wire[p]>>,
           stream'[p].delivered = stream[p].delivered, stream[p].pc # "closed"
    PROVE  OrderOK(p)'
BY DEF OrderOK

(* A frame with a seq is beyond what was delivered before it, and delivered  *)
(* with it.                                                                  *)
LEMMA OrderSend ==
    ASSUME TypeInv, NEW p \in Pages, OrderOK(p), NEW ev \in Event, EventOK(ev, log), Send(p, ev),
           UNCHANGED page, stream[p].pc # "closed", stream'[p].delivered \in Nat,
           stream[p].delivered <= stream'[p].delivered,
           ev.seq # None => stream[p].delivered < ev.seq /\ ev.seq <= stream'[p].delivered
    PROVE  OrderOK(p)'
<1>1. /\ Len(wire[p]) \in Nat /\ Len(wire'[p]) = Len(wire[p]) + 1
      /\ \A i \in 1 .. Len(wire[p]) : wire'[p][i] = wire[p][i]
      /\ wire'[p][Len(wire[p]) + 1] = ev
  BY SendFacts
<1>2. /\ page[p].cursor \in Nat /\ stream[p].delivered \in Nat
      /\ page[p].cursor <= stream[p].delivered
      /\ ev.seq # None => ev.seq \in Nat
      /\ \A i \in 1 .. Len(wire[p]) : wire[p][i].seq # None => wire[p][i].seq \in Nat
  BY DEF TypeInv, TypeOK, StreamState, OrderOK, PlaceOK, EventOK, Event
<1>3. page'[p].cursor <= stream'[p].delivered
  BY <1>2
<1>4. ASSUME NEW i \in 1 .. Len(wire'[p]), wire'[p][i].seq # None
      PROVE  /\ page'[p].cursor < wire'[p][i].seq
             /\ wire'[p][i].seq <= stream'[p].delivered
             /\ \A j \in 1 .. i - 1 :
                    wire'[p][j].seq # None => wire'[p][j].seq < wire'[p][i].seq
  <2>1. \A j \in 1 .. i - 1 : j \in 1 .. Len(wire[p])
    BY <1>1
  <2>2. CASE i \in 1 .. Len(wire[p])
    <3>1. /\ page[p].cursor < wire[p][i].seq /\ wire[p][i].seq \in Nat
          /\ wire[p][i].seq <= stream[p].delivered
          /\ \A j \in 1 .. i - 1 :
                 wire[p][j].seq # None => wire[p][j].seq < wire[p][i].seq
      BY <1>1, <1>2, <1>4, <2>2 DEF OrderOK
    <3>2. wire'[p][i] = wire[p][i] /\ \A j \in 1 .. i - 1 : wire'[p][j] = wire[p][j]
      BY <1>1, <2>1, <2>2
    <3>3. wire[p][i].seq <= stream'[p].delivered
      BY <1>2, <3>1
    <3> QED BY <3>1, <3>2, <3>3
  <2>3. CASE i = Len(wire[p]) + 1
    <3>1. wire'[p][i] = ev /\ ev.seq \in Nat
      BY <1>1, <1>2, <1>4, <2>3
    <3>2. ASSUME NEW j \in 1 .. i - 1, wire'[p][j].seq # None
          PROVE  wire'[p][j].seq < wire'[p][i].seq
      <4>1. wire'[p][j] = wire[p][j] /\ wire[p][j].seq \in Nat
        BY <1>1, <1>2, <2>1, <3>2
      <4>2. wire[p][j].seq <= stream[p].delivered
        BY <2>1, <3>2, <4>1 DEF OrderOK
      <4> QED BY <1>2, <1>4, <3>1, <4>1, <4>2
    <3> QED BY <1>2, <1>4, <3>1, <3>2
  <2> QED BY <1>1, <2>2, <2>3
<1> QED BY <1>3, <1>4 DEF OrderOK

LEMMA InitOrder ==
    ASSUME Init
    PROVE  OrderInv
BY EmptySeq DEF Init, OrderInv, OrderOK, ShownOK, Closed, FreshPage

LEMMA ReceiveOrder ==
    ASSUME TypeInv, LogGrows, NEW p \in Pages, OrderOK(p), ShownOK(p), Receive(p)
    PROVE  OrderOK(p)' /\ ShownOK(p)'
<1>1. /\ PlaceOK(p) /\ wire[p] # <<>> /\ page[p].cursor \in Nat /\ page[p].shown \in Seq(Nat)
      /\ stream[p].delivered \in Nat
  BY ReceiveFacts DEF TypeInv, TypeOK, StreamState
<1>2. /\ Len(wire[p]) \in Nat \ {0} /\ Frame(p) = wire[p][1] /\ EventOK(Frame(p), log)
      /\ wire'[p] = Tail(wire[p]) /\ Len(wire'[p]) = Len(wire[p]) - 1
      /\ \A i \in 1 .. Len(wire[p]) - 1 : wire'[p][i] = wire[p][i + 1]
  <2>1. wire'[p] = Tail(wire[p])
    BY ReceiveFacts
  <2> QED BY <1>1, <2>1, FrameFacts
<1>3. \A i \in 1 .. Len(wire[p]) : wire[p][i].seq # None => wire[p][i].seq \in Nat
  BY <1>1 DEF PlaceOK, EventOK, Event
<1>4. /\ Frame(p).seq # None =>
             /\ Frame(p).seq \in Nat /\ Frame(p).seq = Frame(p).pos
             /\ page[p].cursor < Frame(p).seq /\ Frame(p).seq <= stream[p].delivered
             /\ page'[p].cursor = Frame(p).seq
      /\ Frame(p).seq = None => page'[p].cursor = page[p].cursor
  <2>1. Frame(p).seq # None => page[p].cursor < Frame(p).seq /\ Frame(p).seq <= stream[p].delivered
    BY <1>2 DEF OrderOK
  <2> QED BY <1>1, <2>1, ReceiveFacts
<1>5. stream'[p] = stream[p] /\ stream[p].pc # "closed"
  BY <1>1 DEF PlaceOK, Receive
<1>6. OrderOK(p)'
  <2>1. page'[p].cursor <= stream'[p].delivered
    BY <1>4, <1>5 DEF OrderOK
  <2>2. ASSUME NEW i \in 1 .. Len(wire'[p]), wire'[p][i].seq # None
        PROVE  /\ page'[p].cursor < wire'[p][i].seq
               /\ wire'[p][i].seq <= stream'[p].delivered
               /\ \A j \in 1 .. i - 1 :
                      wire'[p][j].seq # None => wire'[p][j].seq < wire'[p][i].seq
    <3>1. /\ i + 1 \in 1 .. Len(wire[p]) /\ wire'[p][i] = wire[p][i + 1]
          /\ 1 \in 1 .. i + 1 - 1
      BY <1>2
    <3>2. /\ page[p].cursor < wire[p][i + 1].seq /\ wire[p][i + 1].seq \in Nat
          /\ wire[p][i + 1].seq <= stream[p].delivered
          /\ \A j \in 1 .. i + 1 - 1 :
                 wire[p][j].seq # None => wire[p][j].seq < wire[p][i + 1].seq
      BY <1>3, <2>2, <3>1 DEF OrderOK
    <3>3. page'[p].cursor < wire'[p][i].seq
      BY <1>2, <1>4, <3>1, <3>2
    <3>4. ASSUME NEW j \in 1 .. i - 1, wire'[p][j].seq # None
          PROVE  wire'[p][j].seq < wire'[p][i].seq
      <4>1. j + 1 \in 1 .. i + 1 - 1 /\ wire'[p][j] = wire[p][j + 1]
        BY <1>2
      <4> QED BY <3>1, <3>2, <3>4, <4>1
    <3> QED BY <1>5, <3>1, <3>2, <3>3, <3>4
  <2> QED BY <2>1, <2>2 DEF OrderOK
<1>7. ShownOK(p)'
  <2> DEFINE n == Len(page[p].shown)
  <2>1. /\ n \in Nat /\ log' = log
        /\ \A i \in 1 .. n : page[p].shown[i] \in Nat
    BY <1>1, LenProperties, ElementOfSeq DEF Receive
  <2>2. page[p].cursor <= page'[p].cursor /\ page'[p].cursor \in Nat
    BY <1>1, <1>4
  <2>3. CASE Frame(p).pos = 0
    <3>1. page'[p].shown = page[p].shown
      BY <2>3, ReceiveFacts
    <3> QED BY <1>1, <2>1, <2>2, <3>1 DEF ShownOK
  <2>4. CASE Frame(p).pos # 0
    <3>1. page'[p].shown = Append(page[p].shown, Frame(p).pos) /\ Frame(p).pos \in Nat
      BY <2>4, ReceiveFacts
    <3>2. /\ Len(page'[p].shown) = n + 1 /\ page'[p].shown[n + 1] = Frame(p).pos
          /\ \A i \in 1 .. n : page'[p].shown[i] = page[p].shown[i]
      BY <1>1, <3>1, AppendFacts
    <3>3. log[Frame(p).pos] # "error" => Frame(p).seq # None
      BY <1>2, <2>4, NoneAssumption DEF EventOK
    <3>4. ASSUME NEW i \in 1 .. n + 1, log[page'[p].shown[i]] # "error"
          PROVE  /\ page'[p].shown[i] <= page'[p].cursor
                 /\ \A j \in 1 .. i - 1 :
                        log[page'[p].shown[j]] # "error" => page'[p].shown[j] < page'[p].shown[i]
      <4>1. \A j \in 1 .. i - 1 : j \in 1 .. n /\ page'[p].shown[j] = page[p].shown[j]
        BY <2>1, <3>2
      <4>2. CASE i \in 1 .. n
        <5>1. page'[p].shown[i] = page[p].shown[i] /\ page[p].shown[i] \in Nat
          BY <2>1, <3>2, <4>2
        <5>2. /\ page[p].shown[i] <= page[p].cursor
              /\ \A j \in 1 .. i - 1 :
                     log[page[p].shown[j]] # "error" => page[p].shown[j] < page[p].shown[i]
          BY <3>4, <4>2, <5>1 DEF ShownOK
        <5>3. page[p].shown[i] <= page'[p].cursor
          BY <1>1, <2>2, <5>1, <5>2
        <5> QED BY <4>1, <5>1, <5>2, <5>3
      <4>3. CASE i = n + 1
        <5>1. /\ page'[p].shown[i] = Frame(p).pos /\ Frame(p).pos = page'[p].cursor
              /\ page[p].cursor < Frame(p).pos
          BY <1>4, <3>2, <3>3, <3>4, <4>3
        <5>2. ASSUME NEW j \in 1 .. i - 1, log[page'[p].shown[j]] # "error"
              PROVE  page'[p].shown[j] < page'[p].shown[i]
          <6>1. page[p].shown[j] <= page[p].cursor /\ page[p].shown[j] \in Nat
            BY <2>1, <4>1, <5>2 DEF ShownOK
          <6>2. page'[p].shown[j] = page[p].shown[j]
            BY <4>1
          <6>3. Frame(p).pos \in Nat /\ page[p].cursor \in Nat
            BY <1>1, <3>1
          <6>4. page[p].shown[j] < Frame(p).pos
            BY <5>1, <6>1, <6>3
          <6> QED BY <5>1, <6>2, <6>4
        <5> QED BY <2>2, <5>1, <5>2
      <4> QED BY <2>1, <4>2, <4>3
    <3> HIDE DEF n
    <3> QED BY <2>1, <3>2, <3>4 DEF ShownOK
  <2> QED BY <2>3, <2>4
<1> QED BY <1>6, <1>7

LEMMA StepOrder ==
    ASSUME TypeInv, OrderInv, Next
    PROVE  OrderInv'
<1> SUFFICES ASSUME NEW p \in Pages
             PROVE  OrderOK(p)' /\ ShownOK(p)'
  BY DEF OrderInv
<1>1. LogGrows /\ TypeInv' /\ OrderOK(p) /\ ShownOK(p)
  BY StepTypeInv DEF OrderInv
<1>2. /\ PlaceOK(p) /\ stream \in [Pages -> StreamState] /\ wire \in [Pages -> Seq(Event)]
      /\ page \in [Pages -> [shown : Seq(Nat), cursor : Nat]]
      /\ stream[p].delivered \in Nat /\ page[p].cursor \in Nat /\ Len(<<>>) = 0
  BY EmptySeq DEF TypeInv, TypeOK, StreamState
<1>3. CASE UNCHANGED <<stream[p], wire[p], page[p]>>
  BY <1>1, <1>3, ShownStays DEF OrderOK
<1>4. ASSUME NEW t \in Threads, Start(t) \/ Work(t) \/ Fail(t) \/ Note(t)
      PROVE  UNCHANGED <<stream, wire, page>>
  BY <1>4 DEF Start, Work, Fail, Note, Step, Stop, AppendEvent, Token, PublishTo, Put,
              Published, Finish
<1>5. ASSUME NEW q \in Pages, q # p, Serve(q) \/ Receive(q) \/ Visit(q)
      PROVE  UNCHANGED <<stream[p], wire[p], page[p]>>
  BY <1>2, <1>5 DEF Serve, Visit, Fetch, ReplayRow, Send, CheckRunning, Live, IdleTimeout,
                    Receive, Open, Close, Reload
<1>6. CASE Fetch(p) \/ CheckRunning(p) \/ IdleTimeout(p)
  <2>1. /\ stream[p].pc # "closed" /\ stream'[p].delivered = stream[p].delivered
        /\ UNCHANGED <<wire, page>>
    <3>1. \/ Fetch(p) /\ stream' = [stream EXCEPT ![p].pc = "replay", ![p].upto = Len(log)]
          \/ \E pc : stream' = [stream EXCEPT ![p].pc = pc]
      BY <1>6 DEF Fetch, CheckRunning, IdleTimeout
    <3>2. stream'[p].delivered = stream[p].delivered
      BY <1>2, <3>1 DEF StreamState
    <3> QED BY <1>6, <3>2 DEF Fetch, CheckRunning, IdleTimeout
  <2> QED BY <1>1, <2>1, OrderStays, ShownStays
<1>7. CASE ReplayRow(p)
  <2> DEFINE pos == stream[p].delivered + 1
             ev == [pos |-> pos, seq |-> pos, type |-> log[pos]]
  <2>1. /\ ev \in Event /\ EventOK(ev, log) /\ Send(p, ev) /\ ev.seq = pos /\ pos \in Nat
        /\ stream' = [stream EXCEPT ![p].delivered = pos]
    BY <1>7, RowFacts
  <2>2. stream'[p].delivered = pos /\ stream[p].pc # "closed" /\ UNCHANGED page
    BY <1>2, <1>7, <2>1 DEF ReplayRow
  <2>3. /\ stream[p].delivered < pos /\ pos <= pos /\ stream[p].delivered <= pos
        /\ stream'[p].delivered \in Nat
        /\ ev.seq # None => stream[p].delivered < ev.seq /\ ev.seq <= stream'[p].delivered
    BY <1>2, <2>2
  <2> HIDE DEF ev, pos
  <2>4. OrderOK(p)'
    BY <1>1, <1>2, <2>1, <2>2, <2>3, OrderSend
  <2> QED BY <1>1, <2>2, <2>4, ShownStays
<1>8. CASE Live(p)
  <2>1. UNCHANGED page /\ stream[p].pc # "closed" /\ stream'[p].delivered \in Nat
    BY <1>8, LiveFacts DEF Live, StreamState
  <2>2. Front(p) \in Event /\ EventOK(Front(p), log)
    BY <1>8, HeadFacts, LiveFacts
  <2>3. /\ stream[p].delivered <= stream'[p].delivered
        /\ Delivers(p) => stream[p].delivered < Front(p).seq /\ Front(p).seq <= stream'[p].delivered
    BY <1>2, <1>8, <2>1, LiveFacts DEF Delivers
  <2>4. OrderOK(p)'
    <3>1. CASE UNCHANGED wire /\ ~Delivers(p)
      BY <1>1, <1>8, <2>1, <3>1, LiveFacts, OrderStays
    <3>2. CASE Send(p, Front(p)) /\ (Front(p).seq # None => Delivers(p))
      BY <1>1, <2>1, <2>2, <2>3, <3>2, OrderSend
    <3>3. CASE ~Delivers(p) /\ Front(p).seq # None
      <4>1. Front(p).seq <= stream[p].delivered
        BY <3>3 DEF Delivers
      <4>2. UNCHANGED wire
        BY <1>8, <3>3, <4>1 DEF Live, Front
      <4> QED BY <3>1, <3>3, <4>2
    <3> QED BY <1>8, <3>1, <3>2, <3>3, LiveFacts
  <2> QED BY <1>1, <2>1, <2>4, ShownStays
<1>9. CASE Open(p)
  <2>1. stream'[p].delivered = page[p].cursor /\ wire'[p] = <<>> /\ UNCHANGED page
    BY <1>2, <1>9 DEF Open, PlaceOK
  <2> QED BY <1>1, <1>2, <2>1, ShownStays DEF OrderOK
<1>10. CASE Close(p) \/ Crash
  <2>1. stream'[p] = Closed /\ wire'[p] = <<>> /\ UNCHANGED page
    BY <1>2, <1>10 DEF Close, Crash
  <2> QED BY <1>1, <1>2, <2>1, ShownStays DEF OrderOK, Closed
<1>11. CASE Reload(p)
  <2>1. page'[p] = FreshPage /\ wire'[p] = <<>> /\ stream'[p].pc = "closed"
    BY <1>2, <1>11 DEF Reload, PlaceOK
  <2> QED BY <1>2, <2>1 DEF OrderOK, ShownOK, FreshPage
<1>12. CASE Receive(p)
  BY <1>1, <1>12, ReceiveOrder
<1> QED BY <1>3, <1>4, <1>5, <1>6, <1>7, <1>8, <1>9, <1>10, <1>11, <1>12 DEF Next, Serve, Visit

(* A page sees the case advance in the order of the log and sees no step     *)
(* twice, whoever appends, and however streams are cut and opened again      *)
(* (app/main.py, events; Resolve.jsx).                                            *)
THEOREM ShownCorrect == Spec => []ShownInOrder
<1>1. TypeInv /\ OrderInv => ShownInOrder
  <2> SUFFICES ASSUME TypeInv, OrderInv, NEW p \in Pages,
                      NEW i \in DOMAIN page[p].shown, NEW j \in DOMAIN page[p].shown, i < j,
                      log[page[p].shown[i]] # "error", log[page[p].shown[j]] # "error"
               PROVE  page[p].shown[i] < page[p].shown[j]
    BY DEF ShownInOrder
  <2>1. page[p].shown \in Seq(Nat)
    BY DEF TypeInv, TypeOK
  <2>2. j \in 1 .. Len(page[p].shown) /\ i \in 1 .. j - 1
    BY <2>1, LenProperties, SMTT(60)
  <2> QED BY <2>2 DEF OrderInv, ShownOK
<1>2. Init => TypeInv /\ OrderInv
  BY InitTypeInv, InitOrder
<1>3. TypeInv /\ OrderInv /\ [Next]_vars => OrderInv'
  <2>1. OrderInv /\ UNCHANGED vars => OrderInv'
    BY DEF OrderInv, OrderOK, ShownOK, vars
  <2> QED BY <2>1, StepOrder
<1> QED BY <1>1, <1>2, <1>3, TypeInvCorrect, PTL DEF Spec

-----------------------------------------------------------------------------
(* One writer: when no thread but the agents' appends while a page watches,  *)
(* the claim in jobs._running lets one thread at a time have events in hand.  *)
OneWriter == Others \subseteq Quiet

WriterInv ==
    /\ \A t \in Quiet : thread[t].pc = "idle"
    /\ \A t \in Threads : thread[t].pc # "idle" => running
    /\ \A t, u \in Threads : thread[t].pc # "idle" /\ thread[u].pc # "idle" => t = u

LEMMA InitWriter ==
    ASSUME Init
    PROVE  WriterInv
BY QuietAssumption DEF Init, WriterInv, Idle, Threads

(* Steps of a thread that is at work, and steps of the streams. *)
LEMMA SameThreads ==
    ASSUME TypeInv, WriterInv, running' = running,
           \A t \in Threads : (thread'[t].pc = "idle") = (thread[t].pc = "idle")
    PROVE  WriterInv'
BY QuietAssumption DEF WriterInv, Threads

LEMMA StepWriter ==
    ASSUME OneWriter, TypeInv, WriterInv, Next
    PROVE  WriterInv'
<1>0. thread \in [Threads -> ThreadState] /\ Quiet \subseteq Threads
  BY QuietAssumption DEF TypeInv, TypeOK, Threads
<1>1. ASSUME NEW t \in Threads, Start(t)
      PROVE  WriterInv'
  <2>1. t \in Agents /\ t \notin Quiet
    BY <1>1 DEF Start, OneWriter, Threads
  <2>2. /\ thread' = [thread EXCEPT ![t] = [Idle EXCEPT !.pc = "work"]]
        /\ running' /\ \A u \in Threads : thread[u].pc = "idle"
    BY <1>1, <2>1 DEF Start, WriterInv
  <2>3. \A u \in Threads \ {t} : thread'[u].pc = "idle"
    BY <1>0, <2>2
  <2> QED BY <1>0, <2>1, <2>2, <2>3 DEF WriterInv
<1>2. ASSUME NEW t \in Threads, Finish(t)
      PROVE  WriterInv'
  <2>1. \A u \in Threads : thread'[u].pc = "idle"
    BY <1>0, <1>2 DEF Finish, WriterInv, Idle
  <2> QED BY <1>0, <2>1 DEF WriterInv
<1>3. CASE Crash
  <2>1. \A u \in Threads : thread'[u].pc = "idle"
    BY <1>3 DEF Crash, Idle
  <2> QED BY <1>0, <2>1 DEF WriterInv
<1>4. ASSUME NEW t \in Threads,
             \/ Step(t) \/ Stop(t) \/ Fail(t) \/ Token(t) \/ PublishTo(t) \/ Published(t)
             \/ Note(t) \/ \E p \in Pages : Put(t, p)
      PROVE  WriterInv'
  <2>1. running' = running
    BY <1>4 DEF Step, Stop, Fail, AppendEvent, Token, PublishTo, Published, Note, Put
  <2>2. ASSUME NEW u \in Threads
        PROVE  (thread'[u].pc = "idle") = (thread[u].pc = "idle")
    <3>1. CASE u # t
      BY <1>0, <1>4, <3>1 DEF Step, Stop, Fail, AppendEvent, Token, PublishTo, Published, Note, Put
    <3>2. CASE u = t
      <4>1. CASE Step(t) \/ Stop(t) \/ Fail(t)
        BY <1>0, <3>2, <4>1 DEF Step, Stop, Fail, AppendEvent, ThreadState
      <4>2. CASE Token(t) \/ PublishTo(t) \/ Note(t)
        BY <1>0, <3>2, <4>2 DEF Token, PublishTo, Note, ThreadState
      <4>3. CASE Published(t) \/ \E p \in Pages : Put(t, p)
        BY <1>0, <3>2, <4>3 DEF Published, Put, ThreadState
      <4> QED BY <1>4, <4>1, <4>2, <4>3
    <3> QED BY <3>1, <3>2
  <2> QED BY <2>1, <2>2, SameThreads
<1>5. ASSUME NEW p \in Pages, Serve(p) \/ Receive(p) \/ Visit(p)
      PROVE  WriterInv'
  <2>1. running' = running
    BY <1>5 DEF Serve, Visit, Fetch, ReplayRow, CheckRunning, Live, IdleTimeout, Receive, Open,
                Close, Reload
  <2>2. UNCHANGED thread \/ Unsubscribe(p)
    BY <1>5 DEF Serve, Visit, Fetch, ReplayRow, CheckRunning, Live, IdleTimeout, Receive, Open,
                Close, Reload
  <2>3. \A u \in Threads : thread'[u].pc = thread[u].pc
    BY <2>2, UnsubscribeType
  <2> QED BY <2>1, <2>3, SameThreads
<1> QED BY <1>1, <1>2, <1>3, <1>4, <1>5 DEF Next, Work

-----------------------------------------------------------------------------
(* What is missing from a page is on its way.                                *)

(* Thread t still has its event to put in p's queue. *)
Pending(t, p) ==
    \/ thread[t].pc = "publish"
    \/ thread[t].pc = "put" /\ p \in thread[t].targets

(* p's queue is in the order of the log, and what is pending comes last. *)
QueueOK(p) ==
    /\ stream[p].pc \in {"fetch", "replay", "live"} => p \in subs
    /\ \A i \in 1 .. Len(inbox[p]) : \A j \in 1 .. i - 1 :
           inbox[p][i].pos # 0 => inbox[p][j].pos < inbox[p][i].pos
    /\ \A t \in Threads : Pending(t, p) /\ thread[t].ev.pos # 0 =>
           \A i \in 1 .. Len(inbox[p]) : inbox[p][i].pos < thread[t].ev.pos

(* What the log has beyond what a stream replays or has delivered is in its  *)
(* queue, or pending.                                                        *)
Arrives(p, n) ==
    \/ \E i \in 1 .. Len(inbox[p]) : inbox[p][i].pos = n
    \/ \E t \in Threads : Pending(t, p) /\ thread[t].ev.pos = n

Awaits(p, n) ==
    \/ stream[p].pc = "live" /\ stream[p].delivered < n
    \/ stream[p].pc = "replay" /\ stream[p].upto < n

CoveredOK(p) == \A n \in 1 .. Len(log) : Awaits(p, n) => Arrives(p, n)

(* What the stream has delivered and the page has not seen is on the wire. *)
WireComplete(p) ==
    stream[p].pc # "closed" =>
        \A n \in 1 .. Len(log) :
            page[p].cursor < n /\ n <= stream[p].delivered =>
                \E i \in 1 .. Len(wire[p]) : wire[p][i].seq = n

PageComplete(p) ==
    \A n \in 1 .. page[p].cursor :
        \E i \in 1 .. Len(page[p].shown) : page[p].shown[i] = n

Complete(p) == QueueOK(p) /\ CoveredOK(p) /\ WireComplete(p) /\ PageComplete(p)

CompleteInv == \A p \in Pages : Complete(p)

OneWriterInv == TypeInv /\ OrderInv /\ WriterInv /\ CompleteInv

LEMMA InitComplete ==
    ASSUME Init
    PROVE  CompleteInv
<1>1. Len(<<>>) = 0
  BY EmptySeq
<1> QED BY <1>1 DEF Init, CompleteInv, Complete, QueueOK, CoveredOK, Awaits, WireComplete,
               PageComplete, Pending, Idle, Closed, FreshPage

LEMMA WireStays ==
    ASSUME TypeInv, LogGrows, NEW p \in Pages, WireComplete(p), UNCHANGED <<wire[p], page[p]>>,
           stream'[p].pc # "closed" =>
               stream[p].pc # "closed" /\ stream'[p].delivered = stream[p].delivered
    PROVE  WireComplete(p)'
<1>1. stream[p].delivered \in Nat /\ stream[p].delivered <= Len(log) /\ page[p].cursor \in Nat
  BY DEF TypeInv, TypeOK, StreamState, PlaceOK
<1>2. \A n \in 1 .. Len(log') : n <= stream[p].delivered => n \in 1 .. Len(log)
  BY <1>1 DEF LogGrows
<1> QED BY <1>2 DEF WireComplete

LEMMA QueueStays ==
    ASSUME NEW p \in Pages, QueueOK(p), inbox'[p] = inbox[p],
           stream'[p].pc \in {"fetch", "replay", "live"} => p \in subs',
           \A t \in Threads : Pending(t, p)' => Pending(t, p) /\ thread'[t].ev = thread[t].ev
    PROVE  QueueOK(p)'
BY DEF QueueOK

LEMMA CoveredStays ==
    ASSUME NEW p \in Pages, CoveredOK(p), log' = log,
           \A n \in 1 .. Len(log) : Awaits(p, n)' => Awaits(p, n),
           \A n \in 1 .. Len(log) : Awaits(p, n) /\ Arrives(p, n) => Arrives(p, n)'
    PROVE  CoveredOK(p)'
BY DEF CoveredOK

(* Steps that are no concern of page p. *)
LEMMA PageApart ==
    ASSUME TypeInv, NEW p \in Pages, Complete(p), log' = log,
           UNCHANGED <<inbox[p], stream[p], wire[p], page[p]>>,
           p \in subs => p \in subs',
           \A t \in Threads : Pending(t, p)' = Pending(t, p),
           \A t \in Threads : Pending(t, p) => thread'[t].ev = thread[t].ev
    PROVE  Complete(p)'
<1>1. QueueOK(p) /\ CoveredOK(p) /\ WireComplete(p) /\ PageComplete(p)
  BY DEF Complete
<1>2. QueueOK(p)'
  <2>1. stream'[p].pc \in {"fetch", "replay", "live"} => p \in subs'
    BY <1>1 DEF QueueOK
  <2> QED BY <1>1, <2>1, QueueStays
<1>3. \A n \in 1 .. Len(log) : Awaits(p, n)' => Awaits(p, n)
  BY DEF Awaits
<1>4. \A n \in 1 .. Len(log) : Awaits(p, n) /\ Arrives(p, n) => Arrives(p, n)'
  BY DEF Arrives
<1>5. CoveredOK(p)'
  BY <1>1, <1>3, <1>4, CoveredStays
<1>6. WireComplete(p)'
  BY <1>1, LogKept, WireStays DEF TypeInv
<1>7. PageComplete(p)'
  BY <1>1 DEF PageComplete
<1> QED BY <1>2, <1>5, <1>6, <1>7 DEF Complete

-----------------------------------------------------------------------------
(* The threads, with one writer. *)

LEMMA IdleComplete ==
    ASSUME TypeInv, CompleteInv, NEW t \in Threads, Start(t) \/ Published(t) \/ Finish(t)
    PROVE  CompleteInv'
<1> SUFFICES ASSUME NEW p \in Pages PROVE Complete(p)'
  BY DEF CompleteInv
<1>1. UNCHANGED <<log, subs, inbox, stream, wire, page>>
  BY DEF Start, Published, Finish
<1>2. ~Pending(t, p) /\ ~Pending(t, p)' /\ \A u \in Threads \ {t} : thread'[u] = thread[u]
  BY DEF Start, Published, Finish, Pending, TypeInv, TypeOK, ThreadState, Idle
<1>3. \A u \in Threads : /\ Pending(u, p)' = Pending(u, p)
                         /\ Pending(u, p) => thread'[u].ev = thread[u].ev
  BY <1>2 DEF Pending
<1> QED BY <1>1, <1>3, PageApart DEF CompleteInv

(* Thread t has a new event in hand, which is the log's last if it has a place there. *)
LEMMA InHandComplete ==
    ASSUME TypeInv, LogGrows, CompleteInv, NEW t \in Threads, NEW ev \in Event,
           thread[t].pc \in {"work", "done"},
           thread'[t].pc = "publish", thread'[t].ev = ev,
           \A u \in Threads \ {t} : thread'[u] = thread[u],
           UNCHANGED <<subs, inbox, stream, wire, page>>,
           \/ log' = log /\ ev.pos = 0
           \/ Len(log') = Len(log) + 1 /\ ev.pos = Len(log')
    PROVE  CompleteInv'
<1> SUFFICES ASSUME NEW p \in Pages PROVE Complete(p)'
  BY DEF CompleteInv
<1>1. QueueOK(p) /\ CoveredOK(p) /\ WireComplete(p) /\ PageComplete(p) /\ PlaceOK(p)
  BY DEF CompleteInv, Complete, TypeInv
<1>2. ~Pending(t, p) /\ Pending(t, p)'
  BY DEF Pending
<1>3. \A u \in Threads \ {t} : Pending(u, p)' = Pending(u, p)
  BY DEF Pending
<1>4. QueueOK(p)'
  <2>1. ASSUME NEW u \in Threads, Pending(u, p)', thread'[u].ev.pos # 0,
               NEW i \in 1 .. Len(inbox[p])
        PROVE  inbox[p][i].pos < thread'[u].ev.pos
    <3>1. CASE u = t
      <4>1. ev.pos = Len(log) + 1 /\ EventOK(inbox[p][i], log) /\ Len(log) \in Nat
        BY <1>1, <2>1, <3>1 DEF PlaceOK, LogGrows
      <4> QED BY <3>1, <4>1 DEF EventOK
    <3>2. CASE u # t
      BY <1>1, <1>3, <2>1, <3>2 DEF QueueOK
    <3> QED BY <3>1, <3>2
  <2> QED BY <1>1, <2>1 DEF QueueOK
<1>5. CoveredOK(p)'
  <2> SUFFICES ASSUME NEW n \in 1 .. Len(log'), Awaits(p, n)'
               PROVE  Arrives(p, n)'
    BY DEF CoveredOK
  <2>1. CASE n \in 1 .. Len(log)
    <3>1. Arrives(p, n)
      BY <1>1, <2>1 DEF CoveredOK, Awaits
    <3> QED BY <1>2, <1>3, <3>1 DEF Arrives
  <2>2. CASE n \notin 1 .. Len(log)
    <3>1. ev.pos = n
      BY <2>2 DEF LogGrows
    <3> QED BY <1>2, <3>1 DEF Arrives
  <2> QED BY <2>1, <2>2
<1>6. WireComplete(p)'
  BY <1>1, WireStays
<1>7. PageComplete(p)'
  BY <1>1 DEF PageComplete
<1> QED BY <1>4, <1>5, <1>6, <1>7 DEF Complete

LEMMA AppendComplete ==
    ASSUME TypeInv, CompleteInv, NEW t \in Threads, Step(t) \/ Stop(t) \/ Fail(t) \/ Token(t)
    PROVE  CompleteInv'
<1>0. TypeInv' /\ LogGrows
  BY AppendEventType, TokenType DEF Step, Stop, Fail, Type
<1>1. /\ thread[t].pc \in {"work", "done"} /\ thread'[t].pc = "publish"
      /\ \A u \in Threads \ {t} : thread'[u] = thread[u]
      /\ UNCHANGED <<subs, inbox, stream, wire, page>>
  BY DEF Step, Stop, Fail, Token, AppendEvent, TypeInv, TypeOK, ThreadState
<1>2. thread'[t].ev \in Event
  BY <1>0, <1>1 DEF TypeInv, ThreadOK, EventOK
<1>3. CASE Step(t) \/ Stop(t) \/ Fail(t)
  <2>1. PICK type \in Type, stamped \in BOOLEAN : AppendEvent(t, type, stamped)
    BY <1>3 DEF Step, Stop, Fail, Type
  <2>2. Len(log') = Len(log) + 1
    BY <2>1, LogAppended DEF AppendEvent, TypeInv
  <2>3. thread'[t].ev.pos = Len(log) + 1
    BY <2>1 DEF AppendEvent, TypeInv, TypeOK, ThreadState
  <2> QED BY <1>0, <1>1, <1>2, <2>2, <2>3, InHandComplete
<1>4. CASE Token(t)
  <2>1. log' = log /\ thread'[t].ev.pos = 0
    BY <1>4 DEF Token, TypeInv, TypeOK, ThreadState
  <2> QED BY <1>0, <1>1, <1>2, <2>1, InHandComplete
<1> QED BY <1>3, <1>4

LEMMA NoteComplete ==
    ASSUME OneWriter, TypeInv, CompleteInv, NEW t \in Threads, Note(t)
    PROVE  CompleteInv'
<1> SUFFICES ASSUME NEW p \in Pages PROVE Complete(p)'
  BY DEF CompleteInv
<1>1. LogGrows /\ subs = {} /\ UNCHANGED <<running, thread, subs, inbox, stream, wire, page>>
  BY NoteType DEF Note, OneWriter
<1>2. QueueOK(p) /\ CoveredOK(p) /\ WireComplete(p) /\ PageComplete(p)
  BY DEF CompleteInv, Complete
<1>3. stream[p].pc \notin {"fetch", "replay", "live"}
  BY <1>1, <1>2 DEF QueueOK
<1>4. QueueOK(p)' /\ PageComplete(p)'
  BY <1>1, <1>2 DEF QueueOK, Pending, PageComplete
<1>5. CoveredOK(p)'
  BY <1>1, <1>3 DEF CoveredOK, Awaits
<1>6. WireComplete(p)'
  BY <1>1, <1>2, WireStays
<1> QED BY <1>4, <1>5, <1>6 DEF Complete

LEMMA PublishComplete ==
    ASSUME TypeInv, CompleteInv, NEW t \in Threads, PublishTo(t)
    PROVE  CompleteInv'
<1> SUFFICES ASSUME NEW p \in Pages PROVE Complete(p)'
  BY DEF CompleteInv
<1>1. UNCHANGED <<log, subs, inbox, stream, wire, page>> /\ LogGrows
  BY LogKept DEF PublishTo, TypeInv
<1>2. QueueOK(p) /\ CoveredOK(p) /\ WireComplete(p) /\ PageComplete(p)
  BY DEF CompleteInv, Complete
<1>3. /\ Pending(t, p) /\ (p \in subs => Pending(t, p)') /\ thread'[t].ev = thread[t].ev
      /\ \A u \in Threads \ {t} : thread'[u] = thread[u]
  BY DEF PublishTo, Pending, TypeInv, TypeOK, ThreadState
<1>4. \A u \in Threads : /\ thread'[u].ev = thread[u].ev
                         /\ Pending(u, p)' => Pending(u, p)
                         /\ p \in subs => Pending(u, p)' = Pending(u, p)
  BY <1>3 DEF Pending
<1>5. QueueOK(p)'
  <2>1. stream'[p].pc \in {"fetch", "replay", "live"} => p \in subs'
    BY <1>1, <1>2 DEF QueueOK
  <2> QED BY <1>1, <1>2, <1>4, <2>1, QueueStays
<1>6. \A n \in 1 .. Len(log) : Awaits(p, n)' => Awaits(p, n)
  BY <1>1 DEF Awaits
<1>7. \A n \in 1 .. Len(log) : Awaits(p, n) /\ Arrives(p, n) => Arrives(p, n)'
  BY <1>1, <1>2, <1>4 DEF Awaits, Arrives, QueueOK
<1>8. CoveredOK(p)'
  BY <1>1, <1>2, <1>6, <1>7, CoveredStays
<1>9. WireComplete(p)' /\ PageComplete(p)'
  BY <1>1, <1>2, WireStays DEF PageComplete
<1> QED BY <1>5, <1>8, <1>9 DEF Complete

LEMMA PutComplete ==
    ASSUME TypeInv, WriterInv, CompleteInv, NEW t \in Threads, NEW q \in Pages, Put(t, q)
    PROVE  CompleteInv'
<1> SUFFICES ASSUME NEW p \in Pages PROVE Complete(p)'
  BY DEF CompleteInv
<1>1. UNCHANGED <<log, running, subs, stream, wire, page>> /\ LogGrows
  BY LogKept DEF Put, TypeInv
<1>2. QueueOK(p) /\ CoveredOK(p) /\ WireComplete(p) /\ PageComplete(p) /\ Complete(p)
  BY DEF CompleteInv, Complete
<1>3. /\ thread[t].pc = "put" /\ q \in thread[t].targets
      /\ thread'[t].pc = "put" /\ thread'[t].ev = thread[t].ev
      /\ thread'[t].targets = thread[t].targets \ {q}
      /\ \A u \in Threads \ {t} : thread'[u] = thread[u]
  BY DEF Put, TypeInv, TypeOK, ThreadState
<1>4. /\ inbox'[q] = Append(inbox[q], thread[t].ev) /\ inbox[q] \in Seq(Event)
      /\ \A r \in Pages \ {q} : inbox'[r] = inbox[r]
      /\ EventOK(thread[t].ev, log) /\ thread[t].ev \in Event
  BY DEF Put, TypeInv, TypeOK, ThreadOK, EventOK
<1>5. CASE p # q
  <2>1. \A u \in Threads : Pending(u, p)' = Pending(u, p) /\ thread'[u].ev = thread[u].ev
    BY <1>3, <1>5 DEF Pending
  <2> QED BY <1>1, <1>2, <1>4, <1>5, <2>1, PageApart
<1>6. CASE p = q
  <2> DEFINE n == Len(inbox[p])
             ev == thread[t].ev
  <2>1. /\ n \in Nat /\ Len(inbox'[p]) = n + 1 /\ inbox'[p][n + 1] = ev
        /\ \A i \in 1 .. n : inbox'[p][i] = inbox[p][i]
    BY <1>4, <1>6, AppendFacts
  <2>2. /\ Pending(t, p) /\ ~Pending(t, p)'
        /\ \A u \in Threads \ {t} : ~Pending(u, p) /\ ~Pending(u, p)'
    BY <1>3, <1>6 DEF Pending, WriterInv
  <2>3. /\ ev.pos \in Nat
        /\ \A i \in 1 .. n : inbox[p][i].pos \in Nat /\ (ev.pos # 0 => inbox[p][i].pos < ev.pos)
    <3>1. \A i \in 1 .. n : EventOK(inbox[p][i], log)
      BY DEF TypeInv, PlaceOK
    <3> QED BY <1>2, <1>4, <2>2, <3>1 DEF QueueOK, EventOK, Event
  <2> HIDE DEF n, ev
  <2>4. QueueOK(p)'
    <3>1. ASSUME NEW i \in 1 .. n + 1, NEW j \in 1 .. i - 1, inbox'[p][i].pos # 0
          PROVE  inbox'[p][j].pos < inbox'[p][i].pos
      <4>1. j \in 1 .. n /\ inbox'[p][j] = inbox[p][j]
        BY <2>1
      <4>2. CASE i = n + 1
        BY <2>1, <2>3, <3>1, <4>1, <4>2
      <4>3. CASE i # n + 1
        <5>1. i \in 1 .. n /\ inbox'[p][i] = inbox[p][i]
          BY <2>1, <4>3
        <5> QED BY <1>2, <3>1, <4>1, <5>1 DEF QueueOK, n
      <4> QED BY <4>2, <4>3
    <3>2. stream'[p].pc \in {"fetch", "replay", "live"} => p \in subs'
      BY <1>1, <1>2 DEF QueueOK
    <3> QED BY <2>1, <2>2, <3>1, <3>2 DEF QueueOK
  <2>5. \A k \in 1 .. Len(log) : Arrives(p, k) => Arrives(p, k)'
    <3> SUFFICES ASSUME NEW k \in 1 .. Len(log), Arrives(p, k)
                 PROVE  \E i \in 1 .. n + 1 : inbox'[p][i].pos = k
      BY <2>1 DEF Arrives
    <3>1. CASE \E i \in 1 .. n : inbox[p][i].pos = k
      BY <2>1, <3>1
    <3>2. CASE ev.pos = k
      BY <2>1, <3>2
    <3> QED BY <2>2, <3>1, <3>2 DEF Arrives, n, ev
  <2>6. CoveredOK(p)'
    BY <1>1, <1>2, <2>5, CoveredStays DEF Awaits
  <2>7. WireComplete(p)' /\ PageComplete(p)'
    BY <1>1, <1>2, WireStays DEF PageComplete
  <2> QED BY <2>4, <2>6, <2>7 DEF Complete
<1> QED BY <1>5, <1>6

-----------------------------------------------------------------------------
(* The streams and the pages, with one writer. *)

LEMMA UnsubscribePending ==
    ASSUME TypeInv, NEW p \in Pages, Unsubscribe(p), NEW t \in Threads
    PROVE  /\ thread'[t].ev = thread[t].ev
           /\ \A q \in Pages : Pending(t, q)' => Pending(t, q)
           /\ \A q \in Pages \ {p} : Pending(t, q)' = Pending(t, q)
<1>1. thread[t] \in ThreadState
  BY DEF TypeInv, TypeOK
<1>2. thread'[t] = [thread[t] EXCEPT !.targets = @ \ {p}]
  BY DEF Unsubscribe
<1>3. /\ thread'[t].ev = thread[t].ev /\ thread'[t].pc = thread[t].pc
      /\ thread'[t].targets = thread[t].targets \ {p}
  BY <1>1, <1>2 DEF ThreadState
<1> QED BY <1>3 DEF Pending

LEMMA OtherPage ==
    ASSUME TypeInv, CompleteInv, NEW p \in Pages, NEW q \in Pages, p # q,
           Serve(q) \/ Receive(q) \/ Visit(q)
    PROVE  Complete(p)'
<1>1. UNCHANGED <<log, stream[p], wire[p], page[p]>>
  BY DEF TypeInv, TypeOK, Serve, Visit, Fetch, ReplayRow, Send, CheckRunning, Live, IdleTimeout,
         Receive, Open, Close, Reload
<1>2. \/ Unsubscribe(q)
      \/ /\ UNCHANGED thread /\ subs \subseteq subs'
         /\ inbox' = inbox \/ inbox' = [inbox EXCEPT ![q] = Tail(@)]
  BY DEF Serve, Visit, Fetch, ReplayRow, CheckRunning, Live, IdleTimeout, Receive, Open, Close, Reload
<1>3. inbox'[p] = inbox[p] /\ (p \in subs => p \in subs')
  BY <1>2, UnsubscribeType DEF TypeInv, TypeOK, Unsubscribe
<1>4. \A t \in Threads : Pending(t, p)' = Pending(t, p) /\ thread'[t].ev = thread[t].ev
  BY <1>2, UnsubscribePending DEF Pending
<1> QED BY <1>1, <1>3, <1>4, PageApart DEF CompleteInv

(* A stream that has left the bus has nothing more to come. *)
LEMMA LeftComplete ==
    ASSUME TypeInv, NEW p \in Pages, Unsubscribe(p), stream'[p].pc \in {"ended", "closed"},
           WireComplete(p)', PageComplete(p)'
    PROVE  Complete(p)'
<1>1. inbox'[p] = <<>> /\ Len(<<>>) = 0
  BY UnsubscribeType, EmptySeq
<1> QED BY <1>1 DEF Complete, QueueOK, CoveredOK, Awaits

LEMMA CrashComplete ==
    ASSUME TypeInv, CompleteInv, Crash
    PROVE  CompleteInv'
<1>1. Len(<<>>) = 0
  BY EmptySeq
<1> QED BY <1>1 DEF Crash, CompleteInv, Complete, QueueOK, CoveredOK, Awaits, WireComplete,
               PageComplete, Pending, Idle, Closed

LEMMA VisitComplete ==
    ASSUME TypeInv, CompleteInv, NEW p \in Pages, Visit(p)
    PROVE  Complete(p)'
<1>1. /\ QueueOK(p) /\ CoveredOK(p) /\ WireComplete(p) /\ PageComplete(p) /\ PlaceOK(p)
      /\ stream \in [Pages -> StreamState] /\ page[p].cursor \in Nat
      /\ page \in [Pages -> [shown : Seq(Nat), cursor : Nat]]
  BY DEF CompleteInv, Complete, TypeInv, TypeOK
<1>2. CASE Open(p)
  <2>1. /\ stream'[p].pc = "fetch" /\ stream'[p].delivered = page[p].cursor
        /\ p \in subs' /\ UNCHANGED <<log, thread, inbox, wire, page>>
    BY <1>1, <1>2 DEF Open
  <2>2. QueueOK(p)' /\ CoveredOK(p)' /\ PageComplete(p)'
    BY <1>1, <2>1 DEF QueueOK, Pending, CoveredOK, Awaits, PageComplete
  <2>3. \A n \in 1 .. Len(log) : ~(page[p].cursor < n /\ n <= page[p].cursor)
    BY <1>1
  <2>4. WireComplete(p)'
    BY <2>1, <2>3 DEF WireComplete
  <2> QED BY <2>2, <2>4 DEF Complete
<1>3. CASE Close(p)
  <2>1. stream'[p].pc = "closed" /\ Unsubscribe(p) /\ UNCHANGED page
    BY <1>1, <1>3 DEF Close, Closed
  <2> QED BY <1>1, <2>1, LeftComplete DEF WireComplete, PageComplete
<1>4. CASE Reload(p)
  <2>1. page'[p].cursor = 0 /\ stream'[p].pc = "closed"
        /\ UNCHANGED <<log, thread, subs, inbox, stream>>
    BY <1>1, <1>4 DEF Reload, FreshPage
  <2> QED BY <1>1, <2>1 DEF Complete, QueueOK, Pending, CoveredOK, Awaits, WireComplete, PageComplete
<1> QED BY <1>2, <1>3, <1>4 DEF Visit

LEMMA FetchComplete ==
    ASSUME TypeInv, CompleteInv, NEW p \in Pages, Fetch(p)
    PROVE  Complete(p)'
<1>1. /\ QueueOK(p) /\ CoveredOK(p) /\ WireComplete(p) /\ PageComplete(p)
      /\ stream \in [Pages -> StreamState]
  BY DEF CompleteInv, Complete, TypeInv, TypeOK
<1>2. /\ stream'[p].pc = "replay" /\ stream'[p].delivered = stream[p].delivered
      /\ stream'[p].upto = Len(log) /\ stream[p].pc = "fetch"
      /\ UNCHANGED <<log, running, thread, subs, inbox, wire, page>> /\ LogGrows
  BY <1>1, LogKept DEF Fetch, StreamState, TypeInv
<1>3. QueueOK(p)' /\ PageComplete(p)'
  BY <1>1, <1>2 DEF QueueOK, Pending, PageComplete
<1>4. CoveredOK(p)'
  BY <1>2 DEF CoveredOK, Awaits, LogGrows
<1>5. WireComplete(p)'
  BY <1>1, <1>2, WireStays
<1> QED BY <1>3, <1>4, <1>5 DEF Complete

LEMMA ReplayRowComplete ==
    ASSUME TypeInv, CompleteInv, NEW p \in Pages, ReplayRow(p)
    PROVE  Complete(p)'
<1> DEFINE pos == stream[p].delivered + 1
           ev == [pos |-> pos, seq |-> pos, type |-> log[pos]]
<1>1. /\ QueueOK(p) /\ CoveredOK(p) /\ WireComplete(p) /\ PageComplete(p)
      /\ stream \in [Pages -> StreamState] /\ stream[p].delivered \in Nat
  BY DEF CompleteInv, Complete, TypeInv, TypeOK, StreamState
<1>2. ev \in Event /\ Send(p, ev) /\ ev.seq = pos /\ stream' = [stream EXCEPT ![p].delivered = pos]
  BY RowFacts
<1> HIDE DEF ev
<1>3. /\ stream'[p].pc = "replay" /\ stream'[p].delivered = pos
      /\ stream'[p].upto = stream[p].upto /\ stream[p].pc = "replay"
      /\ UNCHANGED <<log, running, thread, subs, inbox, page>>
  BY <1>1, <1>2 DEF ReplayRow, StreamState
<1>4. QueueOK(p)' /\ PageComplete(p)'
  BY <1>1, <1>3 DEF QueueOK, Pending, PageComplete
<1>5. CoveredOK(p)'
  BY <1>1, <1>3 DEF CoveredOK, Awaits, Arrives, Pending
<1>6. WireComplete(p)'
  <2> SUFFICES ASSUME NEW n \in 1 .. Len(log), page[p].cursor < n, n <= pos
               PROVE  \E i \in 1 .. Len(wire'[p]) : wire'[p][i].seq = n
    BY <1>3 DEF WireComplete
  <2>1. /\ Len(wire[p]) \in Nat /\ Len(wire'[p]) = Len(wire[p]) + 1
        /\ \A i \in 1 .. Len(wire[p]) : wire'[p][i] = wire[p][i]
        /\ wire'[p][Len(wire[p]) + 1] = ev
    BY <1>2, SendFacts
  <2>2. CASE n = pos
    <3>1. wire'[p][Len(wire[p]) + 1].seq = n /\ Len(wire[p]) + 1 \in 1 .. Len(wire'[p])
      BY <1>2, <2>1, <2>2
    <3> QED BY <3>1
  <2>3. CASE n # pos
    <3>1. n <= stream[p].delivered
      BY <1>1, <2>3
    <3>2. PICK i \in 1 .. Len(wire[p]) : wire[p][i].seq = n
      BY <1>1, <1>3, <3>1 DEF WireComplete
    <3>3. i \in 1 .. Len(wire'[p]) /\ wire'[p][i].seq = n
      BY <2>1, <3>2
    <3> QED BY <3>3
  <2> QED BY <2>2, <2>3
<1> QED BY <1>4, <1>5, <1>6 DEF Complete

LEMMA CheckRunningComplete ==
    ASSUME TypeInv, CompleteInv, NEW p \in Pages, CheckRunning(p)
    PROVE  Complete(p)'
<1>1. /\ QueueOK(p) /\ CoveredOK(p) /\ WireComplete(p) /\ PageComplete(p)
      /\ stream \in [Pages -> StreamState]
      /\ stream[p].delivered \in Nat /\ stream[p].upto \in Nat
  BY DEF CompleteInv, Complete, TypeInv, TypeOK, StreamState
<1>2. /\ stream[p].pc = "replay" /\ stream'[p].delivered = stream[p].delivered
      /\ stream[p].upto <= stream[p].delivered
      /\ UNCHANGED <<log, wire, page>> /\ LogGrows
  BY <1>1, LogKept DEF CheckRunning, StreamState, TypeInv
<1>3. WireComplete(p)' /\ PageComplete(p)'
  BY <1>1, <1>2, WireStays DEF PageComplete
<1>4. CASE running
  <2>1. stream'[p].pc = "live" /\ UNCHANGED <<thread, subs, inbox>>
    <3>1. stream' = [stream EXCEPT ![p].pc = "live"] /\ UNCHANGED <<thread, subs, inbox>>
      BY <1>4 DEF CheckRunning
    <3> QED BY <1>1, <3>1 DEF StreamState
  <2>2. QueueOK(p)'
    BY <1>1, <1>2, <2>1 DEF QueueOK, Pending
  <2>3. \A n \in 1 .. Len(log) : Awaits(p, n)' => Awaits(p, n)
    BY <1>1, <1>2, <2>1 DEF Awaits
  <2>4. CoveredOK(p)'
    BY <1>1, <1>2, <2>1, <2>3 DEF CoveredOK, Arrives, Pending
  <2> QED BY <1>3, <2>2, <2>4 DEF Complete
<1>5. CASE ~running
  <2>1. stream'[p].pc = "ended" /\ Unsubscribe(p)
    <3>1. stream' = [stream EXCEPT ![p].pc = "ended"] /\ Unsubscribe(p)
      BY <1>5 DEF CheckRunning
    <3> QED BY <1>1, <3>1 DEF StreamState
  <2> QED BY <1>3, <2>1, LeftComplete
<1> QED BY <1>4, <1>5

(* The event a live stream delivers is the next one of the log: an earlier   *)
(* one would be behind it in the queue, or still to be put there.            *)
LEMMA NextInLine ==
    ASSUME TypeInv, CompleteInv, NEW p \in Pages, Live(p), Delivers(p)
    PROVE  Front(p).seq = stream[p].delivered + 1
<1> DEFINE n == stream[p].delivered + 1
<1>1. /\ QueueOK(p) /\ CoveredOK(p) /\ PlaceOK(p) /\ stream[p].delivered \in Nat /\ stream[p].pc = "live"
  BY DEF CompleteInv, Complete, TypeInv, TypeOK, StreamState, Live
<1>2. /\ Front(p).seq \in Nat /\ Front(p).seq = Front(p).pos /\ Front(p).pos \in 1 .. Len(log)
      /\ stream[p].delivered < Front(p).pos /\ inbox[p] # <<>>
  BY <1>1, LiveFacts DEF Delivers
<1>3. Front(p) = inbox[p][1] /\ Len(inbox[p]) \in Nat \ {0}
  BY <1>2, HeadFacts
<1>4. CASE n = Front(p).pos
  BY <1>2, <1>4
<1>5. CASE n # Front(p).pos
  <2>1. n \in 1 .. Len(log) /\ stream[p].delivered < n /\ n < Front(p).pos /\ n # 0 /\ n \in Nat
    BY <1>1, <1>2, <1>5
  <2> HIDE DEF n
  <2>2. Arrives(p, n)
    BY <1>1, <2>1 DEF CoveredOK, Awaits
  <2>3. ASSUME NEW i \in 1 .. Len(inbox[p]), inbox[p][i].pos = n
        PROVE  FALSE
    <3>1. i # 1
      BY <1>3, <2>1, <2>3
    <3>2. 1 \in 1 .. i - 1
      BY <1>3, <3>1
    <3>3. inbox[p][1].pos < inbox[p][i].pos
      BY <1>1, <2>1, <2>3, <3>2 DEF QueueOK
    <3> QED BY <1>2, <1>3, <2>1, <2>3, <3>3
  <2>4. ASSUME NEW t \in Threads, Pending(t, p), thread[t].ev.pos = n
        PROVE  FALSE
    <3>1. inbox[p][1].pos < n
      BY <1>1, <1>3, <2>1, <2>4 DEF QueueOK
    <3> QED BY <1>2, <1>3, <2>1, <3>1
  <2> QED BY <2>2, <2>3, <2>4 DEF Arrives
<1> QED BY <1>4, <1>5

LEMMA LiveWire ==
    ASSUME TypeInv, CompleteInv, NEW p \in Pages, Live(p)
    PROVE  WireComplete(p)' /\ PageComplete(p)'
<1>1. /\ WireComplete(p) /\ PageComplete(p) /\ stream[p].delivered \in Nat /\ stream[p].pc = "live"
      /\ UNCHANGED <<log, page>> /\ LogGrows /\ page[p].cursor \in Nat
  BY LogKept DEF CompleteInv, Complete, TypeInv, TypeOK, StreamState, Live
<1>2. Front(p) \in Event
  BY LiveFacts, HeadFacts
<1>3. CASE UNCHANGED wire /\ ~Delivers(p)
  <2>1. stream'[p].delivered = stream[p].delivered
    BY <1>3, LiveFacts
  <2> QED BY <1>1, <1>3, <2>1, WireStays DEF PageComplete
<1>4. CASE Send(p, Front(p))
  <2>1. /\ Len(wire[p]) \in Nat /\ Len(wire'[p]) = Len(wire[p]) + 1
        /\ \A i \in 1 .. Len(wire[p]) : wire'[p][i] = wire[p][i]
        /\ wire'[p][Len(wire[p]) + 1] = Front(p)
    BY <1>2, <1>4, SendFacts
  <2>2. \/ stream'[p].delivered = stream[p].delivered
        \/ stream'[p].delivered = stream[p].delivered + 1 /\ Front(p).seq = stream'[p].delivered
    BY LiveFacts, NextInLine
  <2>3. ASSUME NEW n \in 1 .. Len(log), page[p].cursor < n, n <= stream'[p].delivered
        PROVE  \E i \in 1 .. Len(wire'[p]) : wire'[p][i].seq = n
    <3>1. CASE n <= stream[p].delivered
      <4>1. PICK i \in 1 .. Len(wire[p]) : wire[p][i].seq = n
        BY <1>1, <2>3, <3>1 DEF WireComplete
      <4>2. i \in 1 .. Len(wire'[p]) /\ wire'[p][i].seq = n
        BY <2>1, <4>1
      <4> QED BY <4>2
    <3>2. CASE ~(n <= stream[p].delivered)
      <4>1. n = Front(p).seq
        BY <1>1, <2>2, <2>3, <3>2
      <4>2. Len(wire[p]) + 1 \in 1 .. Len(wire'[p]) /\ wire'[p][Len(wire[p]) + 1].seq = n
        BY <2>1, <4>1
      <4> QED BY <4>2
    <3> QED BY <3>1, <3>2
  <2> QED BY <1>1, <2>3 DEF WireComplete, PageComplete
<1> QED BY <1>3, <1>4, LiveFacts

LEMMA LiveComplete ==
    ASSUME TypeInv, CompleteInv, NEW p \in Pages, Live(p)
    PROVE  Complete(p)'
<1>1. /\ QueueOK(p) /\ CoveredOK(p) /\ PlaceOK(p) /\ stream[p].delivered \in Nat
      /\ inbox \in [Pages -> Seq(Event)]
  BY DEF CompleteInv, Complete, TypeInv, TypeOK, StreamState
<1>2. /\ stream[p].pc = "live" /\ inbox[p] # <<>> /\ log' = log
      /\ Front(p).type \in Terminal => stream'[p].pc = "ended"
      /\ Front(p).type \notin Terminal => stream'[p].pc = "live"
  BY LiveFacts DEF Live
<1>3. CASE Front(p).type \in Terminal
  <2>1. Unsubscribe(p)
    BY <1>3 DEF Live, Front
  <2> QED BY <1>2, <1>3, <2>1, LiveWire, LeftComplete
<1>4. CASE Front(p).type \notin Terminal
  <2>1. inbox' = [inbox EXCEPT ![p] = Tail(@)] /\ UNCHANGED <<thread, subs>>
    BY <1>4 DEF Live, Front
  <2>2. /\ Front(p) = inbox[p][1] /\ Len(inbox[p]) \in Nat \ {0} /\ EventOK(Front(p), log)
        /\ Len(inbox'[p]) = Len(inbox[p]) - 1
        /\ \A i \in 1 .. Len(inbox[p]) - 1 : inbox'[p][i] = inbox[p][i + 1]
    <3>1. inbox'[p] = Tail(inbox[p])
      BY <1>1, <2>1
    <3> QED BY <1>2, <3>1, HeadFacts
  <2>3. \A u \in Threads : Pending(u, p)' = Pending(u, p) /\ thread'[u].ev = thread[u].ev
    BY <2>1 DEF Pending
  <2>4. QueueOK(p)'
    <3>1. ASSUME NEW i \in 1 .. Len(inbox'[p]), NEW j \in 1 .. i - 1, inbox'[p][i].pos # 0
          PROVE  inbox'[p][j].pos < inbox'[p][i].pos
      <4>1. /\ i + 1 \in 1 .. Len(inbox[p]) /\ j + 1 \in 1 .. (i + 1) - 1
            /\ inbox'[p][i] = inbox[p][i + 1] /\ inbox'[p][j] = inbox[p][j + 1]
        BY <2>2, SMTT(60)
      <4> QED BY <1>1, <3>1, <4>1 DEF QueueOK
    <3>2. ASSUME NEW u \in Threads, Pending(u, p)', thread'[u].ev.pos # 0,
                 NEW i \in 1 .. Len(inbox'[p])
          PROVE  inbox'[p][i].pos < thread'[u].ev.pos
      <4>1. i + 1 \in 1 .. Len(inbox[p]) /\ inbox'[p][i] = inbox[p][i + 1]
        BY <2>2
      <4> QED BY <1>1, <2>3, <3>2, <4>1 DEF QueueOK
    <3> QED BY <1>1, <1>2, <2>1, <3>1, <3>2 DEF QueueOK
  <2>5. Front(p).pos <= stream'[p].delivered
    <3>1. CASE Delivers(p)
      BY <2>2, <3>1, LiveFacts DEF Delivers, EventOK
    <3>2. CASE ~Delivers(p) /\ Front(p).seq # None
      BY <1>1, <3>2, LiveFacts DEF Delivers
    <3>3. CASE Front(p).seq = None
      <4>1. Front(p).pos = 0
        BY <1>4, <2>2, <3>3, NoneAssumption DEF EventOK, Terminal
      <4>2. stream'[p].delivered = stream[p].delivered
        BY <3>3, LiveFacts DEF Delivers
      <4> QED BY <1>1, <4>1, <4>2
    <3> QED BY <3>1, <3>2, <3>3
  <2>6. /\ stream[p].delivered <= stream'[p].delivered /\ stream'[p].delivered \in Nat
        /\ Front(p).pos \in Nat
    BY <1>1, <2>2, LiveFacts DEF Delivers, StreamState, EventOK, Event
  <2>7. CoveredOK(p)'
    <3> SUFFICES ASSUME NEW n \in 1 .. Len(log), Awaits(p, n)'
                 PROVE  Arrives(p, n)'
      BY <1>2 DEF CoveredOK
    <3>1. stream'[p].delivered < n
      BY <1>2, <1>4 DEF Awaits
    <3>2. stream[p].delivered < n /\ Front(p).pos < n
      BY <1>1, <2>5, <2>6, <3>1
    <3>3. Arrives(p, n)
      BY <1>1, <1>2, <3>2 DEF CoveredOK, Awaits
    <3>4. ASSUME NEW i \in 1 .. Len(inbox[p]), inbox[p][i].pos = n
          PROVE  \E j \in 1 .. Len(inbox'[p]) : inbox'[p][j].pos = n
      <4>1. i # 1
        BY <2>2, <2>6, <3>2, <3>4
      <4>2. i - 1 \in 1 .. Len(inbox'[p]) /\ inbox'[p][i - 1] = inbox[p][i]
        BY <2>2, <4>1
      <4> QED BY <3>4, <4>2
    <3> QED BY <2>3, <3>3, <3>4 DEF Arrives
  <2> QED BY <2>4, <2>7, LiveWire DEF Complete
<1> QED BY <1>3, <1>4

LEMMA ReceiveComplete ==
    ASSUME TypeInv, OrderInv, CompleteInv, NEW p \in Pages, Receive(p)
    PROVE  /\ Complete(p)'
           /\ page'[p].cursor # page[p].cursor =>
                  page'[p].cursor = page[p].cursor + 1 /\ page[p].cursor < Len(log)
<1>1. /\ QueueOK(p) /\ CoveredOK(p) /\ WireComplete(p) /\ PageComplete(p) /\ PlaceOK(p) /\ OrderOK(p)
      /\ stream[p].delivered \in Nat /\ page[p].cursor \in Nat /\ wire[p] # <<>>
      /\ page[p].shown \in Seq(Nat) /\ stream[p].pc # "closed"
  BY DEF CompleteInv, Complete, OrderInv, TypeInv, TypeOK, StreamState, Receive, PlaceOK
<1>2. UNCHANGED <<log, running, thread, subs, inbox, stream>>
  BY DEF Receive
<1>3. /\ Len(wire[p]) \in Nat \ {0} /\ Frame(p) = wire[p][1] /\ EventOK(Frame(p), log)
      /\ Len(wire'[p]) = Len(wire[p]) - 1
      /\ \A i \in 1 .. Len(wire[p]) - 1 : wire'[p][i] = wire[p][i + 1]
  <2>1. wire'[p] = Tail(wire[p])
    BY ReceiveFacts
  <2> QED BY <1>1, <2>1, FrameFacts
<1>4. CASE Frame(p).seq # None
  <2>1. /\ Frame(p).seq \in Nat /\ Frame(p).pos = Frame(p).seq /\ Frame(p).pos \in 1 .. Len(log)
        /\ page[p].cursor < Frame(p).seq /\ Frame(p).seq <= stream[p].delivered
    BY <1>1, <1>3, <1>4, ReceiveFacts DEF OrderOK
  <2> DEFINE n == page[p].cursor + 1
  <2>2. n \in 1 .. Len(log) /\ page[p].cursor < n /\ n <= Frame(p).seq /\ n <= stream[p].delivered
    BY <1>1, <1>3, <2>1, SMTT(60)
  <2>3. PICK i \in 1 .. Len(wire[p]) : wire[p][i].seq = n
    BY <1>1, <2>2 DEF WireComplete
  <2>4. Frame(p).seq = n
    <3>1. CASE i = 1
      BY <1>3, <2>3, <3>1
    <3>2. CASE i # 1
      <4>1. 1 \in 1 .. i - 1 /\ wire[p][i].seq # None
        BY <1>1, <1>3, <2>3, <3>2, NoneAssumption
      <4>2. wire[p][1].seq < wire[p][i].seq
        BY <1>1, <1>3, <1>4, <4>1 DEF OrderOK
      <4> QED BY <1>3, <2>1, <2>2, <2>3, <4>2
    <3> QED BY <3>1, <3>2
  <2>5. page'[p].cursor = n /\ page'[p].shown = Append(page[p].shown, n)
    <3>1. Frame(p).pos = n /\ Frame(p).pos # 0 /\ Frame(p).seq > page[p].cursor
      BY <1>1, <2>1, <2>4
    <3>2. page'[p].cursor = Frame(p).seq
      BY <1>4, <3>1, ReceiveFacts
    <3>3. page'[p].shown = Append(page[p].shown, Frame(p).pos)
      BY <3>1, ReceiveFacts
    <3> QED BY <2>4, <3>1, <3>2, <3>3
  <2>6. page[p].cursor < Len(log)
    BY <1>1, <2>2
  <2>7. PageComplete(p)'
    <3>1. /\ Len(page[p].shown) \in Nat /\ Len(page'[p].shown) = Len(page[p].shown) + 1
          /\ \A j \in 1 .. Len(page[p].shown) : page'[p].shown[j] = page[p].shown[j]
          /\ page'[p].shown[Len(page[p].shown) + 1] = n
      BY <1>1, <2>2, <2>5, AppendFacts
    <3> SUFFICES ASSUME NEW k \in 1 .. n
                 PROVE  \E j \in 1 .. Len(page'[p].shown) : page'[p].shown[j] = k
      BY <2>5 DEF PageComplete
    <3>2. CASE k = n
      <4>1. Len(page[p].shown) + 1 \in 1 .. Len(page'[p].shown)
        BY <3>1
      <4> QED BY <3>1, <3>2, <4>1
    <3>3. CASE k # n
      <4>1. k \in 1 .. page[p].cursor
        BY <1>1, <3>3
      <4>2. PICK j \in 1 .. Len(page[p].shown) : page[p].shown[j] = k
        BY <1>1, <4>1 DEF PageComplete
      <4>3. j \in 1 .. Len(page'[p].shown) /\ page'[p].shown[j] = k
        BY <3>1, <4>2
      <4> QED BY <4>3
    <3> QED BY <3>2, <3>3
  <2>8. WireComplete(p)'
    <3> SUFFICES ASSUME NEW k \in 1 .. Len(log), n < k, k <= stream[p].delivered
                 PROVE  \E j \in 1 .. Len(wire'[p]) : wire'[p][j].seq = k
      BY <1>2, <2>5 DEF WireComplete
    <3>1. page[p].cursor < k
      BY <1>1
    <3>2. PICK j \in 1 .. Len(wire[p]) : wire[p][j].seq = k
      BY <1>1, <3>1 DEF WireComplete
    <3>3. j # 1 /\ j - 1 \in 1 .. Len(wire'[p]) /\ wire'[p][j - 1] = wire[p][j]
      BY <1>1, <1>3, <2>4, <3>2, SMTT(60)
    <3> QED BY <3>2, <3>3
  <2>9. QueueOK(p)' /\ CoveredOK(p)'
    BY <1>1, <1>2 DEF QueueOK, CoveredOK, Awaits, Arrives, Pending
  <2> HIDE DEF n
  <2>10. page'[p].cursor = page[p].cursor + 1
    BY <2>5 DEF n
  <2> QED BY <2>6, <2>7, <2>8, <2>9, <2>10 DEF Complete
<1>5. CASE Frame(p).seq = None
  <2>1. page'[p].cursor = page[p].cursor
    BY <1>5, ReceiveFacts
  <2>2. PageComplete(p)'
    <3> SUFFICES ASSUME NEW k \in 1 .. page[p].cursor
                 PROVE  \E j \in 1 .. Len(page'[p].shown) : page'[p].shown[j] = k
      BY <2>1 DEF PageComplete
    <3>1. PICK j \in 1 .. Len(page[p].shown) : page[p].shown[j] = k
      BY <1>1 DEF PageComplete
    <3>2. Frame(p).pos \in Nat
      BY ReceiveFacts
    <3>3. /\ Len(page[p].shown) \in Nat /\ Len(page'[p].shown) >= Len(page[p].shown)
          /\ \A i \in 1 .. Len(page[p].shown) : page'[p].shown[i] = page[p].shown[i]
      <4>1. CASE Frame(p).pos = 0
        BY <1>1, <4>1, LenProperties, ReceiveFacts
      <4>2. CASE Frame(p).pos # 0
        <5>1. page'[p].shown = Append(page[p].shown, Frame(p).pos)
          BY <4>2, ReceiveFacts
        <5> QED BY <1>1, <3>2, <5>1, AppendFacts
      <4> QED BY <4>1, <4>2
    <3>4. j \in 1 .. Len(page'[p].shown) /\ page'[p].shown[j] = k
      <4>1. Len(page'[p].shown) \in Nat
        BY ReceiveFacts, LenProperties
      <4> QED BY <3>1, <3>3, <4>1
    <3> QED BY <3>4
  <2>3. WireComplete(p)'
    <3> SUFFICES ASSUME NEW k \in 1 .. Len(log), page[p].cursor < k, k <= stream[p].delivered
                 PROVE  \E j \in 1 .. Len(wire'[p]) : wire'[p][j].seq = k
      BY <1>2, <2>1 DEF WireComplete
    <3>1. PICK j \in 1 .. Len(wire[p]) : wire[p][j].seq = k
      BY <1>1 DEF WireComplete
    <3>2. j # 1
      BY <1>3, <1>5, <3>1, NoneAssumption
    <3>3. j - 1 \in 1 .. Len(wire'[p]) /\ wire'[p][j - 1] = wire[p][j]
      BY <1>3, <3>2
    <3> QED BY <3>1, <3>3
  <2>4. QueueOK(p)' /\ CoveredOK(p)'
    BY <1>1, <1>2 DEF QueueOK, CoveredOK, Awaits, Arrives, Pending
  <2> QED BY <2>1, <2>2, <2>3, <2>4 DEF Complete
<1> QED BY <1>4, <1>5

(* Every step keeps what is missing from a page on its way to it. *)
LEMMA StepComplete ==
    ASSUME OneWriter, TypeInv, OrderInv, WriterInv, CompleteInv, Next
    PROVE  CompleteInv'
<1>1. ASSUME NEW t \in Threads, Start(t) \/ Work(t) \/ Fail(t) \/ Note(t)
      PROVE  CompleteInv'
  BY <1>1, IdleComplete, AppendComplete, NoteComplete, PublishComplete, PutComplete DEF Work
<1>2. ASSUME NEW q \in Pages, Serve(q) \/ Receive(q) \/ Visit(q)
      PROVE  CompleteInv'
  <2> SUFFICES ASSUME NEW p \in Pages PROVE Complete(p)'
    BY DEF CompleteInv
  <2>1. CASE p # q
    BY <1>2, <2>1, OtherPage
  <2>2. CASE p = q
    <3>1. CASE IdleTimeout(p)
      <4>1. /\ stream'[p].pc = "ended" /\ stream'[p].delivered = stream[p].delivered
            /\ stream[p].pc # "closed" /\ Unsubscribe(p)
            /\ UNCHANGED <<log, wire, page>> /\ LogGrows
        BY <3>1, LogKept DEF IdleTimeout, TypeInv, TypeOK, StreamState
      <4>2. WireComplete(p)' /\ PageComplete(p)'
        BY <4>1, WireStays DEF CompleteInv, Complete, PageComplete
      <4> QED BY <4>1, <4>2, LeftComplete
    <3> QED BY <1>2, <2>2, <3>1, FetchComplete, ReplayRowComplete, CheckRunningComplete,
               LiveComplete, ReceiveComplete, VisitComplete DEF Serve
  <2> QED BY <2>1, <2>2
<1> QED BY <1>1, <1>2, CrashComplete DEF Next

LEMMA OneWriterCorrect ==
    ASSUME OneWriter
    PROVE  Spec => []OneWriterInv
<1>1. Init => OneWriterInv
  BY InitTypeInv, InitOrder, InitWriter, InitComplete DEF OneWriterInv
<1>2. OneWriterInv /\ Next => OneWriterInv'
  BY StepTypeInv, StepOrder, StepWriter, StepComplete DEF OneWriterInv
<1>3. OneWriterInv /\ UNCHANGED vars => OneWriterInv'
  BY DEF OneWriterInv, TypeInv, TypeOK, ThreadOK, PlaceOK, OrderInv, OrderOK, ShownOK, WriterInv,
         CompleteInv, Complete, QueueOK, CoveredOK, Awaits, Arrives, WireComplete, PageComplete,
         Pending, vars
<1>4. OneWriterInv /\ [Next]_vars => OneWriterInv'
  BY <1>2, <1>3
<1> QED BY <1>1, <1>4, PTL DEF Spec

(* With one writer nothing up to a page's cursor is missing from the page,   *)
(* so what it asks for again, "after" its cursor, is all it has not seen     *)
(* (app/main.py, events; Resolve.jsx).  Without that assumption it is false: the  *)
(* run stream_gap shows how two writers publish out of the log's order.      *)
THEOREM CursorCorrect ==
    ASSUME OneWriter
    PROVE  Spec => []CursorIsComplete
<1>1. OneWriterInv => CursorIsComplete
  <2> SUFFICES ASSUME OneWriterInv, NEW p \in Pages, NEW n \in 1 .. page[p].cursor
               PROVE  \E i \in DOMAIN page[p].shown : page[p].shown[i] = n
    BY DEF CursorIsComplete
  <2>1. DOMAIN page[p].shown = 1 .. Len(page[p].shown)
    BY LenProperties DEF OneWriterInv, TypeInv, TypeOK
  <2> QED BY <2>1 DEF OneWriterInv, CompleteInv, Complete, PageComplete
<1> QED BY <1>1, OneWriterCorrect, PTL

-----------------------------------------------------------------------------
(* The refinement. *)

LEMMA StepReplay ==
    ASSUME OneWriterInv, Next
    PROVE  [Replay!Next]_<<log, [p \in Pages |-> page[p].cursor]>>
<1> DEFINE at == [p \in Pages |-> page[p].cursor]
<1>0. TypeInv /\ OrderInv /\ CompleteInv /\ page \in [Pages -> [shown : Seq(Nat), cursor : Nat]]
  BY DEF OneWriterInv, TypeInv, TypeOK
<1>1. CASE UNCHANGED <<log, page>>
  BY <1>1
<1>2. ASSUME NEW type \in Type, log' = Append(log, type), UNCHANGED page
      PROVE  Replay!Next
  BY <1>2 DEF Replay!Next, Replay!Log, Type
<1>3. ASSUME NEW p \in Pages, Receive(p)
      PROVE  Replay!Next \/ UNCHANGED <<log, at>>
  <2>1. log' = log /\ \A q \in Pages \ {p} : page'[q].cursor = page[q].cursor
    BY <1>0, <1>3, ReceiveFacts DEF Receive
  <2>2. CASE page'[p].cursor = page[p].cursor
    <3>1. \A q \in Pages : page'[q].cursor = page[q].cursor
      BY <2>1, <2>2
    <3> QED BY <2>1, <3>1
  <2>3. CASE page'[p].cursor # page[p].cursor
    <3>1. page'[p].cursor = page[p].cursor + 1 /\ page[p].cursor < Len(log)
      BY <1>0, <1>3, <2>3, ReceiveComplete
    <3>2. at' = [at EXCEPT ![p] = @ + 1] /\ at[p] < Len(log)
      BY <2>1, <3>1
    <3> QED BY <2>1, <3>2 DEF Replay!Next, Replay!Advance
  <2> QED BY <2>2, <2>3
<1>4. ASSUME NEW p \in Pages, Reload(p)
      PROVE  Replay!Next
  <2>1. at' = [at EXCEPT ![p] = 0] /\ log' = log
    BY <1>0, <1>4 DEF Reload, FreshPage
  <2> QED BY <2>1 DEF Replay!Next, Replay!Refresh
<1>5. ASSUME NEW t \in Threads, Start(t) \/ Work(t) \/ Fail(t) \/ Note(t)
      PROVE  \/ UNCHANGED <<log, page>>
             \/ UNCHANGED page /\ \E type \in Type : log' = Append(log, type)
  BY <1>5 DEF Start, Work, Fail, Note, Step, Stop, AppendEvent, Token, PublishTo, Put,
              Published, Finish, Type
<1>6. ASSUME NEW p \in Pages, Serve(p) \/ Open(p) \/ Close(p)
      PROVE  UNCHANGED <<log, page>>
  BY <1>6 DEF Serve, Fetch, ReplayRow, CheckRunning, Live, IdleTimeout, Open, Close
<1>7. Crash => UNCHANGED <<log, page>>
  BY DEF Crash
<1> QED BY <1>1, <1>2, <1>3, <1>4, <1>5, <1>6, <1>7 DEF Next, Visit

(* With one writer every page replays the log entry by entry, from the       *)
(* first, skipping none and repeating none, and a refresh begins again: the  *)
(* stream implements LogReplay (app/main.py, events).                        *)
THEOREM ReplayCorrect ==
    ASSUME OneWriter
    PROVE  Spec => ImplementsLogReplay
<1>1. Init => Replay!Init
  BY DEF Init, Replay!Init, FreshPage
<1>2. OneWriterInv /\ [Next]_vars => [Replay!Next]_<<log, [p \in Pages |-> page[p].cursor]>>
  <2>1. UNCHANGED vars => UNCHANGED <<log, [p \in Pages |-> page[p].cursor]>>
    BY DEF vars
  <2> QED BY <2>1, StepReplay
<1> QED BY <1>1, <1>2, OneWriterCorrect, PTL DEF Spec, ImplementsLogReplay, Replay!Spec
=============================================================================
