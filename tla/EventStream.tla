---------------------------- MODULE EventStream ----------------------------
(***************************************************************************)
(* The events of one task on their way to one client: the processes and    *)
(* threads that emit them, the events table, the event bus with its local  *)
(* queue and Redis Pub/Sub, and GET /api/tasks/{id}/events, which sends a  *)
(* snapshot, then live events, and replays from the table when the queue   *)
(* has been silent for five seconds.                                       *)
(*                                                                         *)
(* Time is the number of events created so far, so an event's ts is unique *)
(* and all processes share a clock.  An emitter creates an event, commits  *)
(* it and publishes it; others act in between.                             *)
(***************************************************************************)
EXTENDS Naturals, Sequences, SequencesExt, FiniteSetsExt, Chronology

CONSTANTS Emitters,      \* processes and threads that emit events of the task
          Local,         \* the emitters in the process that serves the stream
          NoEvent,       \* an emitter has no event in hand
          Capacity,      \* maxsize of a subscriber's queue (1000)
          ReplayLimit,   \* events fetched by one replay (100)
          MaxEvents,     \* bound: events emitted
          MaxConnects    \* bound: times the client connects

ASSUME EmittersAssumption == Local \subseteq Emitters
ASSUME StreamBoundsAssumption ==
  /\ Capacity \in Nat \ {0} /\ ReplayLimit \in Nat \ {0}
  /\ MaxEvents \in Nat /\ MaxConnects \in Nat

VARIABLES
  clock,      \* events created so far
  hand,       \* per emitter: the event it is emitting
  said,       \* per emitter: the kind of its last event
  owned,      \* does the serving process run the task, or a Celery worker?
  live,       \* updated_at of the live task object of an owned task
  row,        \* the task's row: what a replica without live object reads
  table,      \* the events table
  net,        \* published through Redis, not yet received
  stream,     \* where the request handler is
  listening,  \* is the Pub/Sub subscription of the stream established?
  queue,      \* the subscriber's queue
  snap,       \* the task in the snapshot
  last,       \* last_ts
  yielded,    \* the events sent to the client, in order; their ids are seen
  lost,       \* history: events that live delivery does not bring this stream
  connects

emission == <<clock, hand, said, owned, live>>
storage == <<row, table>>
client == <<stream, snap, last, yielded, lost, connects>>
vars == <<emission, storage, net, listening, queue, client>>

Kind == {"plain", "outcome", "end"}     \* "outcome": task.status of an outcome
Event == [ts : Nat, kind : Kind]
Snapshot == [updated : Nat, over : BOOLEAN]
Subscribed == stream \in {"connected", "snapshot", "open", "replaying"}

Init ==
  /\ clock = 0
  /\ hand = [e \in Emitters |-> NoEvent]
  /\ said = [e \in Emitters |-> "plain"]
  /\ owned \in {o \in BOOLEAN : o => Local # {}} /\ live = 0
  /\ row = [updated |-> 0, over |-> FALSE]
  /\ table = {} /\ net = {}
  /\ stream = "none" /\ listening = FALSE /\ queue = <<>>
  /\ snap = row /\ last = 0 /\ yielded = <<>> /\ lost = {}
  /\ connects = 0

-----------------------------------------------------------------------------
(* Emitting: _emit, save_task_and_event and publish.                       *)

\* An emitter closes with the outcome and then stream.end.
MayFollow(before, kind) ==
  \/ before = "plain" /\ kind \in {"plain", "outcome"}
  \/ before = "outcome" /\ kind = "end"

\* One time stands for the event's ts and for the task's updated_at, which _emit
\* takes just before it.  A decision also moves updated_at, ahead of its event.
Create(e, kind) ==
  /\ hand[e] = NoEvent
  /\ clock < MaxEvents
  /\ MayFollow(said[e], kind)
  /\ clock' = clock + 1
  /\ hand' = [hand EXCEPT ![e] = [ts |-> clock', kind |-> kind]]
  /\ said' = [said EXCEPT ![e] = kind]
  /\ live' = IF e \in Local THEN clock' ELSE live
  /\ UNCHANGED <<owned, storage, net, listening, queue, client>>

\* Is the task over in the copy emitter e works with?  The threads of the
\* process that runs the task share one.
Over(e) == \E f \in Emitters : /\ said[f] # "plain"
                               /\ f = e \/ (owned /\ {e, f} \subseteq Local)

Commit(e) ==
  /\ hand[e] # NoEvent /\ hand[e] \notin table
  /\ table' = table \union {hand[e]}
  /\ row' = [updated |-> hand[e].ts, over |-> Over(e)]
  /\ UNCHANGED <<emission, net, listening, queue, client>>

Lose(events) == lost' = IF Subscribed THEN lost \union events ELSE lost

\* Mutant: the queue has no maximum size.
PutUnbounded(event) == queue' = Append(queue, event) /\ lost' = lost

\* put_nowait: a full queue drops the event.
Put(event) ==
  IF Len(queue) < Capacity
  THEN queue' = Append(queue, event) /\ lost' = lost
  ELSE queue' = queue /\ Lose({event})

\* To the queues of this process at once, to the others through Redis by a
\* task of its own, so that messages overtake one another.
Publish(e) ==
  /\ hand[e] \in table
  /\ hand' = [hand EXCEPT ![e] = NoEvent]
  /\ IF e \in Local /\ Subscribed THEN Put(hand[e]) ELSE UNCHANGED <<queue, lost>>
  /\ net' = IF e \in Local THEN net ELSE net \union {hand[e]}
  /\ UNCHANGED <<clock, said, owned, live, storage, listening, stream, snap, last,
                 yielded, connects>>

\* The Redis publish never happens: the worker's event loop ends first, the
\* emitter is a thread without one, or Redis cannot be reached.
Unpublished(e) ==
  /\ e \notin Local
  /\ hand[e] \in table
  /\ hand' = [hand EXCEPT ![e] = NoEvent]
  /\ Lose({hand[e]})
  /\ UNCHANGED <<clock, said, owned, live, storage, net, listening, queue, stream,
                 snap, last, yielded, connects>>

Receive(event) ==
  /\ event \in net
  /\ net' = net \ {event}
  /\ IF listening THEN Put(event)
     ELSE queue' = queue /\ Lose({event})
  /\ UNCHANGED <<emission, storage, listening, stream, snap, last, yielded, connects>>

-----------------------------------------------------------------------------
(* The stream: events() and its generator.                                 *)

\* The task as the handler sees it: the live object where there is one.
LiveTask == [updated |-> live, over |-> \E e \in Local : said[e] # "plain"]
Seen == IF owned THEN LiveTask ELSE snap

\* The task is read and the queue subscribed before anything is sent.
Connect ==
  /\ stream = "none"
  /\ connects < MaxConnects
  /\ connects' = connects + 1
  /\ stream' = "connected"
  /\ snap' = IF owned THEN LiveTask ELSE row
  /\ lost' = {e \in table : e.ts > snap'.updated}
  /\ UNCHANGED <<emission, storage, net, listening, queue, last, yielded>>

Listen ==
  /\ Subscribed /\ ~listening
  /\ listening' = TRUE
  /\ UNCHANGED <<emission, storage, net, queue, client>>

\* The generator starts: the snapshot is sent.
SendSnapshot ==
  /\ stream = "connected"
  /\ snap' = Seen
  /\ last' = snap'.updated
  /\ stream' = "snapshot"
  /\ UNCHANGED <<emission, storage, net, listening, queue, yielded, lost, connects>>

\* Mutant: a task that is over is streamed like any other.
OpenAnyway ==
  /\ stream = "snapshot"
  /\ stream' = "open"
  /\ UNCHANGED <<emission, storage, net, listening, queue, snap, last, yielded,
                 lost, connects>>

\* For a task that is over by now an end of the stream is made up on the spot.
Open ==
  /\ stream = "snapshot"
  /\ stream' = IF Seen.over THEN "closed" ELSE "open"
  /\ UNCHANGED <<emission, storage, net, listening, queue, snap, last, yielded,
                 lost, connects>>

\* Mutant: what is older than the last event is taken for a repetition.
TakeNewer ==
  /\ stream = "open"
  /\ queue # <<>>
  /\ LET event == Head(queue) IN
       /\ last' = Max({last, event.ts})
       /\ yielded' = IF event.ts <= last THEN yielded ELSE Append(yielded, event)
       /\ stream' = IF event.ts > last /\ event.kind = "end" THEN "closed" ELSE stream
  /\ queue' = Tail(queue)
  /\ UNCHANGED <<emission, storage, net, listening, snap, lost, connects>>

\* Mutant: live events are not compared with those already sent.
TakeAll ==
  /\ stream = "open"
  /\ queue # <<>>
  /\ last' = Max({last, Head(queue).ts})
  /\ yielded' = Append(yielded, Head(queue))
  /\ stream' = IF Head(queue).kind = "end" THEN "closed" ELSE stream
  /\ queue' = Tail(queue)
  /\ UNCHANGED <<emission, storage, net, listening, snap, lost, connects>>

Take ==
  /\ stream = "open"
  /\ queue # <<>>
  /\ LET event == Head(queue)
         new == event \notin ToSet(yielded) IN
       /\ last' = Max({last, event.ts})
       /\ yielded' = IF new THEN Append(yielded, event) ELSE yielded
       /\ stream' = IF new /\ event.kind = "end" THEN "closed" ELSE stream
  /\ queue' = Tail(queue)
  /\ UNCHANGED <<emission, storage, net, listening, snap, lost, connects>>

TimeOut ==
  /\ stream = "open"
  /\ queue = <<>>
  /\ stream' = "replaying"
  /\ UNCHANGED <<emission, storage, net, listening, queue, snap, last, yielded,
                 lost, connects>>

\* events_after: the oldest events newer than last_ts ...
EventsAfter(ts) ==
  LET later == Sorted({e \in table : e.ts > ts})
  IN SubSeq(later, 1, IF Len(later) < ReplayLimit THEN Len(later) ELSE ReplayLimit)

\* ... of which the generator handles those up to the first end it has not sent.
Handled(batch) ==
  LET ends == {i \in DOMAIN batch :
                 batch[i].kind = "end" /\ batch[i] \notin ToSet(yielded)}
  IN IF ends = {} THEN batch ELSE SubSeq(batch, 1, Min(ends))

\* Those that were sent before are left out.
Replay ==
  /\ stream = "replaying"
  /\ LET batch == Handled(EventsAfter(last))
         new == Sorted(ToSet(batch) \ ToSet(yielded)) IN
       /\ last' = IF batch = <<>> THEN last ELSE Last(batch).ts
       /\ yielded' = yielded \o new
       /\ stream' = IF \E e \in ToSet(new) : e.kind = "end" THEN "closed" ELSE "open"
  /\ UNCHANGED <<emission, storage, net, listening, queue, snap, lost, connects>>

\* The client goes away, or has read a stream that was closed, and may connect
\* again: nothing of the old connection is left.
Disconnect ==
  /\ stream # "none"
  /\ stream' = "none"
  /\ listening' = FALSE
  /\ queue' = <<>> /\ yielded' = <<>> /\ last' = 0 /\ lost' = {}
  /\ snap' = [updated |-> 0, over |-> FALSE]
  /\ UNCHANGED <<emission, storage, net, connects>>

Serve == SendSnapshot \/ Open \/ Take \/ TimeOut \/ Replay

EmitStep(e) ==
  \/ \E kind \in Kind : Create(e, kind)
  \/ Commit(e) \/ Publish(e) \/ Unpublished(e)

Next ==
  \/ \E e \in Emitters : EmitStep(e)
  \/ \E event \in net : Receive(event)
  \/ Connect \/ Listen \/ Serve \/ Disconnect

\* The server goes on with a stream as long as the client stays; nothing makes
\* Redis deliver or an emitter go on.
Spec == Init /\ [][Next]_vars
FairSpec == Spec /\ WF_vars(Serve)
-----------------------------------------------------------------------------
(* Properties.                                                             *)

\* The type invariant of a task's events and of one stream.
TypeOK ==
  /\ clock \in 0 .. MaxEvents
  /\ hand \in [Emitters -> Event \union {NoEvent}]
  /\ said \in [Emitters -> Kind]
  /\ live \in 0 .. clock /\ row \in Snapshot /\ snap \in Snapshot
  /\ table \subseteq Event /\ net \subseteq Event
  /\ stream \in {"none", "connected", "snapshot", "open", "replaying", "closed"}
  /\ listening \in BOOLEAN
  /\ queue \in Seq(Event) /\ Len(queue) <= Capacity
  /\ last \in Nat
  /\ yielded \in Seq(Event) /\ lost \subseteq Event
  /\ connects \in 0 .. MaxConnects

\* A client is sent no event twice, although live delivery and replay overlap
\* (the seen set of events()).
SentOnce == IsInjective(yielded)

\* An event still on its way: queued, published or about to be.
UnderWay(event) ==
  \/ event \in ToSet(queue)
  \/ event \in net
  \/ \E e \in Emitters : hand[e] = event

\* As long as a stream is open, an event in the table that live delivery did
\* not lose is covered by the snapshot, has been sent or is on its way, in
\* whatever order emitters, Redis and the replay bring it (events, publish).
NothingMissed ==
  stream \in {"open", "replaying"} =>
    \A event \in table \ lost :
      event.ts <= snap.updated \/ event \in ToSet(yielded) \/ UnderWay(event)

\* An event that was lost is found by the next replay: "SSE periodically
\* replays missed events from the database".
LostIsReplayed ==
  stream \in {"open", "replaying"} =>
    \A event \in table :
      \/ event.ts <= snap.updated
      \/ event \in ToSet(yielded)
      \/ UnderWay(event)
      \/ event.ts > last

\* The stream's end is on record, and nobody had anything to say after it.
EndIsLast == \E e \in table : e.kind = "end" /\ e.ts = clock

\* A client that stays connected to a task that ended gets the stream's end,
\* whatever Redis loses and however full the queue was, unless some process
\* adds an event after the end (events).
StreamEnds == Subscribed /\ EndIsLast ~> ~Subscribed \/ ~EndIsLast
=============================================================================
