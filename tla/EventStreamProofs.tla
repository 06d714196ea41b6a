------------------------- MODULE EventStreamProofs -------------------------
(***************************************************************************)
(* Proofs about module EventStream, for any emitters, capacities, replay   *)
(* limits and bounds: its types, that a client is sent no event twice and  *)
(* that an open stream misses nothing live delivery did not lose.          *)
(***************************************************************************)
EXTENDS EventStream, ChronologyProofs

\* Events as a query can order them: in the past, with times of their own,
\* those that are still to be written included.
Known == table \union {hand[e] : e \in {f \in Emitters : hand[f] # NoEvent}}

Timing ==
  /\ IsFiniteSet(table) /\ NoEvent \notin table
  /\ \A x \in Known : x.ts <= clock
  /\ \A x, y \in Known : x.ts = y.ts => x = y

\* The snapshot is not newer than what it was taken from.
SnapInv == owned /\ Subscribed => snap.updated <= live

\* NothingMissed from the moment the queue is subscribed.
CoverInv ==
  Subscribed =>
    \A event \in table \ lost :
      event.ts <= snap.updated \/ event \in ToSet(yielded) \/ UnderWay(event)

IInv == TypeOK /\ Timing /\ SentOnce /\ SnapInv /\ CoverInv

-----------------------------------------------------------------------------
(* What the table returns.                                                 *)

\* The events of the table have times of their own.
LEMMA TableDated ==
  ASSUME TypeOK, Timing, NEW S \in SUBSET table
  PROVE  Dated(S)
<1>1. IsFiniteSet(S)
  BY FS_Subset DEF Timing
<1>2. \A x \in S : x \in Known /\ x.ts \in Nat
  BY DEF TypeOK, Event, Known
<1> QED BY <1>1, <1>2 DEF Timing, Dated

\* A query with a limit returns rows of the set it orders.
LEMMA LimitedRows ==
  ASSUME NEW S, Dated(S), NEW n \in Nat
  PROVE  LET later == Sorted(S)
             limited == SubSeq(later, 1, IF Len(later) < n THEN Len(later) ELSE n)
         IN limited \in Seq(S) /\ ToSet(limited) \subseteq S
<1> DEFINE later == Sorted(S)
           m == IF Len(later) < n THEN Len(later) ELSE n
<1>1. later \in Seq(S)
  BY SortedRows
<1>2. m \in 0 .. Len(later)
  BY <1>1
<1>3. SubSeq(later, 1, m) \in Seq(S)
  BY <1>1, <1>2, Prefix
<1> QED BY <1>3, Elements

\* A replay handles events of the table.
LEMMA Batch ==
  ASSUME TypeOK, Timing
  PROVE  LET batch == Handled(EventsAfter(last))
         IN /\ batch \in Seq(Event) /\ ToSet(batch) \subseteq table
            /\ batch # <<>> => Last(batch) \in Event
<1> DEFINE after == EventsAfter(last)
           batch == Handled(after)
           ends == {i \in DOMAIN after : after[i].kind = "end" /\ after[i] \notin ToSet(yielded)}
           later == {e \in table : e.ts > last}
<1>1. after \in Seq(later)
  BY TableDated, LimitedRows, StreamBoundsAssumption DEF EventsAfter
<1>2. after \in Seq(Event) /\ ToSet(after) \subseteq table
  <2>1. later \subseteq Event /\ later \subseteq table
    BY DEF TypeOK
  <2>2. ToSet(after) \subseteq later
    BY <1>1, Elements
  <2> HIDE DEF after, later
  <2> QED BY <1>1, <2>1, <2>2
<1>3. batch \in Seq(Event) /\ ToSet(batch) \subseteq table
  <2>1. CASE ends = {}
    BY <1>2, <2>1 DEF Handled
  <2>2. CASE ends # {}
    <3>1. ends \in SUBSET Nat /\ ends \subseteq 1 .. Len(after)
      BY <1>2
    <3>2. Min(ends) \in 0 .. Len(after)
      BY <2>2, <3>1, LeastOne
    <3>3. batch = SubSeq(after, 1, Min(ends))
      BY <2>2 DEF Handled
    <3> HIDE DEF after, ends, batch
    <3> QED BY <1>2, <3>2, <3>3, Prefix
  <2> QED BY <2>1, <2>2
<1>4. batch # <<>> => Last(batch) \in Event
  <2> HIDE DEF batch
  <2> QED BY <1>3, EmptySeq, ElementOfSeq DEF Last
<1> QED BY <1>3, <1>4

\* The events of a batch that were not sent before, in order.
LEMMA Unsent ==
  ASSUME TypeOK, Timing, NEW batch, ToSet(batch) \subseteq table
  PROVE  LET new == Sorted(ToSet(batch) \ ToSet(yielded))
         IN /\ new \in Seq(Event) /\ IsInjective(new)
            /\ ToSet(new) \intersect ToSet(yielded) = {}
<1> DEFINE S == ToSet(batch) \ ToSet(yielded)
           new == Sorted(S)
<1>1. S \in SUBSET table /\ S \subseteq Event
  BY DEF TypeOK
<1>2. Dated(S)
  BY <1>1, TableDated
<1>3. new \in Seq(S)
  BY <1>2, SortedRows
<1>4. IsInjective(new)
  BY <1>2, SortedOnce
<1>5. ToSet(new) \subseteq S
  BY <1>3, Elements
<1>6. new \in Seq(Event)
  <2> HIDE DEF S, new
  <2> QED BY <1>1, <1>3
<1> QED BY <1>4, <1>5, <1>6

-----------------------------------------------------------------------------
(* The types.                                                              *)

LEMMA InitInv == Init => IInv
<1> SUFFICES ASSUME Init PROVE IInv
  OBVIOUS
<1>1. TypeOK
  <2>1. <<>> \in Seq(Event) /\ Len(<<>>) = 0
    BY EmptySeq
  <2>2. row \in Snapshot
    BY DEF Init, Snapshot
  <2>3. queue \in Seq(Event) /\ Len(queue) <= Capacity /\ yielded \in Seq(Event)
    BY <2>1, StreamBoundsAssumption DEF Init
  <2>4. hand \in [Emitters -> Event \union {NoEvent}] /\ said \in [Emitters -> Kind]
    BY DEF Init, Kind
  <2>5. /\ clock \in 0 .. MaxEvents /\ live \in 0 .. clock /\ connects \in 0 .. MaxConnects
        /\ snap \in Snapshot /\ last \in Nat
    BY <2>2, StreamBoundsAssumption DEF Init
  <2>6. /\ table \subseteq Event /\ net \subseteq Event /\ lost \subseteq Event
        /\ listening \in BOOLEAN /\ stream \in {"none"}
    BY DEF Init
  <2> QED BY <2>2, <2>3, <2>4, <2>5, <2>6 DEF TypeOK
<1>2. Timing
  BY FS_EmptySet DEF Init, Timing, Known
<1>3. SentOnce /\ SnapInv /\ CoverInv
  BY DEF Init, SentOnce, IsInjective, SnapInv, CoverInv, Subscribed
<1> QED BY <1>1, <1>2, <1>3 DEF IInv

\* A subscriber's queue after put_nowait.
LEMMA PutTypes ==
  ASSUME TypeOK, NEW event \in Event, Put(event)
  PROVE  queue' \in Seq(Event) /\ Len(queue') <= Capacity /\ lost' \subseteq Event
<1>1. CASE Len(queue) < Capacity
  <2>1. queue' = Append(queue, event) /\ lost' = lost
    BY <1>1 DEF Put
  <2>2. queue \in Seq(Event) /\ lost \subseteq Event
    BY DEF TypeOK
  <2>3. queue' \in Seq(Event) /\ Len(queue') = Len(queue) + 1
    BY <2>1, <2>2, AppendProperties
  <2> QED BY <1>1, <2>1, <2>2, <2>3, StreamBoundsAssumption
<1>2. CASE ~(Len(queue) < Capacity)
  BY <1>2 DEF Put, Lose, TypeOK
<1> QED BY <1>1, <1>2

LEMMA EmitTypes ==
  ASSUME TypeOK, NEW e \in Emitters, EmitStep(e)
  PROVE  TypeOK'
<1>1. ASSUME NEW kind \in Kind, Create(e, kind)
      PROVE  TypeOK'
  <2>1. clock' \in 0 .. MaxEvents /\ live' \in 0 .. clock'
    BY <1>1, StreamBoundsAssumption DEF Create, TypeOK
  <2>2. hand' \in [Emitters -> Event \union {NoEvent}]
    BY <1>1, <2>1 DEF Create, TypeOK, Event
  <2>3. said' \in [Emitters -> Kind]
    BY <1>1 DEF Create, TypeOK
  <2> QED BY <1>1, <2>1, <2>2, <2>3 DEF Create, TypeOK, storage, client
<1>2. ASSUME Commit(e)
      PROVE  TypeOK'
  <2>1. hand[e] \in Event
    BY <1>2 DEF Commit, TypeOK
  <2>2. row' \in Snapshot
    BY <1>2, <2>1 DEF Commit, Snapshot, Event, Over
  <2>3. table' \subseteq Event
    BY <1>2, <2>1 DEF Commit, TypeOK
  <2> QED BY <1>2, <2>2, <2>3 DEF Commit, TypeOK, emission, client
<1>3. ASSUME Publish(e)
      PROVE  TypeOK'
  <2>1. hand[e] \in Event
    BY <1>3 DEF Publish, TypeOK
  <2>2. queue' \in Seq(Event) /\ Len(queue') <= Capacity /\ lost' \subseteq Event
    BY <1>3, <2>1, PutTypes DEF Publish, TypeOK
  <2>3. net' \subseteq Event
    BY <1>3, <2>1 DEF Publish, TypeOK
  <2>4. hand' \in [Emitters -> Event \union {NoEvent}]
    BY <1>3 DEF Publish, TypeOK
  <2> QED BY <1>3, <2>2, <2>3, <2>4 DEF Publish, TypeOK, storage
<1>4. ASSUME Unpublished(e)
      PROVE  TypeOK'
  <2>1. hand[e] \in Event
    BY <1>4 DEF Unpublished, TypeOK
  <2>2. lost' \subseteq Event
    BY <1>4, <2>1 DEF Unpublished, Lose, TypeOK
  <2>3. hand' \in [Emitters -> Event \union {NoEvent}]
    BY <1>4 DEF Unpublished, TypeOK
  <2> QED BY <1>4, <2>2, <2>3 DEF Unpublished, TypeOK, storage
<1> QED BY <1>1, <1>2, <1>3, <1>4 DEF EmitStep

LEMMA ReceiveTypes ==
  ASSUME TypeOK, NEW event \in net, Receive(event)
  PROVE  TypeOK'
<1>1. event \in Event
  BY DEF TypeOK
<1>2. queue' \in Seq(Event) /\ Len(queue') <= Capacity /\ lost' \subseteq Event
  BY <1>1, PutTypes DEF Receive, TypeOK, Lose
<1> QED BY <1>2 DEF Receive, TypeOK, emission, storage

LEMMA ClientTypes ==
  ASSUME TypeOK, Timing, Connect \/ Listen \/ Serve \/ Disconnect
  PROVE  TypeOK'
<1>1. LiveTask \in Snapshot /\ Seen \in Snapshot
  BY DEF LiveTask, Seen, Snapshot, TypeOK
<1>2. CASE Connect
  <2>1. snap' \in Snapshot
    BY <1>1, <1>2 DEF Connect, TypeOK
  <2>2. lost' \subseteq Event /\ connects' \in 0 .. MaxConnects
    BY <1>2, StreamBoundsAssumption DEF Connect, TypeOK
  <2> QED BY <1>2, <2>1, <2>2 DEF Connect, TypeOK, emission, storage
<1>3. CASE Listen
  BY <1>3 DEF Listen, TypeOK, emission, storage, client
<1>4. CASE SendSnapshot
  <2>1. snap' \in Snapshot /\ last' \in Nat
    BY <1>1, <1>4 DEF SendSnapshot, Snapshot
  <2> QED BY <1>4, <2>1 DEF SendSnapshot, TypeOK, emission, storage
<1>5. CASE Open
  BY <1>5 DEF Open, TypeOK, emission, storage
<1>6. CASE Take
  <2>1. /\ Head(queue) \in Event /\ Tail(queue) \in Seq(Event)
        /\ Len(Tail(queue)) = Len(queue) - 1
    BY <1>6, Elements DEF Take, TypeOK
  <2>2. last' \in Nat
    <3>1. Head(queue).ts \in Nat /\ last \in Nat
      BY <2>1 DEF Event, TypeOK
    <3>2. last' \in {last, Head(queue).ts}
      BY <1>6, <3>1, GreaterOfTwo DEF Take
    <3> QED BY <3>1, <3>2
  <2>3. yielded' \in Seq(Event)
    BY <1>6, <2>1, AppendProperties DEF Take, TypeOK
  <2>4. queue' \in Seq(Event) /\ Len(queue') <= Capacity
    BY <1>6, <2>1, StreamBoundsAssumption DEF Take, TypeOK
  <2> QED BY <1>6, <2>2, <2>3, <2>4 DEF Take, TypeOK, emission, storage
<1>7. CASE TimeOut
  BY <1>7 DEF TimeOut, TypeOK, emission, storage
<1>8. CASE Replay
  <2> DEFINE batch == Handled(EventsAfter(last))
             new == Sorted(ToSet(batch) \ ToSet(yielded))
  <2>1. /\ batch \in Seq(Event) /\ ToSet(batch) \subseteq table
        /\ batch # <<>> => Last(batch) \in Event
    BY Batch
  <2>2. new \in Seq(Event)
    <3> HIDE DEF batch
    <3> QED BY <2>1, Unsent
  <2>3. last' = (IF batch = <<>> THEN last ELSE Last(batch).ts) /\ yielded' = yielded \o new
    BY <1>8 DEF Replay
  <2>4. stream' \in {"closed", "open"}
    BY <1>8 DEF Replay
  <2>5. yielded' \in Seq(Event) /\ last' \in Nat
    <3> HIDE DEF batch, new
    <3> QED BY <2>1, <2>2, <2>3, ConcatProperties DEF TypeOK, Event
  <2> QED BY <1>8, <2>4, <2>5 DEF Replay, TypeOK, emission, storage
<1>9. CASE Disconnect
  <2>1. <<>> \in Seq(Event) /\ Len(<<>>) = 0 /\ [updated |-> 0, over |-> FALSE] \in Snapshot
    BY EmptySeq DEF Snapshot
  <2>2. queue' \in Seq(Event) /\ Len(queue') <= Capacity /\ yielded' \in Seq(Event)
    BY <1>9, <2>1, StreamBoundsAssumption DEF Disconnect
  <2>3. snap' \in Snapshot /\ last' \in Nat /\ lost' \subseteq Event
    BY <1>9, <2>1 DEF Disconnect
  <2> QED BY <1>9, <2>2, <2>3 DEF Disconnect, TypeOK, emission, storage
<1> QED BY <1>2, <1>3, <1>4, <1>5, <1>6, <1>7, <1>8, <1>9 DEF Serve

LEMMA NextTypes ==
  ASSUME TypeOK, Timing, Next
  PROVE  TypeOK'
BY EmitTypes, ReceiveTypes, ClientTypes DEF Next

-----------------------------------------------------------------------------
(* Times and what was sent.                                                *)

LEMMA NextTiming ==
  ASSUME TypeOK, Timing, [Next]_vars
  PROVE  Timing'
<1>1. ASSUME NEW e \in Emitters, NEW kind \in Kind, Create(e, kind)
      PROVE  Timing'
  <2> DEFINE new == [ts |-> clock + 1, kind |-> kind]
  <2>1. clock \in Nat /\ clock' = clock + 1 /\ table' = table
    BY <1>1 DEF Create, TypeOK, storage
  <2>2. Known' \subseteq Known \union {new}
    <3>1. hand' = [hand EXCEPT ![e] = new]
      BY <1>1 DEF Create
    <3>2. \A f \in Emitters : hand'[f] = hand[f] \/ hand'[f] = new
      BY <3>1 DEF TypeOK
    <3> QED BY <2>1, <3>2 DEF Known
  <2>3. \A x \in Known : x.ts \in Nat /\ x.ts <= clock
    BY DEF Timing, Known, TypeOK, Event
  <2>4. new.ts = clock + 1
    OBVIOUS
  <2> HIDE DEF new
  <2>5. \A x \in Known' : x.ts <= clock'
    BY <2>1, <2>2, <2>3, <2>4
  <2>6. \A x, y \in Known' : x.ts = y.ts => x = y
    BY <2>1, <2>2, <2>3, <2>4 DEF Timing
  <2> QED BY <2>1, <2>5, <2>6 DEF Timing
<1>2. ASSUME NEW e \in Emitters, Commit(e)
      PROVE  Timing'
  <2>1. hand[e] \in Known
    BY <1>2 DEF Commit, Known
  <2>2. Known' \subseteq Known /\ clock' = clock
    BY <1>2, <2>1 DEF Commit, Known, emission
  <2>3. IsFiniteSet(table') /\ NoEvent \notin table'
    BY <1>2, FS_AddElement DEF Commit, Timing
  <2> QED BY <2>2, <2>3 DEF Timing
<1>3. ASSUME NEW e \in Emitters, Publish(e) \/ Unpublished(e)
      PROVE  Timing'
  <2>1. table' = table /\ clock' = clock /\ hand' = [hand EXCEPT ![e] = NoEvent]
    BY <1>3 DEF Publish, Unpublished, storage
  <2>2. \A f \in Emitters : hand'[f] = hand[f] \/ hand'[f] = NoEvent
    BY <2>1 DEF TypeOK
  <2>3. Known' \subseteq Known
    BY <2>1, <2>2 DEF Known
  <2> QED BY <2>1, <2>3 DEF Timing
<1>4. CASE UNCHANGED <<clock, hand, table>>
  BY <1>4 DEF Timing, Known
<1>5. ASSUME NEW event \in net, Receive(event)
      PROVE  UNCHANGED <<clock, hand, table>>
  BY <1>5 DEF Receive, emission, storage
<1>6. ASSUME Connect \/ Listen \/ Serve \/ Disconnect
      PROVE  UNCHANGED <<clock, hand, table>>
  BY <1>6 DEF Connect, Listen, Serve, SendSnapshot, Open, Take, TimeOut, Replay, Disconnect,
              emission, storage
<1>7. CASE UNCHANGED vars
  BY <1>7, <1>4 DEF vars, emission, storage
<1> QED BY <1>1, <1>2, <1>3, <1>4, <1>5, <1>6, <1>7 DEF Next, EmitStep

\* Nothing is sent twice: the events of a replay and a live event are compared
\* with what was sent before.
LEMMA NextSentOnce ==
  ASSUME TypeOK, Timing, SentOnce, [Next]_vars
  PROVE  SentOnce'
<1>1. CASE yielded' = yielded
  BY <1>1 DEF SentOnce, IsInjective
<1>2. CASE Take
  <2>1. Head(queue) \in Event
    BY <1>2, Elements DEF Take, TypeOK
  <2>2. \/ yielded' = yielded
        \/ yielded' = Append(yielded, Head(queue)) /\ Head(queue) \notin ToSet(yielded)
    BY <1>2 DEF Take
  <2>3. yielded \in Seq(Event)
    BY DEF TypeOK
  <2>4. Head(queue) \notin ToSet(yielded) => IsInjective(Append(yielded, Head(queue)))
    BY <2>1, <2>3, InjectiveAppend DEF SentOnce
  <2> QED BY <1>1, <2>2, <2>4 DEF SentOnce
<1>3. CASE Replay
  <2> DEFINE batch == Handled(EventsAfter(last))
             new == Sorted(ToSet(batch) \ ToSet(yielded))
  <2>1. ToSet(batch) \subseteq table
    BY Batch
  <2>2. yielded' = yielded \o new
    BY <1>3 DEF Replay
  <2>3. new \in Seq(Event) /\ IsInjective(new) /\ ToSet(new) \intersect ToSet(yielded) = {}
    <3> HIDE DEF batch
    <3> QED BY <2>1, Unsent
  <2>4. IsInjective(yielded \o new)
    <3> HIDE DEF new
    <3> QED BY <2>3, InjectiveConcat DEF SentOnce, TypeOK
  <2> QED BY <2>2, <2>4 DEF SentOnce
<1>4. CASE Disconnect
  BY <1>4 DEF Disconnect, SentOnce, IsInjective
<1>5. ASSUME NEW e \in Emitters, EmitStep(e)
      PROVE  yielded' = yielded
  BY <1>5 DEF EmitStep, Create, Commit, Publish, Unpublished, client
<1>6. ASSUME NEW event \in net, Receive(event)
      PROVE  yielded' = yielded
  BY <1>6 DEF Receive
<1>7. ASSUME Connect \/ Listen \/ SendSnapshot \/ Open \/ TimeOut \/ UNCHANGED vars
      PROVE  yielded' = yielded
  BY <1>7 DEF Connect, Listen, SendSnapshot, Open, TimeOut, client, vars
<1> QED BY <1>1, <1>2, <1>3, <1>4, <1>5, <1>6, <1>7 DEF Next, Serve

-----------------------------------------------------------------------------
(* Nothing is missed.                                                      *)

LEMMA NextSnap ==
  ASSUME TypeOK, SnapInv, [Next]_vars
  PROVE  SnapInv'
<1>1. /\ clock \in Nat /\ live \in Nat /\ live <= clock /\ snap.updated \in Nat
      /\ LiveTask.updated = live
  BY DEF TypeOK, Snapshot, LiveTask
<1>2. ASSUME NEW e \in Emitters, EmitStep(e)
      PROVE  /\ UNCHANGED <<owned, stream, snap>>
             /\ live' = live \/ live' = clock + 1
  BY <1>2 DEF EmitStep, Create, Commit, Publish, Unpublished, client, emission
<1>3. ASSUME NEW event \in net, Receive(event)
      PROVE  UNCHANGED <<owned, stream, snap, live>>
  BY <1>3 DEF Receive, emission
<1>4. ASSUME Listen \/ UNCHANGED vars
      PROVE  UNCHANGED <<owned, stream, snap, live>>
  BY <1>4 DEF Listen, emission, client, vars
<1>5. ASSUME Open \/ Take \/ TimeOut \/ Replay
      PROVE  UNCHANGED <<owned, snap, live>> /\ Subscribed
  BY <1>5 DEF Open, Take, TimeOut, Replay, emission, Subscribed
<1>6. CASE Connect \/ SendSnapshot
  <2>1. UNCHANGED <<owned, live>>
    BY <1>6 DEF Connect, SendSnapshot, emission
  <2>2. owned => snap' = LiveTask
    BY <1>6 DEF Connect, SendSnapshot, Seen
  <2> QED BY <1>1, <2>1, <2>2 DEF SnapInv
<1>7. CASE Disconnect
  <2>1. ~Subscribed'
    BY <1>7 DEF Disconnect, Subscribed
  <2> QED BY <2>1 DEF SnapInv
<1>8. CASE UNCHANGED <<owned, stream, snap>> /\ (live' = live \/ live' = clock + 1)
  BY <1>1, <1>8 DEF SnapInv, Subscribed
<1>9. CASE UNCHANGED <<owned, snap, live>> /\ Subscribed
  BY <1>9 DEF SnapInv
<1> QED BY <1>1, <1>2, <1>3, <1>4, <1>5, <1>6, <1>7, <1>8, <1>9 DEF Next, Serve

\* An event that goes to the queue is under way there, or is lost.
LEMMA PutKeeps ==
  ASSUME TypeOK, Subscribed, NEW event \in Event, Put(event)
  PROVE  /\ event \in ToSet(queue') \/ event \in lost'
         /\ ToSet(queue) \subseteq ToSet(queue') /\ lost \subseteq lost'
<1>1. queue \in Seq(Event)
  BY DEF TypeOK
<1>2. ToSet(Append(queue, event)) = ToSet(queue) \union {event}
  BY <1>1, Elements
<1> QED BY <1>2 DEF Put, Lose

\* What is under way stays so, arrives or is lost, and what was sent stays sent;
\* then a step that adds to the table only what was under way, and replaces the
\* snapshot only by a newer one, keeps everything covered.
LEMMA CoverKept ==
  ASSUME TypeOK, TypeOK', Timing', CoverInv, Subscribed,
         \A event \in table' : event \in table \/ \E e \in Emitters : hand[e] = event,
         lost \subseteq lost', ToSet(yielded) \subseteq ToSet(yielded'),
         snap.updated <= snap'.updated,
         \A event \in Event \ {NoEvent} :
           UnderWay(event) => \/ UnderWay(event)' \/ event \in lost'
                              \/ event \in ToSet(yielded')
  PROVE  CoverInv'
<1> SUFFICES ASSUME NEW event \in table' \ lost'
             PROVE  event.ts <= snap'.updated \/ event \in ToSet(yielded') \/ UnderWay(event)'
  BY DEF CoverInv
<1>1. event \in Event \ {NoEvent} /\ event.ts \in Nat
  BY DEF TypeOK, Timing, Event
<1>2. CASE event \in table
  <2>1. event.ts <= snap.updated \/ event \in ToSet(yielded) \/ UnderWay(event)
    BY <1>2 DEF CoverInv
  <2>2. snap.updated \in Nat /\ snap'.updated \in Nat
    BY DEF TypeOK, Snapshot
  <2> QED BY <1>1, <2>1, <2>2
<1>3. CASE event \notin table
  <2>1. UnderWay(event)
    BY <1>3 DEF UnderWay
  <2> QED BY <1>1, <2>1
<1> QED BY <1>2, <1>3

\* The steps of emitters and of Redis.
LEMMA EmitCover ==
  ASSUME TypeOK, TypeOK', Timing', CoverInv, Subscribed, NEW e \in Emitters, EmitStep(e)
  PROVE  CoverInv'
<1>0. snap.updated \in Nat
  BY DEF TypeOK, Snapshot
<1>1. ASSUME NEW kind \in Kind, Create(e, kind)
      PROVE  CoverInv'
  <2>1. UNCHANGED <<table, net, queue, snap, yielded, lost>>
    BY <1>1 DEF Create, storage, client
  <2>2. \A f \in Emitters : hand[f] # NoEvent => hand'[f] = hand[f]
    BY <1>1 DEF Create, TypeOK
  <2>3. \A event \in Event \ {NoEvent} : UnderWay(event) => UnderWay(event)'
    BY <2>1, <2>2 DEF UnderWay
  <2> QED BY <1>0, <2>1, <2>3, CoverKept
<1>2. ASSUME Commit(e)
      PROVE  CoverInv'
  <2>1. UNCHANGED <<hand, net, queue, snap, yielded, lost>> /\ table' = table \union {hand[e]}
    BY <1>2 DEF Commit, emission, client
  <2>2. \A event \in Event \ {NoEvent} : UnderWay(event) => UnderWay(event)'
    BY <2>1 DEF UnderWay
  <2> QED BY <1>0, <2>1, <2>2, CoverKept
<1>3. ASSUME Publish(e)
      PROVE  CoverInv'
  <2>1. /\ UNCHANGED <<table, snap, yielded>> /\ hand[e] \in Event
        /\ hand' = [hand EXCEPT ![e] = NoEvent]
    BY <1>3 DEF Publish, TypeOK, storage
  <2>2. \A f \in Emitters : f # e => hand'[f] = hand[f]
    BY <2>1 DEF TypeOK
  <2>3. /\ ToSet(queue) \subseteq ToSet(queue') /\ lost \subseteq lost' /\ net \subseteq net'
        /\ hand[e] \in ToSet(queue') \/ hand[e] \in lost' \/ hand[e] \in net'
    <3>1. CASE e \in Local
      BY <1>3, <2>1, <3>1, PutKeeps DEF Publish
    <3>2. CASE e \notin Local
      BY <1>3, <3>2 DEF Publish
    <3> QED BY <3>1, <3>2
  <2>4. \A event \in Event : UnderWay(event) => UnderWay(event)' \/ event \in lost'
    BY <2>2, <2>3 DEF UnderWay
  <2> QED BY <1>0, <2>1, <2>3, <2>4, CoverKept
<1>4. ASSUME Unpublished(e)
      PROVE  CoverInv'
  <2>1. /\ UNCHANGED <<table, snap, yielded, net, queue>>
        /\ hand' = [hand EXCEPT ![e] = NoEvent] /\ lost' = lost \union {hand[e]}
    BY <1>4 DEF Unpublished, Lose, storage
  <2>2. \A f \in Emitters : f # e => hand'[f] = hand[f]
    BY <2>1 DEF TypeOK
  <2>3. \A event \in Event : UnderWay(event) => UnderWay(event)' \/ event \in lost'
    BY <2>1, <2>2 DEF UnderWay
  <2> QED BY <1>0, <2>1, <2>3, CoverKept
<1> QED BY <1>1, <1>2, <1>3, <1>4 DEF EmitStep

LEMMA ReceiveCover ==
  ASSUME TypeOK, TypeOK', Timing', CoverInv, Subscribed, NEW event \in net, Receive(event)
  PROVE  CoverInv'
<1>0. snap.updated \in Nat /\ event \in Event
  BY DEF TypeOK, Snapshot
<1>1. UNCHANGED <<table, hand, snap, yielded>> /\ net' = net \ {event}
  BY DEF Receive, emission, storage
<1>2. /\ ToSet(queue) \subseteq ToSet(queue') /\ lost \subseteq lost'
      /\ event \in ToSet(queue') \/ event \in lost'
  <2>1. CASE listening
    BY <1>0, <2>1, PutKeeps DEF Receive
  <2>2. CASE ~listening
    BY <2>2 DEF Receive, Lose
  <2> QED BY <2>1, <2>2
<1>3. \A x \in Event : UnderWay(x) => UnderWay(x)' \/ x \in lost'
  BY <1>1, <1>2 DEF UnderWay
<1> QED BY <1>0, <1>1, <1>2, <1>3, CoverKept

\* The steps of the stream that keep it open.
LEMMA ClientCover ==
  ASSUME TypeOK, TypeOK', Timing, Timing', SnapInv, CoverInv, Subscribed,
         Listen \/ Serve
  PROVE  CoverInv'
<1>0. snap.updated \in Nat /\ yielded \in Seq(Event) /\ queue \in Seq(Event)
  BY DEF TypeOK, Snapshot
<1>1. CASE Listen \/ Open \/ TimeOut
  <2>1. UNCHANGED <<table, hand, net, queue, snap, yielded, lost>>
    BY <1>1 DEF Listen, Open, TimeOut, emission, storage, client
  <2>2. \A event \in Event : UnderWay(event) => UnderWay(event)'
    BY <2>1 DEF UnderWay
  <2> QED BY <1>0, <2>1, <2>2, CoverKept
<1>2. CASE SendSnapshot
  <2>1. UNCHANGED <<table, hand, net, queue, yielded, lost>> /\ snap' = Seen
    BY <1>2 DEF SendSnapshot, emission, storage
  <2>2. snap.updated <= snap'.updated
    <3>1. CASE owned
      BY <1>0, <2>1, <3>1 DEF Seen, LiveTask, SnapInv
    <3>2. CASE ~owned
      BY <1>0, <2>1, <3>2 DEF Seen
    <3> QED BY <3>1, <3>2
  <2>3. \A event \in Event : UnderWay(event) => UnderWay(event)'
    BY <2>1 DEF UnderWay
  <2> QED BY <2>1, <2>2, <2>3, CoverKept
<1>3. CASE Take
  <2>1. /\ UNCHANGED <<table, hand, net, snap, lost>> /\ queue # <<>> /\ queue' = Tail(queue)
        /\ \/ yielded' = yielded /\ Head(queue) \in ToSet(yielded)
           \/ yielded' = Append(yielded, Head(queue))
    BY <1>3 DEF Take, emission, storage
  <2>2. ToSet(queue) = {Head(queue)} \union ToSet(Tail(queue)) /\ Head(queue) \in Event
    BY <1>0, <2>1, Elements
  <2>3. ToSet(Append(yielded, Head(queue))) = ToSet(yielded) \union {Head(queue)}
    BY <1>0, <2>2, Elements
  <2>4. ToSet(yielded) \subseteq ToSet(yielded') /\ Head(queue) \in ToSet(yielded')
    BY <2>1, <2>3
  <2>5. \A event \in Event : UnderWay(event) => UnderWay(event)' \/ event \in ToSet(yielded')
    BY <2>1, <2>2, <2>4 DEF UnderWay
  <2> QED BY <1>0, <2>1, <2>4, <2>5, CoverKept
<1>4. CASE Replay
  <2> DEFINE batch == Handled(EventsAfter(last))
             new == Sorted(ToSet(batch) \ ToSet(yielded))
  <2>1. UNCHANGED <<table, hand, net, queue, snap, lost>> /\ yielded' = yielded \o new
    BY <1>4 DEF Replay, emission, storage
  <2>2. new \in Seq(Event)
    <3>1. ToSet(batch) \subseteq table
      BY Batch
    <3> HIDE DEF batch
    <3> QED BY <3>1, Unsent
  <2>3. ToSet(yielded) \subseteq ToSet(yielded \o new)
    <3> HIDE DEF new
    <3> QED BY <1>0, <2>2, Elements
  <2>4. \A event \in Event : UnderWay(event) => UnderWay(event)'
    BY <2>1 DEF UnderWay
  <2> HIDE DEF new
  <2> QED BY <1>0, <2>1, <2>3, <2>4, CoverKept
<1> QED BY <1>1, <1>2, <1>3, <1>4 DEF Serve

LEMMA NextCover ==
  ASSUME TypeOK, TypeOK', Timing, Timing', SnapInv, CoverInv, [Next]_vars
  PROVE  CoverInv'
<1>1. CASE ~Subscribed'
  BY <1>1 DEF CoverInv
<1>2. CASE Connect
  <2>1. table' = table /\ lost' = {e \in table : e.ts > snap'.updated}
    BY <1>2 DEF Connect, storage
  <2>2. \A event \in table' \ lost' : event.ts <= snap'.updated
    <3>1. snap'.updated \in Nat /\ \A event \in table : event.ts \in Nat
      BY DEF TypeOK, Event, Snapshot
    <3> QED BY <2>1, <3>1
  <2> QED BY <2>2 DEF CoverInv
<1>3. CASE UNCHANGED vars
  BY <1>3 DEF CoverInv, UnderWay, Subscribed, vars, emission, storage, client
<1>4. CASE Disconnect
  BY <1>1, <1>4 DEF Disconnect, Subscribed
<1>5. ASSUME Subscribed, NEW e \in Emitters, EmitStep(e)
      PROVE  CoverInv'
  BY <1>5, EmitCover
<1>6. ASSUME Subscribed, NEW event \in net, Receive(event)
      PROVE  CoverInv'
  BY <1>6, ReceiveCover
<1>7. ASSUME Listen \/ Serve
      PROVE  CoverInv'
  <2>1. Subscribed
    BY <1>7 DEF Listen, Serve, SendSnapshot, Open, Take, TimeOut, Replay, Subscribed
  <2> QED BY <1>7, <2>1, ClientCover
<1>8. ASSUME NEW e \in Emitters, EmitStep(e)
      PROVE  stream' = stream
  BY <1>8 DEF EmitStep, Create, Commit, Publish, Unpublished, client
<1>9. ASSUME NEW event \in net, Receive(event)
      PROVE  stream' = stream
  BY <1>9 DEF Receive
<1> QED BY <1>1, <1>2, <1>3, <1>4, <1>5, <1>6, <1>7, <1>8, <1>9 DEF Next, Subscribed

-----------------------------------------------------------------------------
(* The theorems.                                                           *)

LEMMA NextInv == IInv /\ [Next]_vars => IInv'
<1> SUFFICES ASSUME IInv, [Next]_vars PROVE IInv'
  OBVIOUS
<1>1. TypeOK'
  <2>1. CASE UNCHANGED vars
    BY <2>1 DEF IInv, TypeOK, vars, emission, storage, client
  <2> QED BY <2>1, NextTypes DEF IInv
<1>2. Timing' /\ SentOnce' /\ SnapInv'
  BY NextTiming, NextSentOnce, NextSnap DEF IInv
<1>3. CoverInv'
  BY <1>1, <1>2, NextCover DEF IInv
<1> QED BY <1>1, <1>2, <1>3 DEF IInv

THEOREM InvHolds == Spec => []IInv
<1>1. Init => IInv
  BY InitInv
<1>2. IInv /\ [Next]_vars => IInv'
  BY NextInv
<1> QED BY <1>1, <1>2, PTL DEF Spec

\* The types of a task's events and of one stream.
THEOREM TypeCorrect == Spec => []TypeOK
<1>1. IInv => TypeOK
  BY DEF IInv
<1> QED BY <1>1, InvHolds, PTL

\* A client is sent no event twice, however live delivery and replays overlap
\* and whatever Redis reorders (the seen set of events()).
THEOREM NothingTwice == Spec => []SentOnce
<1>1. IInv => SentOnce
  BY DEF IInv
<1> QED BY <1>1, InvHolds, PTL

\* An open stream has sent or is about to send every event of the table that is
\* newer than its snapshot, but for those live delivery lost (events, publish).
THEOREM AllCovered == Spec => []NothingMissed
<1>1. IInv => NothingMissed
  BY DEF IInv, CoverInv, NothingMissed, Subscribed
<1> QED BY <1>1, InvHolds, PTL
=============================================================================
