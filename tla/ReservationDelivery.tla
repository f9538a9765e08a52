-------------------------- MODULE ReservationDelivery --------------------------
(***************************************************************************)
(* From MS1's events to MS2's spots: the topic "reservations", MS2's         *)
(* consumer thread with its position and its committed offset, the event     *)
(* loop that runs the handlers, and the spots of one lot.                    *)
(*                                                                         *)
(* MS1's side is in Reservations: its events may reach the topic in any      *)
(* order, not at all, or twice when the broker's answer is lost.  The inner  *)
(* steps of MS2's handlers are in SpotAllocation: a handler is one step here, *)
(* as it never yields the event loop, and what can fail after its commit     *)
(* leaves the spots alone.                                                   *)
(***************************************************************************)
EXTENDS Integers, Sequences, FiniteSets

CONSTANTS
  Ids,         \* reservations of the lot
  Spots,       \* spots of the lot, numbered in the order of their labels
  Nobody,      \* no reservation
  MaxLength,   \* bound on the events that reach the topic
  MaxRestarts  \* bound on the crashes of MS2 and its stops without a commit

ASSUME DeliveryAssumption ==
  /\ Nobody \notin Ids
  /\ Spots \subseteq Nat
  /\ MaxLength \in Nat
  /\ MaxRestarts \in Nat

VARIABLES
  topic,      \* the events on the topic, in their order there
  consumer,   \* MS2: "on" if the consumer thread runs
  position,   \* MS2: how many events the consumer has taken
  committed,  \* the broker: the consumer group's offset, -1 if it has none
  waiting,    \* MS2: the event whose handler the consumer waits for, 0 if none
  queue,      \* MS2: the events whose handlers are scheduled on the loop
  spot,       \* MS2: "free", "reserved" or "occupied"
  restarts,   \* the crashes, and the stops without a commit, so far
  holder,     \* history: the reservation a spot was reserved for
  handled,    \* history: the events whose handler has run
  repeated,   \* history: the events whose handler has run more than once
  abandoned   \* history: the events that were given up, see GiveUp

vars == <<topic, consumer, position, committed, waiting, queue,
          spot, restarts, holder, handled, repeated, abandoned>>

\* MS1 never sets spotId, so that MS2 reads null, whose str() names no spot.
NoSpot == -1

\* cancelled and completed are "closed"; extended, which MS2 ignores, is left out.
Event == [type : {"created", "closed"}, id : Ids, spotId : {NoSpot}]

delivery == <<consumer, position, committed, waiting, queue, restarts>>
history == <<handled, repeated, abandoned>>

Init ==
  /\ topic = << >>
  /\ consumer = "off"
  /\ position = 0
  /\ committed = -1
  /\ waiting = 0
  /\ queue = << >>
  /\ spot = [s \in Spots |-> "free"]
  /\ restarts = 0
  /\ holder = [s \in Spots |-> Nobody]
  /\ handled = {} /\ repeated = {} /\ abandoned = {}

-------------------------------------------------------------------------------
\* An event of MS1 reaches the topic.
Send(e) ==
  /\ Len(topic) < MaxLength
  /\ topic' = Append(topic, e)
  /\ UNCHANGED <<delivery, spot, holder, history>>

-------------------------------------------------------------------------------
\* MS2's consumer.  GiveUp: these events are not waited for any longer.
GiveUp(events) == abandoned' = abandoned \cup events

\* A process starts, and Kafka answers.  Whatever the last one left on its loop is
\* gone.  Without a committed offset the consumer starts at the end of the topic.
Start ==
  /\ consumer = "off"
  /\ consumer' = "on"
  /\ position' = IF committed = -1 THEN Len(topic) ELSE committed
  /\ queue' = << >>
  /\ waiting' = 0
  /\ GiveUp(IF committed = -1 THEN 1..Len(topic) ELSE {})
  /\ UNCHANGED <<topic, committed, spot, restarts, holder, handled, repeated>>

\* The thread takes the next event, schedules its handler and waits for it.
Poll ==
  /\ consumer = "on" /\ waiting = 0
  /\ position < Len(topic)
  /\ position' = position + 1
  /\ waiting' = position'
  /\ queue' = Append(queue, position')
  /\ UNCHANGED <<topic, consumer, committed, spot, restarts, holder, history>>

\* Faulty variant: the event is scheduled once more when the wait is over.
TimesOutRetries ==
  /\ waiting # 0 /\ waiting \in {queue[k] : k \in DOMAIN queue}
  /\ waiting' = 0
  /\ queue' = Append(queue, waiting)
  /\ GiveUp({waiting})
  /\ UNCHANGED <<topic, consumer, position, committed, spot, restarts,
                 holder, handled, repeated>>

\* future.result(timeout=5): the thread goes on, the handler stays scheduled.
TimesOut ==
  /\ waiting # 0
  /\ waiting' = 0
  /\ GiveUp({waiting})
  /\ UNCHANGED <<topic, consumer, position, committed, queue, spot,
                 restarts, holder, handled, repeated>>

\* Faulty variants: the offset committed while a handler is waited for; the offset
\* of the next event but one.
AutoCommitEarly ==
  /\ consumer = "on"
  /\ committed' = position
  /\ UNCHANGED <<topic, consumer, position, waiting, queue, spot, restarts, holder, history>>

AutoCommitNext ==
  /\ consumer = "on" /\ waiting = 0
  /\ committed' = position + 1
  /\ UNCHANGED <<topic, consumer, position, waiting, queue, spot, restarts, holder, history>>

\* Between two events the client commits the position, every five seconds or so.
AutoCommit ==
  /\ consumer = "on" /\ waiting = 0
  /\ committed # position
  /\ committed' = position
  /\ UNCHANGED <<topic, consumer, position, waiting, queue, spot, restarts,
                 holder, history>>

\* KafkaEventBus.stop: the thread is joined for two seconds and the consumer closed;
\* handlers that are scheduled may still run.
StopsWaiting ==
  /\ consumer = "on"
  /\ consumer' = "off"
  /\ waiting' = 0
  /\ GiveUp({waiting} \ {0})
  /\ UNCHANGED <<topic, position, queue, spot, holder, handled, repeated>>

\* close commits the position ...
Stop ==
  /\ StopsWaiting
  /\ committed' = position
  /\ UNCHANGED restarts

\* ... or fails to, which kafka-python logs and ignores.
StopUncommitted ==
  /\ restarts < MaxRestarts
  /\ restarts' = restarts + 1
  /\ StopsWaiting
  /\ UNCHANGED committed

Crash ==
  /\ restarts < MaxRestarts
  /\ restarts' = restarts + 1
  /\ consumer' = "off"
  /\ waiting' = 0
  /\ queue' = << >>
  /\ UNCHANGED <<topic, position, committed, spot, holder, history>>

-------------------------------------------------------------------------------
\* MS2's event loop.

FirstFree(s) == spot[s] = "free" /\ \A t \in Spots : spot[t] = "free" => s <= t

Assign(s, new, i) ==
  /\ spot' = [spot EXCEPT ![s] = new]
  /\ holder' = [holder EXCEPT ![s] = i]

\* Faulty variant: the type of the event is not looked at.
HandleEventAnyType(e) ==
  \/ \E s \in Spots : FirstFree(s) /\ Assign(s, "reserved", e.id)
  \/ (\A s \in Spots : spot[s] # "free") /\ UNCHANGED <<spot, holder>>

\* handle_reservation_event: a created event reserves the first free spot, if there
\* is one; the other events would release the spot they name, and name none.
HandleEvent(e) ==
  \/ /\ e.type = "created"
     /\ \E s \in Spots : FirstFree(s) /\ Assign(s, "reserved", e.id)
  \/ /\ e.type = "created" => \A s \in Spots : spot[s] # "free"
     /\ e.spotId \notin Spots
     /\ UNCHANGED <<spot, holder>>

\* Faulty variant: the future is never set.
FinishSilently ==
  /\ queue # << >>
  /\ queue' = Tail(queue)
  /\ UNCHANGED <<topic, consumer, position, committed, waiting, restarts>>

\* The handler at the head of the queue is done; its future is set.
Finish ==
  /\ queue # << >>
  /\ queue' = Tail(queue)
  /\ waiting' = IF waiting = Head(queue) THEN 0 ELSE waiting
  /\ UNCHANGED <<topic, consumer, position, committed, restarts>>

Run ==
  /\ Finish
  /\ HandleEvent(topic[Head(queue)])
  /\ handled' = handled \cup {Head(queue)}
  /\ repeated' = repeated \cup (handled \cap {Head(queue)})
  /\ UNCHANGED abandoned

\* The handler raises before its commit: that is logged, and the event is over.
RunFails ==
  /\ Finish
  /\ GiveUp({Head(queue)})
  /\ UNCHANGED <<spot, holder, handled, repeated>>

\* REST occupy and release, and gRPC ReleaseSpot.  (Nothing in src/ calls ReserveSpot.)
Operate ==
  /\ \E s \in Spots :
       \/ spot[s] # "occupied" /\ Assign(s, "occupied", Nobody)
       \/ spot[s] # "free" /\ Assign(s, "free", Nobody)
  /\ UNCHANGED <<topic, delivery, history>>

-------------------------------------------------------------------------------
\* What MS2 does.
Consume ==
  \/ Start \/ Poll \/ TimesOut \/ AutoCommit \/ Stop \/ StopUncommitted \/ Crash
  \/ Run \/ RunFails \/ Operate

Next == (\E e \in Event : Send(e)) \/ Consume

Spec == Init /\ [][Next]_vars

\* The consumer thread and the event loop of a process run on.
FairSpec == Spec /\ WF_vars(Poll) /\ WF_vars(Run \/ RunFails)

-------------------------------------------------------------------------------
Queued == {queue[k] : k \in DOMAIN queue}

TypeOK ==
  /\ topic \in Seq(Event)
  /\ consumer \in {"on", "off"}
  /\ position \in 0..Len(topic) /\ committed \in -1..position
  /\ waiting \in {0} \cup Queued
  /\ queue \in Seq(1..Len(topic))
  /\ spot \in [Spots -> {"free", "reserved", "occupied"}]
  /\ restarts \in 0..MaxRestarts
  /\ holder \in [Spots -> Ids \cup {Nobody}]
  /\ handled \subseteq 1..Len(topic)
  /\ repeated \subseteq handled
  /\ abandoned \subseteq 1..Len(topic)

IsCreation(n, i) == topic[n].type = "created" /\ topic[n].id = i

\* A reservation holds two spots only if its creation is on the topic twice or was
\* handled twice.  (Nothing in MS2 knows for which reservation a spot is reserved.)
OneSpotEach ==
  \A s1, s2 \in Spots :
    s1 # s2 /\ holder[s1] = holder[s2] /\ holder[s1] # Nobody =>
      \/ \E n \in repeated : IsCreation(n, holder[s1])
      \/ \E m, n \in handled : m # n /\ IsCreation(m, holder[s1]) /\ IsCreation(n, holder[s1])

\* The committed offset never runs ahead of the handlers: an event before it, which
\* no restart will bring back, was handled, or was given up for one of the reasons
\* that abandon it (its handler took five seconds or raised, a stop did not wait for
\* it, the group had no offset yet).
CommittedIsAccounted ==
  \A n \in 1..committed : n \in handled \cup abandoned

\* Handlers run in the order of the topic, although the thread goes on to the next
\* event when it has waited long enough, and an event handled twice is one that a
\* crash, or a stop whose commit failed, has brought back.
InOrder ==
  /\ \A j, k \in DOMAIN queue : j < k => queue[j] < queue[k]
  /\ restarts = 0 => repeated = {}

\* Every event that a running consumer has before it is handled or given up, unless the
\* consumer stops.
EventsAreHandled ==
  \A n \in 1..MaxLength :
    (consumer = "on" /\ position < n /\ n <= Len(topic))
      ~> (n \in handled \cup abandoned \/ consumer = "off")

-------------------------------------------------------------------------------
\* The inductive invariant: what the consumer has taken was handled, was given up or
\* is in the queue; what it does not wait for any more was given up; a spot is held
\* by a reservation whose creation was handled; and before the first
\* crash or failed commit nothing comes back.
PositionAccounted ==
  /\ consumer = "on" => \A n \in 1..position : n \in handled \cup abandoned \cup Queued
  /\ \A n \in Queued : n <= position /\ (n = waiting \/ n \in abandoned)

HoldersHandled ==
  \A s \in Spots : holder[s] # Nobody => \E n \in handled : IsCreation(n, holder[s])

NothingComesBack ==
  restarts = 0 =>
    /\ \A n \in handled : n <= position /\ n \notin Queued
    /\ consumer = "off" =>
         \/ committed = position
         \/ committed = -1 /\ handled = {} /\ queue = << >>

\* What is waited for is not committed, and what was handled comes before what is queued.
HandlersAhead ==
  /\ waiting # 0 => committed < waiting
  /\ restarts = 0 => \A m \in handled, n \in Queued : m < n

IInv ==
  /\ TypeOK /\ OneSpotEach /\ CommittedIsAccounted /\ InOrder
  /\ PositionAccounted /\ HoldersHandled /\ NothingComesBack /\ HandlersAhead

-------------------------------------------------------------------------------
\* The consumer keeps its contract: time-outs, stops, commits on a timer and restarts never
\* run a handler out of order, again, or after its event was committed, except as the contract says.
Contract == INSTANCE ConsumerContract WITH
  sent <- Len(topic), done <- handled, dropped <- abandoned, setBack <- restarts > 0

ImplementsContract == Contract!Spec

-------------------------------------------------------------------------------
\* What the documents say, and does not hold.

\* ARCHITECTURE.md:102 has MS2 release the spots of reservations that are over
\* ("Sproscanje mest po izteku"); ms2-parking-spots/README.md:41 says how.
ClosedFreesSpot ==
  \A i \in Ids, s \in Spots :
    (holder[s] = i /\ \E n \in handled : topic[n].type = "closed" /\ topic[n].id = i)
      ~> holder[s] # i
================================================================================
