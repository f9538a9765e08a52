---------------------------- MODULE SpotAllocation ----------------------------
(***************************************************************************)
(* MS2, the parking spots service: the spots in PostgreSQL, the cached      *)
(* availability of each lot in Redis, and the spot-updates topic.           *)
(*                                                                         *)
(* The handlers that change a spot (REST occupy and release, gRPC           *)
(* ReserveSpot and ReleaseSpot, the reservation events) run on one event    *)
(* loop and never really wait, so each runs to its end before the next one  *)
(* starts: commit, then invalidate the cache, then publish.  The statistics *)
(* endpoint is a plain function and runs in a thread pool: its cache miss,  *)
(* its query and its cache fill interleave with the three steps of the      *)
(* handlers.  A crash may come between any two of them.                     *)
(***************************************************************************)
EXTENDS Integers, FiniteSets

CONSTANTS
  Spots,   \* spots, numbered in the order of their labels
  Lots,    \* parking lots
  LotOf,   \* the lot of each spot
  Threads, \* threads that may run GET /stats/occupancy at once
  MaxLate  \* bound: events waiting in the producer after their send timed out

ASSUME SpotsAssumption ==
  /\ Spots \subseteq Nat
  /\ IsFiniteSet(Spots)
  /\ LotOf \in [Spots -> Lots]
  /\ MaxLate \in Nat

VARIABLES
  spot,     \* table parking_spots: is_reserved and is_occupied of each spot
  cache,    \* Redis: the availability stored for a lot, if any
  cacheOn,  \* Redis answered when the service started
  busOn,    \* Kafka answered when the service started
  loop,     \* the handler the event loop is running
  stats,    \* the statistics threads
  told,     \* the status in the latest event of each spot on the topic
  late,     \* events whose sending timed out, still in the producer's buffer
  tainted,  \* history: the lots whose cached entry a race or a failure left stale
  missed    \* history: the spots whose last change is not the last event on the topic

vars == <<spot, cache, cacheOn, busOn, loop, stats, told, late, tainted, missed>>

NoEntry == [none |-> TRUE]

Availability == [available : Nat, occupied : Nat, reserved : Nat]

Statuses == {"free", "reserved", "occupied"}

Idle == [at |-> "idle"]
Running == [at : {"invalidate", "publish"}, spot : Spots, status : Statuses]

\* An event waiting in the producer; age is history: whether the spot has been
\* changed again since.
Waiting == [spot : Spots, status : Statuses, age : {"latest", "overtaken"}]

\* What a statistics thread keeps of a lot; dirty is history: a commit changed
\* the lot after the thread had read it.
Missing == [at : {"read"}, lot : Lots]
Filling == [at : {"set"}, lot : Lots, value : Availability, dirty : BOOLEAN]

SpotsOf(lot) == {s \in Spots : LotOf[s] = lot}
Free(s) == ~spot[s].reserved /\ ~spot[s].occupied

\* Faulty variant: the total leaves the reserved spots out, and they are taken off
\* once more.
CalculateReservedTwice(lot) ==
  LET occupied == Cardinality({s \in SpotsOf(lot) : spot[s].occupied})
      reserved == Cardinality({s \in SpotsOf(lot) : spot[s].reserved /\ ~spot[s].occupied})
      total == Cardinality({s \in SpotsOf(lot) : ~spot[s].reserved})
  IN  [available |-> total - occupied - reserved,
       occupied |-> occupied, reserved |-> reserved]

\* OccupancyService.calculate
Calculate(lot) ==
  LET occupied == Cardinality({s \in SpotsOf(lot) : spot[s].occupied})
      reserved == Cardinality({s \in SpotsOf(lot) : spot[s].reserved /\ ~spot[s].occupied})
  IN  [available |-> Cardinality(SpotsOf(lot)) - occupied - reserved,
       occupied |-> occupied, reserved |-> reserved]

\* Faulty variant: an occupied spot that was never reserved counts as available.
FirstAvailableUnreserved(lot, s) ==
  /\ s \in SpotsOf(lot) /\ ~spot[s].reserved
  /\ \A other \in SpotsOf(lot) : ~spot[other].reserved => s <= other

\* SpotRepository.first_available_for_lot, in the order of the labels
FirstAvailable(lot, s) ==
  /\ s \in SpotsOf(lot) /\ Free(s)
  /\ \A other \in SpotsOf(lot) : Free(other) => s <= other

Status(s) == IF spot[s].occupied THEN "occupied"
             ELSE IF spot[s].reserved THEN "reserved" ELSE "free"

-------------------------------------------------------------------------------
Init ==
  /\ spot = [s \in Spots |-> [reserved |-> FALSE, occupied |-> FALSE]]
  /\ cache = [lot \in Lots |-> NoEntry]
  /\ cacheOn \in BOOLEAN
  /\ busOn \in BOOLEAN
  /\ loop = Idle
  /\ stats = [t \in Threads |-> Idle]
  /\ told = [s \in Spots |-> "free"]
  /\ late = {}
  /\ tainted = {}
  /\ missed = {}

Dirty(h) == [at |-> "set", lot |-> h.lot, value |-> h.value, dirty |-> TRUE]

Overtaken(event) == [spot |-> event.spot, status |-> event.status, age |-> "overtaken"]

\* A handler changes spot s and commits; threads that had read its lot are dirty,
\* and an event of the spot that is still waiting is no longer the latest.
Commit(s, row, status) ==
  /\ loop = Idle
  /\ spot' = [spot EXCEPT ![s] = row]
  /\ loop' = [at |-> "invalidate", spot |-> s, status |-> status]
  /\ stats' = [t \in Threads |->
                 IF stats[t].at = "set" /\ stats[t].lot = LotOf[s]
                 THEN Dirty(stats[t]) ELSE stats[t]]
  /\ late' = {IF event.spot = s THEN Overtaken(event) ELSE event : event \in late}
  /\ UNCHANGED <<cache, cacheOn, busOn, told, tainted, missed>>

\* POST /spots/:id/occupy; an occupied spot is answered 409.
Occupy(s) ==
  /\ ~spot[s].occupied
  /\ Commit(s, [reserved |-> FALSE, occupied |-> TRUE], "occupied")

\* Faulty variant: the event names the status the spot had.
ReleaseTellsOld(s) ==
  /\ ~Free(s)
  /\ Commit(s, [reserved |-> FALSE, occupied |-> FALSE], Status(s))

\* POST /spots/:id/release, gRPC ReleaseSpot, and reservation.cancelled or
\* .completed with the id of a spot; a free spot is answered 409.
Release(s) ==
  /\ ~Free(s)
  /\ Commit(s, [reserved |-> FALSE, occupied |-> FALSE], "free")

\* gRPC ReserveSpot and reservation.created: nothing happens in a full lot.
Reserve(lot) ==
  \E s \in Spots :
    /\ FirstAvailable(lot, s)
    /\ Commit(s, [reserved |-> TRUE, occupied |-> FALSE], "reserved")

\* Faulty variant: the entry stays, to be replaced when it expires.
InvalidateSkipped ==
  /\ loop.at = "invalidate"
  /\ loop' = [loop EXCEPT !.at = "publish"]
  /\ UNCHANGED <<spot, cache, cacheOn, busOn, stats, told, late, tainted, missed>>

\* cache.invalidate: nothing without a Redis client, and the entry a previous
\* process left behind stays.
Invalidate ==
  /\ loop.at = "invalidate"
  /\ LET lot == LotOf[loop.spot] IN
       IF cacheOn
         THEN cache' = [cache EXCEPT ![lot] = NoEntry] /\ tainted' = tainted \ {lot}
         ELSE /\ tainted' = IF cache[lot] = NoEntry THEN tainted ELSE tainted \cup {lot}
              /\ UNCHANGED cache
  /\ loop' = [loop EXCEPT !.at = "publish"]
  /\ UNCHANGED <<spot, cacheOn, busOn, stats, told, late, missed>>

\* The handler ends after its commit without publishing.
GiveUp ==
  /\ loop' = Idle
  /\ missed' = missed \cup {loop.spot}

\* The DELETE raises a RedisError nobody catches: the event is not sent and the
\* caller is told that the call failed.  (An error after Redis had deleted the
\* entry is an Invalidate followed by a PublishFails.)
InvalidateFails ==
  /\ loop.at = "invalidate" /\ cacheOn
  /\ tainted' = IF cache[LotOf[loop.spot]] = NoEntry THEN tainted
                ELSE tainted \cup {LotOf[loop.spot]}
  /\ GiveUp
  /\ UNCHANGED <<spot, cache, cacheOn, busOn, stats, told, late>>

\* Faulty variant: the message names the status the spot had been told to have.
PublishLate ==
  /\ loop.at = "publish" /\ busOn
  /\ loop' = Idle
  /\ missed' = missed \ {loop.spot}
  /\ UNCHANGED <<spot, cache, cacheOn, busOn, stats, told, late, tainted>>

Publish ==
  /\ loop.at = "publish" /\ busOn
  /\ told' = [told EXCEPT ![loop.spot] = loop.status]
  /\ missed' = missed \ {loop.spot}
  /\ loop' = Idle
  /\ UNCHANGED <<spot, cache, cacheOn, busOn, stats, late, tainted>>

\* There is no producer, or the send raises, or it is not confirmed in 5 seconds
\* and the event is left with the producer.
PublishFails ==
  /\ loop.at = "publish"
  /\ late' \in IF busOn /\ Cardinality(late) < MaxLate THEN
                  {late, late \cup {[spot |-> loop.spot, status |-> loop.status,
                                   age |-> "latest"]}}
                ELSE {late}
  /\ GiveUp
  /\ UNCHANGED <<spot, cache, cacheOn, busOn, stats, told, tainted>>

\* The producer's own thread gets an event through after all.  By then the spot may
\* have changed again, and the newer event may be on the topic already: the events
\* have no key that would keep them in order.
DeliverLate(event) ==
  /\ event \in late
  /\ told' = [told EXCEPT ![event.spot] = event.status]
  /\ late' = late \ {event}
  /\ missed' = IF event.age = "latest" THEN missed \ {event.spot}
               ELSE missed \cup {event.spot}
  /\ UNCHANGED <<spot, cache, cacheOn, busOn, loop, stats, tainted>>

\* gRPC CheckAvailability on a miss: get, query and set without a pause on the
\* loop.  A hit changes nothing.
CheckAvailability(lot) ==
  /\ loop = Idle /\ cacheOn
  /\ cache[lot] = NoEntry
  /\ cache' = [cache EXCEPT ![lot] = Calculate(lot)]
  /\ UNCHANGED <<spot, cacheOn, busOn, loop, stats, told, late, tainted, missed>>

-------------------------------------------------------------------------------
\* GET /stats/occupancy, in a thread: for one of the lots, the cache misses ...
StatsMiss(t, lot) ==
  /\ stats[t] = Idle /\ cacheOn
  /\ cache[lot] = NoEntry
  /\ stats' = [stats EXCEPT ![t] = [at |-> "read", lot |-> lot]]
  /\ UNCHANGED <<spot, cache, cacheOn, busOn, loop, told, late, tainted, missed>>

\* ... the spots are read and counted ...
StatsRead(t) ==
  /\ stats[t].at = "read"
  /\ stats' = [stats EXCEPT ![t] =
                 [at |-> "set", lot |-> stats[t].lot,
                  value |-> Calculate(stats[t].lot), dirty |-> FALSE]]
  /\ UNCHANGED <<spot, cache, cacheOn, busOn, loop, told, late, tainted, missed>>

\* ... and the count is stored, whatever has been committed since.
StatsSet(t) ==
  /\ stats[t].at = "set"
  /\ cache' = [cache EXCEPT ![stats[t].lot] = stats[t].value]
  /\ tainted' = IF stats[t].dirty THEN tainted \cup {stats[t].lot}
                ELSE tainted \ {stats[t].lot}
  /\ stats' = [stats EXCEPT ![t] = Idle]
  /\ UNCHANGED <<spot, cacheOn, busOn, loop, told, late, missed>>

\* A Redis or database error ends the request.
StatsFails(t) ==
  /\ stats[t] # Idle
  /\ stats' = [stats EXCEPT ![t] = Idle]
  /\ UNCHANGED <<spot, cache, cacheOn, busOn, loop, told, late, tainted, missed>>

\* Faulty variant: entries are stored without a time to live.
ExpireNever(lot) == FALSE /\ UNCHANGED vars

\* setex: Redis drops an entry 20 seconds after it was stored.
Expire(lot) ==
  /\ cache[lot] # NoEntry
  /\ cache' = [cache EXCEPT ![lot] = NoEntry]
  /\ tainted' = tainted \ {lot}
  /\ UNCHANGED <<spot, cacheOn, busOn, loop, stats, told, late, missed>>

\* The process dies and is started again: what was in memory is gone, and Redis
\* and Kafka are used from now on only if they answer at the start.
Restart ==
  /\ cacheOn' \in BOOLEAN /\ busOn' \in BOOLEAN
  /\ loop' = Idle
  /\ stats' = [t \in Threads |-> Idle]
  /\ missed' = IF loop = Idle THEN missed ELSE missed \cup {loop.spot}
  /\ tainted' = IF loop.at = "invalidate" /\ cache[LotOf[loop.spot]] # NoEntry
                THEN tainted \cup {LotOf[loop.spot]} ELSE tainted
  /\ late' = {}
  /\ UNCHANGED <<spot, cache, told>>

-------------------------------------------------------------------------------
Handle == (\E s \in Spots : Occupy(s) \/ Release(s)) \/ (\E lot \in Lots : Reserve(lot))
Finish == Invalidate \/ InvalidateFails \/ Publish \/ PublishFails
Stats(t) == StatsRead(t) \/ StatsSet(t) \/ StatsFails(t)

Next ==
  \/ Handle \/ Finish \/ Restart
  \/ \E event \in late : DeliverLate(event)
  \/ \E lot \in Lots : CheckAvailability(lot) \/ Expire(lot)
  \/ \E t \in Threads : Stats(t) \/ \E lot \in Lots : StatsMiss(t, lot)

Spec == Init /\ [][Next]_vars

-------------------------------------------------------------------------------
TypeOK ==
  /\ spot \in [Spots -> [reserved : BOOLEAN, occupied : BOOLEAN]]
  /\ cache \in [Lots -> Availability \cup {NoEntry}]
  /\ cacheOn \in BOOLEAN /\ busOn \in BOOLEAN
  /\ loop \in Running \cup {Idle}
  /\ stats \in [Threads -> Missing \cup Filling \cup {Idle}]
  /\ told \in [Spots -> Statuses]
  /\ late \subseteq Waiting
  /\ tainted \subseteq Lots
  /\ missed \subseteq Spots

Changing(lot) == loop.at = "invalidate" /\ LotOf[loop.spot] = lot

\* The availability that gRPC CheckAvailability answers from the cache, and MS3
\* opens the barrier on, is the one in the database, except while a handler is
\* between commit and invalidation or when one of the known gaps left an entry
\* behind: a statistics thread that stored what it had read before a commit, an
\* invalidation that failed or was cut off, a process that ran without Redis.
CacheTrue ==
  \A lot \in Lots :
    cache[lot] # NoEntry /\ lot \notin tainted /\ ~Changing(lot) =>
      cache[lot] = Calculate(lot)

\* Who follows the spot-updates topic knows the status of every spot, except for
\* one that a handler is working on, whose last change has not reached the topic,
\* or whose last change was followed there by an older, late event.  An event that
\* arrives late but has not been overtaken by another change leaves no such gap.
UpdatesTrue ==
  \A s \in Spots :
    s \notin missed /\ ~(loop # Idle /\ loop.spot = s) => told[s] = Status(s)

\* What the gate is told and what a driver then gets agree: when the cached entry
\* of a lot can be trusted, it offers a place exactly when ReserveSpot (a query in
\* SQL, where the count is a loop in Python) would find one.
OfferIsReal ==
  \A lot \in Lots :
    cache[lot] # NoEntry /\ lot \notin tainted /\ ~Changing(lot) =>
      (cache[lot].available > 0 <=> \E s \in Spots : FirstAvailable(lot, s))

\* A stale entry is dropped in the end, whatever else goes on: Redis removes it when
\* its time to live is over, if no handler does so before.  (Checked under the
\* fairness of the module Gate.)
StaleEntryGoes == \A lot \in Lots : lot \in tainted ~> lot \notin tainted

-------------------------------------------------------------------------------
\* The inductive invariant: what a thread is about to store is the lot's
\* availability unless a commit made it dirty, and a handler announces the status
\* that its spot has, as does a waiting event unless it was overtaken.
FillsTrue ==
  \A t \in Threads, lot \in Lots :
    stats[t].at = "set" /\ stats[t].lot = lot /\ ~stats[t].dirty =>
      stats[t].value = Calculate(lot)

HandlerTells ==
  \A s \in Spots : loop # Idle /\ loop.spot = s => loop.status = Status(s)

\* A waiting event that nothing has overtaken names the status its spot has.
WaitingTells ==
  \A event \in late : event.age = "latest" => event.status = Status(event.spot)

IInv == TypeOK /\ FillsTrue /\ HandlerTells /\ WaitingTells /\ CacheTrue /\ UpdatesTrue
===============================================================================
