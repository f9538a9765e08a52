# Parqis in TLA+

Parqis is a parking system of three services that talk over Kafka and gRPC.
This directory models the parts of it whose correctness depends on the order
in which things happen, checks the models with TLC on small instances, and
proves what matters most with TLAPS for instances of any size.

1. [The system](#1-the-system) — components, state, operations, interactions
2. [Modules](#2-modules) — how each corresponds to the code
3. [Runs](#3-runs) — what each shows, its bounds, its fairness
4. [Proofs](#4-proofs) — theorems, assumptions, inductive invariants
5. [Where code and comments disagree](#5-where-code-and-comments-disagree)
6. [What is only model-checked, and what is not modelled](#6-limits)
7. [Plan](#7-plan)

Paths below are relative to the root of the repository.

## 1. The system

### Components

**MS1, reservations** (`src/ms1-reservations`, Node, Express, Prisma on
PostgreSQL). One process, whose request handlers interleave at every `await`.

| part | state | operations |
| --- | --- | --- |
| reservation rules and price (`domain/reservation-policy.ts`, `hasOverlap`, the price in `create-reservation.usecase.ts`) | none | validate times, validate an extension, decide whether two slots overlap, price a slot |
| reservations (`modules/reservations/application`) | table `reservations` | create, extend, cancel, complete, look up; `activateReservation` and `cleanupExpiredReservations` exist and have no caller |
| vehicles (`getOrCreateVehicle` in `user.repository.prisma.ts`) | table `vehicles`, unique plate | find or insert |
| Kafka producer (`shared/infrastructure/messaging`) | one shared producer, connected lazily | publish an event; its error is logged, rethrown, and swallowed by the use case |
| authentication (`modules/auth`) | tables `users`, `refresh_tokens` | register, login, refresh, logout |
| HTTP layer (`app/http`) | none | Joi validation, error mapping (P2002 to 409, others 500), routing |

**MS2, parking spots** (`src/ms2-parking-spots`, Python, FastAPI on
PostgreSQL, with Redis, Kafka and a gRPC server). One event loop; endpoints
that are plain functions run in a thread pool.

| part | state | operations |
| --- | --- | --- |
| spot allocation (`SPOT_ALLOCATION`) | table `parking_spots`: `is_reserved`, `is_occupied` | occupy, release, reserve the first available spot of a lot; reached by REST, gRPC and reservation events |
| occupancy and cache (`OCCUPANCY`, `INTEGRATIONS/cache.py`) | one entry per lot in Redis with a TTL of 20 s; a client that is there only if Redis answered at the start | count, fill, invalidate |
| event bus (`INTEGRATIONS/kafka.py`) | producer and consumer, there only if Kafka answered at the start | publish `spot.changed`, consume `reservations` |
| parking lots (`PARKING_LOTS`) | table `parking_lots`, filled at the first start | read-only endpoints |

**MS3, validation** (`src/ms3-validation`, Spring Boot). `ValidationService`
keeps a log of entries and exits; it asks MS2 for the availability of a lot by
gRPC, grants entry if it is positive, saves the validation and publishes an
event. A Kafka listener logs reservation events.

Gateway, user interface and simulator appear in `src/docs` and
`ARCHITECTURE.md` only; there is no code for them.

### How they interact

```
client --HTTP--> MS1 --topic "reservations"--> MS2 --topic "spot-updates"--> (followers)
                                \--> MS3 (log)      ^
client --HTTP--> MS3 --gRPC CheckAvailability-------/   (answered from the Redis entry)
client --HTTP--> MS2 (occupy, release, lots, statistics)
```

* MS1 writes the row, then sends the event, in two awaited calls that no
  transaction joins. The key of an event is its type, so that the events of one
  reservation may be in different partitions. MS1 never sets `spotId`.
* MS2 handles `reservation.created` by reserving the first free spot of the lot
  and `reservation.cancelled`/`.completed` by releasing the spot the event
  names. It commits, invalidates the lot's entry in Redis, and publishes the
  new status of the spot, in this order and again without a transaction.
* The gate (MS3) decides on the cached availability. The public availability
  endpoint of MS2 builds its `OccupancyService` without a cache
  (`dependencies.py:17`) and always counts.

### What is hard, and what makes each part correct

* *MS1 reservations.* Handlers check and then act: the overlap query of a create
  comes three awaits before the insert; extend, cancel, complete and activate
  write by id what they judged on an earlier read. Database calls fail, sends
  are lost, and a shutdown exits between any two awaits. To be correct, a lot must be booked
  once at a time, a closed reservation must stay closed, only the owner may
  change a reservation, a plate must keep its vehicle, and an event must only say what
  is so.
* *MS1 rules.* Three closed comparisons in a `WHERE` clause must amount to "the
  intervals meet", and an extension asks only for the time it adds.
* *MS1 producer.* All handlers share one producer that is assigned before it is
  connected, whose connect may fail for good, and which a shutdown disconnects
  under them. A process must connect one, every publication must end, since a
  request waits for it, and what it is told is published must be on the topic.
* *MS1 authentication.* Concurrent registrations and logins race on unique columns.
* *MS2 spots and cache.* The statistics threads race with the handlers: a count made
  before a commit may be stored after the invalidation. Redis or Kafka may be
  down at the start or fail later, a send may time out and be delivered all
  the same, the process may stop between commit, invalidation and publication. The
  cache must agree with the table, the topic must agree with the table, and
  what the cache offers must be there to be reserved; where that fails, it must
  be for one of these causes, and a stale entry must go.
* *MS1 to MS2.* Events may be sent twice or redelivered, reservations carry no spot, and the
  consumer goes on to the next event after 5 s. Handlers must run in order, none may be
  skipped unnoticed, and a reservation must not get two spots for any other reason.
* *MS3.* Entry is granted on an availability nobody holds.

`PROJECT.json` lists these as hazards, each at its line, with the properties
that cover it.

## 2. Modules

| module | models | lines of code it stands for |
| --- | --- | --- |
| `ReservationIntervals` | time checks, overlap clause, price, as operators | `reservation-policy.ts`, the schema `createReservation`, `hasOverlap`, price |
| `Reservations` | MS1's reservations and vehicles, with crashes and failing calls | the use cases, repositories, publisher |
| `ReservationLedger` | what `Reservations` promises about the slots of a lot, without handlers | abstract |
| `Auth` | MS1's accounts and sessions | `modules/auth`, `jwt.util.ts`, `errorHandler` |
| `SpotAllocation` | MS2's spots, cache, statistics threads and `spot-updates` | `SPOT_ALLOCATION`, `OCCUPANCY`, `INTEGRATIONS` |
| `ReservationDelivery` | MS1's events on their way to MS2's spots: consumer thread, offsets, handlers | `KafkaEventBus`, `handle_reservation_event`, `publishEvent` |
| `ConsumerContract` | what `ReservationDelivery` promises of the events, without thread, loop and processes | abstract |
| `KafkaProducer` | MS1's process, its shared producer and the calls of `publishEvent`, composed with `ReservationDelivery` | `kafka.config.ts`, `publishEvent`, start and shutdown in `index.ts` |
| `Gate` | MS3's entry and exit, composed with `SpotAllocation` | `ValidationService`, `ParkingEventsPublisher`, `ValidationController` |
| `MC...` | instances for TLC | |
| `..._proofs` | theorems and proofs | |

Definitions keep the names of the code where they can. Those headed *Faulty
variant* are plausible bugs: each replaces one definition to show that a
property notices; no specification uses them.

### Reservations

Every `await` ends an action: the database call takes effect in it and the
synchronous code up to the next await runs with it.

| code | state or action |
| --- | --- |
| table `reservations` | `rows`; the id (a fresh uuid) is the request that creates the row |
| table `vehicles` | `vehicles`, plate to owner |
| local variables of a handler | `reqs[r]`: what it does (`op`), which call it awaits (`at`), what it read |
| topic `reservations` | `topic`, the set of events that reached it: order and duplicates are not used |
| `CreateReservationUseCase` | `BeginCreate`, `CreateCount`, `FindVehicle`, `InsertVehicle`, `InsertRow`, `Publish` |
| `ExtendReservationUseCase` | `BeginExtend`, `ExtendCount`, `ExtendUpdate`, `Publish` |
| `CancelReservationUseCase` | `BeginCancel`, `CancelUpdate`, `Publish` |
| `CompleteReservationUseCase` | `BeginComplete`, `CompleteUpdate`, `Publish` |
| `activateReservation`, `cleanupExpiredReservations` | `BeginActivate`, `ActivateUpdate`; `Cleanup`, one `updateMany`. Nothing calls them; the constant `Wired` says which are called nevertheless |
| `publishEvent` throwing, which the use case catches and logs | `PublishFails` |
| a database call that throws, answered 500 | `DatabaseFails` |
| crash, `gracefulShutdown` | `Stop`: handlers in flight are lost, tables stay |

The routes (`Arrive`) let these requests in, `BeginActivate` excepted, which no route
reaches; a new reservation has passed the schema `createReservation` (`CreateBodyOK`).
A request refused on its first read changes nothing and is a step that is not
enabled. Reads of one row and the synchronous checks on it are one action.
`raced` is a history variable that no guard reads: it records the pairs of reservations
whose claims overlapped, where a claim runs from the read a handler decides on
(the overlap query of a create, the row read by an extend) to its write.

### ReservationLedger

Entries of a lot are opened, have their end moved, and are closed once and for
all; two open entries of a lot share an instant only if the pair has been
excused by the step that makes them clash. `Reservations` maps a row to an
entry (`open` is the status being PENDING or ACTIVE) and `raced` to the excused
pairs. Opening and moving are the same thing to the ledger (`Put`: the entry fits, and
is stored). The statuses, the owners, vehicles, events, handlers and failures are
gone: `ImplementsLedger` says that none of them matters to the slots.

### SpotAllocation

| code | state or action |
| --- | --- |
| table `parking_spots` | `spot` |
| Redis | `cache`, one entry or none per lot; `cacheOn` is whether `OccupancyCache` has a client |
| Kafka | `told`, the latest status of each spot on the topic; `busOn` is whether there is a producer; `late` are sends that timed out and are still in the producer's buffer |
| the event loop | `loop`: the handler it is running, and how far it is |
| thread pool | `stats`: threads in `GET /stats/occupancy` |
| `occupy`, `release`, `reserve_first_available` | `Occupy`, `Release`, `Reserve`, all by `Commit`; then `Invalidate` or `InvalidateFails`; then `Publish` or `PublishFails` |
| gRPC `CheckAvailability` on a miss | `CheckAvailability`, one step: nothing else runs on the loop |
| `get_availability` in a thread | `StatsMiss`, `StatsRead`, `StatsSet`, `StatsFails`; the endpoint goes from lot to lot and holds nothing between two lots, so a thread is at one lot at a time |
| TTL | `Expire`: at any time after the entry was stored |
| crash and start | `Restart`: memory is gone, Redis and Kafka are on or off until the next start |

The handlers are coroutines that do not wait for anything between commit and
publication (Redis and Kafka clients block), so handlers do not interleave with each
other; they interleave with the threads, with Redis and with the producer's
own thread, and a crash may come between any two steps. `tainted` and `missed` are history
variables: the lots and spots for which one of the known gaps has happened
since the last repair. So is the `age` of a waiting event: `Commit` marks the events of its spot that
are still in the producer's buffer as overtaken, and `DeliverLate` opens a gap with such an event and
closes one with any other.

### Auth

As in `Reservations`, the synchronous code up to the next await runs in one action. Here a
database call that writes has two: its effect, and its return, when the handler goes on. In between
the handler is at one of the places `Written`, and the call may still throw (`DatabaseFails`), or the process
stop (`Stop`), with the row there or gone. The clock counts seconds, because `iat` and `exp` of a JWT do.

| code | state or action |
| --- | --- |
| table `users` (unique e-mail) | `users`, e-mail to id; the id is the request that registered it |
| table `refresh_tokens` (unique token) | `tokens`; a token is a user and the second of its issue, all that differs between two JWTs of `generateRefreshToken` |
| `RegisterUserUseCase` | `Register` (the read), `CreateUser` (the insert or P2002), `UserCreated` (its return, and the token made from it), `StoreToken` (the insert or P2002), `TokenStored` (its return, 201) |
| `LoginUserUseCase` | `Login`, `Compare`, `StoreToken`, `TokenStored` |
| `RefreshAccessTokenUseCase` | `Refresh` (JWT verified, read awaited), `FindToken` (expiry judged on the answer), `DropExpired` (the deletion or P2025), `ExpiredDropped` (its return, 401) |
| `LogoutUserUseCase` | `Logout`, `DeleteToken`, `TokenDeleted`; an error is swallowed, so that a missing row is answered like a deleted one and a call that throws, before or after the deletion (`DatabaseFails`), ends as `"swallowed"` |
| `cleanExpiredTokens` | `Cleanup`, one `deleteMany`; it has no caller, see `Wired` |
| error handler | how a request ends: P2002 `"conflict"`, P2025 `"missing"`, another error `"error"` |
| crash, `gracefulShutdown` | `Stop` |

`expiresAt` has fractions of a second that the clock does not: in the second in
which a row expires the code may find it good or over, and `MayBeGood` and
`MayBeOver` both hold. Clients present tokens they were given (`Given`). `done` is a history
variable: the requests whose insert of a token, or whose deletion for a logout, has taken effect, whatever became of
their answers. `Stored` and `LoggedOut` are read from it.

### ReservationDelivery

| code | state or action |
| --- | --- |
| topic `reservations` | `topic`, a sequence; MS1's handlers are concurrent and its sends may be lost, repeated and reordered, so `Send` appends any event at any time |
| the consumer thread (`_consume_loop`) | `position`, what it has taken; `waiting`, the event in `future.result(timeout=5)` |
| consumer group | `committed`; kafka-python commits the position on a timer (`AutoCommit`) and on `close` (`Stop`), where the commit may fail, which is ignored (`StopUncommitted`) |
| coroutines scheduled by `run_coroutine_threadsafe` | `queue`, run in order by `Run`: a handler never yields the loop |
| `reserve_first_available`, the release of `spotId` | `HandleEvent`; `spotId` is never set, so `str(None)` names no spot |
| a handler that raises | `RunFails` |
| REST and gRPC on the same spots | `Operate` |
| shutdown, crash, start | `Stop`, `StopUncommitted`, `Crash`, `Start`: without a committed offset the consumer starts at the end (`auto_offset_reset` is latest) |

`handled`, `repeated`, `abandoned` and `holder` are history variables: what has
become of each event, and for which reservation a spot was reserved, which
MS2 does not record. The group has one consumer and the topic one partition,
Kafka's default, so that rebalancing does not occur. The steps inside a handler are in
`SpotAllocation`.

`IInv` names what the handlers and the offset owe each other; `Contract` maps the module to
`ConsumerContract`.

### ConsumerContract

Events arrive, are handled, are settled. A handler runs for an event after all
that were handled before, until a crash or a failed commit has brought events back, and
never for an event that the offset has passed, unless the event was given up
while its handler was scheduled. The offset goes on only over events that are
handled or given up. Thread, position, time-outs, the queue of the loop, stops and
starts are gone: `ImplementsContract` says that none of them matters to
these promises.

### KafkaProducer

`KafkaProducer` extends `ReservationDelivery`: MS2's actions run unchanged, and
`Send`, which there puts any event on the topic at any time, happens here when a call
of `publishEvent` has got that far.

| code | state or action |
| --- | --- |
| MS1's process | `service`: off, up, or leaving while `gracefulShutdown` runs |
| `KafkaConfig.producer` | `producer`: none, or how far its connection is; `made` counts the producers of the process |
| a call of `publishEvent` | `call[e]`: has the producer, has sent, waits for the answer, has returned or thrown |
| `startServer` | `StartServer`: `getProducer()` is called and not awaited, requests are taken at once |
| `getProducer` | `GetProducer`, in `StartServer` and `Publish`: the first caller makes the producer, later ones get it as it is |
| `connect()` resolves or rejects | `ConnectEnds("connected")`, `ConnectEnds("failed")`: after a failure the producer stays where it is |
| `gracefulShutdown`, `KafkaConfig.disconnect` | `Shutdown`, then `Exit`; the server is never closed, so requests are taken in between |
| `process.exit`, a crash | `Exit`: the calls in flight are lost with the process |
| `initialize`, `producer.send` | `Publish`, `HandOver` |
| kafkajs and the broker | `Arrive` (the message is on the topic), `Retry` (once more, as the answer was lost: the client is not idempotent) |
| the answer; an error | `Acknowledged`; `SendFails`, which `publishEvent` rethrows and the use case swallows |

What is put together: `prisma.$disconnect()`, which the shutdown awaits first, is part of
"up"; a connect that is still under way at the shutdown ends with it; the
publisher's own reference to the producer and `KafkaConfig`'s are the same object. A
message that reaches the broker after the client has given it up is one that
reached it just before. Each event is published once, as `Reservations` does; a second
closure of a reservation would be to MS2 what the first is. The order of two sends is free, and so
is their partition.

### Gate

`Gate` extends `SpotAllocation`: MS2's actions run unchanged beside the
threads of MS3.

| code | state or action |
| --- | --- |
| `validateEntry` | `Enter` (the call), `Answer` (MS2's loop answers, from the cache or by counting and filling), `Save`, `Publish3` |
| `catch (StatusRuntimeException)` | `CallFails`, then `Save`, which ends the request with entry denied and no event |
| `validateExit` | `Exit`, `Save`, `Publish3` |
| `saveValidation` that throws | `SaveFails` |
| `kafkaTemplate.send` | `Publish3`, whose future nobody awaits: the event may be lost; `PublishThrows` if it throws at once |
| table `validation_logs`, topic `parking-events` | `log`, `events` |

## 3. Runs

| run | instance | checks |
| --- | --- | --- |
| `reservations` | 3 requests, 1 lot, times 0..3, hours of 2 units, clean-up wired | `TypeOK`, `IInv`, `QueryIsExact`, `CostCoversSlot`, `NoUnracedOverlap`, `EventsAreTrue`, `ClosedStaysClosed`, `ShortenedOnlyByStaleRead`, `ImplementsLedger` |
| `handlers` | 3 requests, at most 2 of them creations, 2 users, times 0..2, everything wired, fair | `ChangedByOwnerOnly`, `VehicleKept`, `ReopenedOnlyByActivation`, `EveryRequestEnds` |
| `auth` | 3 requests, 2 e-mails, seconds 0..2, JWTs live 2, rows 1, clean-up wired, fair | `TypeOK`, `RegisteredOnce`, `SessionsKept`, `OwnSession`, `LogoutIsFinal`, `EveryRequestEnds` |
| `spots` | 1 lot of 2 spots, 2 threads, at most 1 late event | `TypeOK`, `IInv`, `CacheTrue`, `UpdatesTrue`, `OfferIsReal` |
| `path` | 1 reservation with its 2 events, 2 spots, 2 messages on the topic, any number of restarts of MS1, 1 crash of MS2 or stop without a commit, fair | `PathTypeOK`, `PathIInv`, `OneSpotEach`, `CommittedIsAccounted`, `InOrder`, `TwoSpotsNeedARetry`, `OneConnection`, `EventsAreHandled`, `EveryPublishEnds`, `AcknowledgedIsHandled`, `ImplementsContract` |
| `gate` | 1 car, 1 lot of 1 spot, 1 statistics thread, fair | `GateTypeOK`, `BarrierIsLogged`, `GrantIsTrue`, `EveryCarIsAnswered`, `StaleEntryGoes` |
| `double_booking`, `completed_cancelled`, `plate_case`, `login_conflict`, `spot_not_released`, `connection_not_retried` | small instances | see [5](#5-where-code-and-comments-disagree) |

What they show:

* **MS1.** The overlap query finds what it is meant to: a slot that passes it and the checks
  before it shares no instant with a live reservation, and an extension that
  looks at the added time only misses nothing (`QueryIsExact`); the price pays
  for the whole slot and less than an hour more (`CostCoversSlot`). Two live reservations of a lot share an instant only when their claims
  were made in overlapping windows (`NoUnracedOverlap`): no sequence of
  creations, extensions of closed reservations, cancellations, failures and
  restarts double books without such a race. What has been closed stays closed
  (`ClosedStaysClosed`) although extend does not look at the status and cancel
  overwrites what it finds; with `activateReservation` in use a closed
  reservation can come back, but only by an activation that read it PENDING
  (`ReopenedOnlyByActivation`). An extension shortens a reservation only if it
  worked from an end that had been overwritten, and stored the end it asked for (`ShortenedOnlyByStaleRead`). Events
  speak of rows that exist and of closures that have happened
  (`EventsAreTrue`). The ownership test made at the first read still holds at the
  write (`ChangedByOwnerOnly`), and the race of two inserts of a plate ends with
  one vehicle, one owner and two answered requests (`VehicleKept`,
  `EveryRequestEnds`). What happens to the slots of a lot is what the ledger allows
  (`ImplementsLedger`).
* **Accounts.** Of concurrent registrations of an e-mail one succeeds, and it owns the
  account (`RegisteredOnce`). A session stays until it is logged out or over:
  nothing the other handlers, restarts, the clean-up or failures, before or after a call has taken
  effect, do takes it away (`SessionsKept`). The token of two logins in one second is the same, and
  the unique column sees to it that two clients do not share it
  (`OwnSession`); it may come back after a logout, and then only because a second request
  has stored it, whether that was answered or not (`LogoutIsFinal`). A logout counts from the moment
  it takes effect, also when its client is told nothing; one that fails before is answered 200 like the others
  and leaves the session.
* **MS2.** The cached availability is the table's unless a thread stored a count that a
  commit had overtaken, an invalidation failed or was cut off, or the process
  runs without Redis over entries of its predecessor (`CacheTrue`); the topic
  tells the status of every spot unless its last change was lost or an older, late event
  came after it, which nothing in the code prevents (`UpdatesTrue`); a late event that was not overtaken does
  no harm; the cache offers a place if and only if
  the allocation query finds one (`OfferIsReal`). A stale entry goes
  (`StaleEntryGoes`).
* **MS1's producer.** A process connects one producer, however many requests publish while it
  connects (`OneConnection`). Every publication ends, with a producer that is
  still connecting, has failed or is being disconnected, so that the request that waits for
  it is answered (`EveryPublishEnds`). An event that was acknowledged is
  handled by a running consumer, or given up (`AcknowledgedIsHandled`; the event that a stopping thread
  drops, `kafka.py:85`, is given up without a word in the log): calls in flight
  during a start or a shutdown may fail, but do not report what is not so.
* **MS1 to MS2.** From end to end, a reservation gets two spots only if MS1's client sent its creation
  again, or MS2 crashed or stopped with a failing commit (`TwoSpotsNeedARetry`); seen from the topic, only if its creation is there
  twice or was handled twice (`OneSpotEach`), and nothing is handled twice
  before a crash or a failed commit (`InOrder`). An offset is committed only for events that were
  handled or given up (`CommittedIsAccounted`): a stop in the
  middle of a handler gives its event up, as does a handler that takes longer
  than five seconds, although it may still run. Handlers run in the order of
  the topic even when the thread does not wait for them (`InOrder`), and every
  event before a running consumer is handled or given up
  (`EventsAreHandled`). All this is what the contract says of handlers and
  offset (`ImplementsContract`).
* **The gate.** The barrier opens on a stored grant and events of the gate
  tell what is stored (`BarrierIsLogged`). A grant is right when MS2 gives it,
  hit or miss, but for the known gaps of the cache (`GrantIsTrue`); nothing
  holds the spot until the car is in. Every request ends (`EveryCarIsAnswered`), as long as MS2 answers: the call
  has no deadline, so that a MS2 that hangs would keep a car for ever, which is assumed away
  ([fairness](#fairness)).

### Bounds

`Requests` bounds everything in `Reservations` but time: a request is used once. A race needs two
requests and a row to race for needs a third: create/extend against create,
two extends or an extend and a cancel of one row, a clean-up between two steps of any of
them all fit in three. Times 0..3 give every relative position of two
intervals, touching ends included, with room to extend. Times 0..2 are what `handlers` needs for a
reservation to be extended, to end and to be cleaned up while other handlers wait. One lot is enough for `reservations`:
no query of the code joins two lots. `handlers` has the two users that ownership needs. As it checks liveness, where
a symmetry set is unsound, it breaks the symmetry by hand (`SpecTwoCreate`): `r1` creates a reservation for `u1`, `r2`
creates another or changes one, `r3` changes one. Renaming turns every behaviour with at most two creations into
such a one; a third creation would leave nobody to change the rows that the properties are about.

In `Auth` three requests are two who race and one who made what they race for
(register and two logins; register, logout, login); the lifetimes are so
short that within three seconds rows and JWTs expire, rows before JWTs
as well as tokens being made in the same and in different seconds. `IInv` was checked in this instance before
it was proved.

In `SpotAllocation`
nothing grows: spots can be taken and released for ever, and `MaxLate` bounds the
events that wait in the producer (a second one would only be another value for
the same topic). Two spots make "the first available" a choice and the count
differ from zero and one; two threads let one fill overtake another.

`MaxLength` bounds the events on the topic: two are one creation twice, or a creation and its
closure in either order, and two scheduled handlers at a time. One crash, or one stop without a commit, brings events back;
it may come at any step (`MaxRestarts`). A second spot is what a second handling of the one creation takes. Two reservations are not
needed for that, and what they add (a spot taken by another holder, a full lot) `Operate` does to
the one. MS1 may start, stop and crash without bound, and two calls of `publishEvent` overlap in every way. `Gate` has one car: cars share nothing but MS2 and a row of a
log that no code reads, and one car meets MS2 in every state it has, those in which
other cars' calls have filled the cache included (a statistics thread fills it alike).

Values that are
symmetric in the model (requests, lots, threads) are symmetry sets, in runs
without liveness.

`MCReservations` and `MCAuth` do not check for deadlock: every request is made once and the
clock stops at `MaxTime`, so the model comes to rest. The other modules are checked for it.

### Fairness

`Reservations!FairSpec` is weak fairness of `Answer(r)` for each request: the
database and Kafka answer every call sooner or later, if only with an error, and the event
loop gets round to the callback. Nothing is fair about arrivals, the clock, failures or
crashes.

`Auth!FairSpec` is the same for its `Answer(r)`.

`Gate!GateFairSpec` is weak fairness of `Finish` (the event loop runs a
handler on; Redis and Kafka calls return or raise, `publish_spot_changed` after 5 seconds at
the latest), of each thread's `Stats(t)`, and of `Expire(lot)`: `setex` gives
every entry a time to live. A request of MS3 goes on under strong fairness: it has
to wait for an idle loop, which asyncio serves in the order in which
callbacks became ready, so that a stream of handlers cannot keep it from its turn. Requests, restarts and late
deliveries are not fair.

`ReservationDelivery!FairSpec` is weak fairness of `Poll` (the thread is a
loop around `poll`) and of the handler at the head of the queue, run or
raising. Time-outs, commits, sends, stops, crashes and starts are not fair; that is why
`EventsAreHandled` has "or the consumer stops".

`KafkaProducer!PathFairSpec` is that for MS2, and for MS1 weak fairness of `ConnectEnds` (kafkajs retries
eight times and then rejects) and, for each event, of `GoesOn`: the event loop runs the call on, and
`send` returns or throws after its last retry. That a message arrives is not fair, nor are starts,
shutdowns, crashes and retries; `Acknowledged` or `SendFails` ends a call that goes on retrying.

## 4. Proofs

All for any number of requests, users, lots, plates, cars, events and spots, any bound on the clock, any number of
threads, restarts and crashes, any number of time units in an hour.

| theorem | says |
| --- | --- |
| `Reservations_proofs!TypeCorrect` | `Spec => []TypeOK` |
| `Reservations_proofs!InvariantHolds` | its `IInv`, as long as nothing calls `activateReservation` |
| `Reservations_proofs!NoUnracedOverlapHolds` | no double booking without a race, as long as nothing calls `activateReservation` |
| `ReservationsSteps_proofs!OwnersHold` | its `OwnersInv`, whatever is wired |
| `ReservationsSteps_proofs!ChangedByOwnerOnlyHolds`, `ShortenedOnlyByStaleReadHolds`, `VehicleKeptHolds`, `ReopenedOnlyByActivationHolds` | the four action properties, whatever is wired |
| `ReservationsSteps_proofs!QueryIsExactHolds`, `CostCoversSlotHolds` | the overlap query and the price, whatever is wired |
| `ReservationsSteps_proofs!ClosedStaysClosedHolds`, `EventsAreTrueHolds` | as long as nothing calls `activateReservation` |
| `ReservationsSteps_proofs!ImplementsLedgerHolds` | `Spec => Ledger!Spec`, as long as nothing calls `activateReservation` |
| `ReservationLedger_proofs!LedgerKeepsItsPromise` | the ledger's steps never let two open entries of a lot clash unexcused |
| `SpotAllocation_proofs!TypeCorrect` | `Spec => []TypeOK`: in particular, the places left are never negative |
| `SpotAllocation_proofs!Invariance` | its `IInv` |
| `SpotAllocation_proofs!CacheTrueHolds`, `UpdatesTrueHolds`, `OfferIsRealHolds` | the three properties of `spots` |
| `ReservationDelivery_proofs!OneSpotEachHolds`, `CommittedIsAccountedHolds`, `InOrderHolds` | the safety properties of the consumer in `path` |
| `ReservationDelivery_proofs!ImplementsContractHolds` | `Spec => Contract!Spec`: the consumer implements `ConsumerContract` |
| `KafkaProducer_proofs!ImplementsDelivery` | `PathSpec => Spec`: the path implements `ReservationDelivery`, whose theorems hold of it |
| `KafkaProducer_proofs!PathInvariance`, `PathTypeCorrect`, `OneConnectionHolds`, `TwoSpotsNeedARetryHolds` | the safety properties of the path |
| `Gate_proofs!GateInvariance`, `GateTypeCorrect`, `BarrierIsLoggedHolds` | `GateInv`, and the two invariants of `gate` |
| `Gate_proofs!GrantIsTrueHolds` | the answer the gate decides on is right, but for the known gaps |
| `Gate_proofs!GateKeepsSpotAllocation` | `GateSpec => Spec`: the gate is a client like any other, so that the theorems of `SpotAllocation` hold of the composition |
| `Auth_proofs!TypeCorrect` | `Spec => []TypeOK` |
| `Auth_proofs!RegisteredOnceHolds`, `SessionsKeptHolds`, `OwnSessionHolds`, `LogoutIsFinalHolds` | the safety properties of `auth` |

Assumptions: `ReservationsAssumption` (the clock's bound is a natural number, `toUpperCase`
maps plates to plates, an hour has at least one unit of time), `SpotsAssumption` (finitely many spots, numbered by naturals, each in a
lot), `DeliveryAssumption` and `AuthAssumption` (bounds and lifetimes are natural numbers, `Nobody` is nobody;
no relation between the lifetimes is needed). `NoUnracedOverlapHolds` also assumes `"activate" \notin Wired`, which
is what the code does today; with the activation in use it is false, for an activation can
put back a reservation whose slot has been given away. The same assumption, for the same
reason, is made by `InvariantHolds`, `ClosedStaysClosedHolds`, `EventsAreTrueHolds` and
`ImplementsLedgerHolds`; `ReopenedOnlyByActivationHolds` says without it what may happen then.

*Reservations.* `NoUnracedOverlap` is not inductive: whether a write clashes
depends on what its handler learned some steps earlier. `ClaimsKnown`
says what that is. A handler that has passed the overlap query knows its slot
to meet only reservations that it raced with: whoever wrote into the slot
since did so during this claim, and `Record` put the pair into `raced`. An
extension knows this of the part before the end it read for as long as its own
reservation is live, because that reservation held it, and of the added part once its query has
answered. `HandlersAgree` ties handlers to rows (a create's row is there exactly
once it inserted it, other handlers' rows keep lot and owner). Together with
`TypeOK` these make up `IInv`. Most steps are *quiet*, they make no reservation live and
move no end: the lemmas `Quiet...` deal with all of them at once. Two steps
write a slot, `InsertRow` and `ExtendUpdate`, and have proofs of their own, which
rest on `RivalRecorded` and on `OverlapMeets`, the clause against its reference
definition.

*Steps of Reservations.* The properties of what a step may change are about a write
that acts on an earlier read, so they need to know what the reader kept. `IInv` says it, but holds
only while nothing is activated; `OwnersInv` says what holds whatever is wired: a handler works on a row
that is there, for its owner, asks for a slot that ends after its start, and does not insert
a row before the plate has a vehicle. It is inductive because the tables only grow (`TablesGrow`): no step
removes a row, changes its user, plate or start, or takes a vehicle from its owner. The writes are described
once (`InsertEffect`, `ExtendEffect`, `CloseEffect`, `CleanupEffect`; `RowSteps`: there are no others) and
`RowChange` lists what may change a row, from which the action properties follow.
`EventsAreTrue` needs `IInv`, which knows that a handler that is about to say "cancelled" has
closed its row, and `NeverReopens`, that it still is.

`QueryIsExact` follows from `OverlapMeets` and two facts about intervals (`MeetsIsShared`,
`MeetsSplit`), since `OwnersInv` says that the stored slots end after their starts: for an empty slot the clause
of the code would not be the reference test. `CostCoversSlot` is `CeilingCovers`,
the characterisation of rounding up.

*Ledger.* A row is mapped to its entry (`Entries`). An insert opens one (`InsertOpens`): by `IInv` the
slot clashes only with reservations it raced with, and `Record` excuses the pair in the same step. An extension moves an end
if its row is still live; of a closed row it moves the end of a closed entry, which clashes with
nothing (`ExtendMoves`). Cancellations, completions and the clean-up close (`GivenUpCloses`, with `NeverReopens`); all
other steps leave the ledger alone (`StepKeepsLedger`). What the ledger's own
steps add up to is proved in `ReservationLedger_proofs`: an entry that is put in fits.

*SpotAllocation.* `CacheTrue` needs to know what threads are about to
store (`FillsTrue`: the availability, unless a commit made the count dirty) and
`UpdatesTrue` what the running handler is about to say (`HandlerTells`: the
spot's status) and what a late event would (`WaitingTells`: the same, unless it was overtaken). Each step is reduced to five lemmas, one per conjunct
(`LoopKeeps`, `StatsKeep`, `WaitingKeep`, `CacheKeeps`, `TopicKeeps`), except the commits,
which change the table itself (`CommitKeeps`, with `OtherLots`: no other
lot's count changes). `CalculateType` shows that the count of
`OccupancyService.calculate` is the number of free spots; with `Least` (a set of
numbers that is not empty has a least member) it gives `PlacesLeft`, that the count is positive
exactly when the query finds a spot, and `OfferIsReal`.

*Gate.* A step of the composition is a step of MS2 or leaves MS2 alone (`GateStep`), which brings the
whole `IInv` of `SpotAllocation` along. `BarrierIsLogged` is not inductive: that the outcome of an opening barrier is
stored depends on what the thread did two steps before. `GateStage` says it: nothing is stored of a car before its
thread has an outcome, then that outcome and nothing else; a question is always one for entry, an exit
is never denied. A step concerns one car (`OneCar`), and a car of which nothing new is said keeps what is
known of it (`CarKeeps`). For `GrantIsTrue`, only `Answer` decides (`OnlyAnswers`), and it does so on
an idle loop: no handler is between its commit and its invalidation, so `CacheTrue` makes an untainted
entry a count, and `PlacesLeft` a positive count a spot (`AnswerTrue`).

*ReservationDelivery.* `CommittedIsAccounted` speaks of what is committed; the
invariant that carries it speaks of what is taken: `PositionAccounted` says
that an event the consumer has taken was handled, was given up or is in the
queue, and that an event in the queue which it does not wait for was
given up. A commit happens when it waits for nothing, so the position can be
committed. `HoldersHandled` (a spot's holder had its creation handled) makes
`OneSpotEach` inductive: a second spot needs a second handled creation, or the
same one again. `NothingComesBack` says that before the first crash or failed commit the
position covers all that was handled and a stopped consumer has committed it. The refinement
needs one thing more, `HandlersAhead`: an event that is waited for is not committed, and before a crash
or failed commit all that was handled comes before all that is queued. With it a handler that runs is one the
contract lets run (`RunKept`), an arrival, a run, and a crash or a stop without a commit map to the contract's own steps,
a poll and an operator to none, and the rest settles (`SettleKept`).

*KafkaProducer.* A step of the path is a step of `ReservationDelivery` or leaves its variables alone
(`StepImplements`), which gives `ImplementsDelivery` and, with `NextInv`, the whole `IInv` of the
consumer. `SentOnce` says that a creation is on the topic at most once, and not before its call sent
it, unless it was sent again; with `OneSpotEach` and `InOrder` it gives
`TwoSpotsNeedARetry` (`SpotsFollow`). `ProducerMade`, that a running process has made exactly one
producer, gives `OneConnection`.

*Auth.* None of `SessionsKept` and `OwnSession` is inductive: they speak of tokens that clients were given, and a
token is in the table, or deleted again, before its client is told. `StoredKept` and `StoredOnce` say the same of
every request in `done`, answered or not: what it stored is there, was logged out or is over, and two requests have stored one
token only one after the other, with a logout or the expiry in between. `Places` says what a handler knows at each
place, and ties `done` to the places: who is given a token has stored it (`GivenWereStored`), which takes the two back to the
properties. `PresentedWasGiven` ties refresh and logout to a token somebody was given, `DropsExpired` says that a
deletion by refresh is of an expired row, now and later. With these the conjuncts support one another: a token that is
not in the table was never stored, logged out or is over (`StoredKept`), which is why storing it again harms nobody
(`StoredOnce`), and a logout needs a token that was given, so that what is stored afterwards was stored twice
(`LogoutIsFinal`). Most actions store nothing and delete only what is over (`QuietSessions`); the returns and the
failures only move a handler (`MoveKeeps`); the insert of a token and the deletion of a logout
are `StoreTokenKeeps` and `DeleteTokenKeeps`.

## 5. Where code and comments disagree

* **A lot can be double booked.** `reservations.service.test.ts:70` says "should throw error if
  parking lot is fully booked". Two creates whose overlap queries both run before either
  insert are both stored (`double_booking`).
* **A completed reservation can be cancelled.** `cancel-reservation.usecase.ts:22` says "Cannot
  cancel completed reservation". A cancel that read the row before it was
  completed overwrites the status (`completed_cancelled`).
* **A live reservation may not be found by its plate.** `reservations.controller.ts:45` answers "No active
  reservation found for this plate number". The lookup upper-cases the plate and create
  does not, while the validation accepts lower case (`plate_case`).
* **A login may be answered 409.** `auth.routes.test.ts:141` says "should login successfully and
  return 200 with tokens". A refresh token is made from the user and the second,
  and its column is unique: a login within the second of the
  registration, or of another login, is refused as a conflict
  (`login_conflict`).
* **Spots are not released.** `ARCHITECTURE.md:102` has MS2 release spots when a reservation is over, by the
  `spotId` of the event. MS1 never sets it, so that a spot reserved for a reservation stays
  reserved when the reservation is closed (`spot_not_released`).

* **A failed connection is not retried.** `index.ts:95` logs "Kafka connection failed (will retry)". `getProducer`
  has assigned the producer by then, so that nobody connects it again, and every event is
  lost until the process is restarted (`connection_not_retried`).

## 6. Limits

Only model-checked: liveness (`EveryRequestEnds`, `EveryCarIsAnswered`, `EventsAreHandled`, `EveryPublishEnds`,
`AcknowledgedIsHandled`, `StaleEntryGoes`), which the prover does not reach, and the six
violations of [5](#5-where-code-and-comments-disagree). Every invariant and every safety property of a step that a passing
run checks is also a theorem.

Abstracted: times are small integers for millisecond timestamps; the price is
checked as an operator and not kept in rows; HTTP statuses, headers, log lines and the payload of events
beyond type, id and lot are left out. In `Reservations` a database call that throws after its write has taken
effect is not told from one whose later send fails: both leave the row without its event. `InsertVehicle` has no send after it;
a throw after it is that of the next call, `InsertRow`. Nothing follows the update of an activation, whose answer no
property looks at. `Auth`, where no send follows, has the
effect and the return apart. A statement that takes effect only after its
call has thrown, or after the process has stopped, is not modelled. Calls that hang are not either: each call of a
database, of Redis, of Kafka and of gRPC returns or throws, which liveness assumes and the code does not see
to where it sets no deadline (`ParkingSpotsGrpcClient.java:44`, Redis). The ids `lot-1` and
`lot-2` that MS2 seeds are not UUIDs and MS1's validation wants UUIDs, so that a
deployment needs lots of its own; the models take the lots as given.

In part: MS1's HTTP layer keeps no state; of it the models have the routes and the schema of a
new reservation. Its other schemas bound strings that are model values here, and the request limiter and the
verification of access tokens are libraries'.

Not modelled: MS2's
parking lots (read-only over constant tables), MS3's listener (it only logs),
configuration, logging, API documents, containers (no behaviour of their own),
generated stubs.

## 7. Plan

Done, in this order: `ReservationIntervals`, `Reservations` with
`ReservationLedger`, `SpotAllocation`, `ReservationDelivery` with `ConsumerContract`, `Gate`, `Auth`,
`KafkaProducer`, and the proofs above, those of the action properties, of the
ledger and of the gate last. What is left to prove:

1. `EventsAreTrue` without the assumption that nothing is activated, with the exception that an
   activation makes.
2. `UpdatesTrue` in terms of an abstract follower of the topic, as a refinement of `SpotAllocation`.
3. That a car at the gate is answered once, as a refinement of an abstract barrier.
