----------------------------- MODULE Reservations -----------------------------
(***************************************************************************)
(* MS1, the reservations service: one Node process serving many HTTP        *)
(* requests, whose handlers interleave at every await.                      *)
(*                                                                         *)
(* A handler is a chain of database calls.  Each call is one action: the    *)
(* query or the write takes effect in it, and the synchronous code up to    *)
(* the next await runs with it.  What a handler read stays in its local     *)
(* variables (reqs[r]) while others write the tables.  There are no         *)
(* transactions and no locks.                                               *)
(*                                                                         *)
(* A reservation's id is a fresh uuid, so it is named after the request     *)
(* that creates it.  A request that a handler turns away before it has      *)
(* written anything, on its first read, leaves no trace and is a step that  *)
(* is not enabled.                                                          *)
(***************************************************************************)
EXTENDS ReservationIntervals, FiniteSets

CONSTANTS
  Requests,  \* the HTTP requests (and service calls) that may ever be made
  Users,     \* authenticated users
  Lots,      \* values of parkingLotId
  Plates,    \* values of plateNumber that pass the validation middleware
  Upper,     \* String.toUpperCase on Plates
  MaxTime,   \* bound on the clock and on requested times
  Wired,     \* service methods no route calls, that are called all the same
  Hour       \* units of time in an hour, for the price

ASSUME ReservationsAssumption ==
  /\ MaxTime \in Nat
  /\ Upper \in [Plates -> Plates]
  /\ Wired \subseteq {"activate", "cleanup"}
  /\ Hour \in Nat \ {0}

VARIABLES
  now,       \* the wall clock
  rows,      \* table reservations: id -> row, for the rows that exist
  vehicles,  \* table vehicles: plate -> owner, for the rows that exist
  reqs,      \* request -> local variables of its handler, once it has begun
  topic,     \* the events that have reached the Kafka topic "reservations"
  raced      \* history: pairs of reservations claimed in overlapping windows

vars == <<now, rows, vehicles, reqs, topic, raced>>

Time == 0..MaxTime

Row == [status : {"PENDING", "ACTIVE", "COMPLETED", "CANCELLED", "EXPIRED"},
        user : Users, lot : Lots, plate : Plates, start : Time, end : Time]

\* Where a handler is: the database call or the send it awaits, or how it ended.
Waiting == {"count", "vehicle", "newVehicle", "insert", "update", "publish"}
Ended == {"done", "refused", "failed", "lost"}

\* The local variables of a handler.  from and to bound the slot its overlap
\* query asks for; a handler that asks for none keeps the times it read.
Handler == [op : {"create", "extend", "cancel", "complete", "activate"},
            at : Waiting \cup Ended,
            id : Requests, user : Users, lot : Lots, plate : Plates,
            from : Time, to : Time]

Event == [type : {"created", "extended", "cancelled", "completed"},
          id : Requests, lot : Lots]

\* status in (PENDING, ACTIVE): the reservation holds its slot.
Live(row) == row.status \in {"PENDING", "ACTIVE"}
LiveIds == {i \in DOMAIN rows : Live(rows[i])}

Begun == DOMAIN reqs
At(r, p) == r \in Begun /\ reqs[r].at = p
InFlight(r) == r \in Begun /\ reqs[r].at \in Waiting

-------------------------------------------------------------------------------
\* The queries.

HasOverlap(lot, start, end, except) ==
  \E i \in LiveIds \ except :
    /\ rows[i].lot = lot
    /\ OverlapClause(rows[i].start, rows[i].end, start, end)

\* getReservationByPlateNumber: any row the query may return.
FoundByPlate(plate) ==
  {i \in LiveIds : rows[i].plate = Upper[plate] /\ rows[i].end >= now}

-------------------------------------------------------------------------------
\* History.  A handler is claiming a slot from the read it decides on (the
\* overlap query of a create, the row read by an extend) to its write.

Claiming(q) ==
  \/ reqs[q].op = "create" /\ reqs[q].at \in {"vehicle", "newVehicle", "insert"}
  \/ reqs[q].op = "extend" /\ reqs[q].at \in {"count", "update"}

\* The slot the reservation will have once q has written.
ClaimStart(q) ==
  IF reqs[q].op = "extend" THEN rows[reqs[q].id].start ELSE reqs[q].from

\* The other claims in progress that the slot [start, end] of i cuts across.
Rivals(i, lot, start, end) ==
  {reqs[q].id : q \in {p \in Begun :
     /\ Claiming(p)
     /\ reqs[p].id # i
     /\ reqs[p].lot = lot
     /\ Meets(ClaimStart(p), reqs[p].to, start, end)}}

Record(i, lot, start, end) ==
  raced' = raced \cup ({i} \X Rivals(i, lot, start, end))

-------------------------------------------------------------------------------
Init ==
  /\ now = 0
  /\ rows = << >>
  /\ vehicles = << >>
  /\ reqs = << >>
  /\ topic = {}
  /\ raced = {}

Tick ==
  /\ now < MaxTime
  /\ now' = now + 1
  /\ UNCHANGED <<rows, vehicles, reqs, topic, raced>>

\* A handler begins with the given local variables.
Begin(r, locals) ==
  /\ r \notin Begun
  /\ reqs' = [q \in Begun \cup {r} |-> IF q = r THEN locals ELSE reqs[q]]

Goto(r, p) == reqs' = [reqs EXCEPT ![r].at = p]

Store(i, row) == rows' = [j \in DOMAIN rows \cup {i} |-> IF j = i THEN row ELSE rows[j]]

\* POST /reservations, up to the first await: both validations of the times
\* (Joi and reservation-policy.ts) and the overlap query on its way.
BeginCreate(r, user, lot, plate, start, end) ==
  /\ CreateBodyOK(start, end, now)
  /\ ReservationTimesOK(start, end, now)
  /\ Begin(r, [op |-> "create", at |-> "count", id |-> r, user |-> user,
               lot |-> lot, plate |-> plate, from |-> start, to |-> end])
  /\ UNCHANGED <<now, rows, vehicles, topic, raced>>

\* Faulty variant: the answer of the overlap query is not looked at.
CreateCountUnchecked(r) ==
  /\ At(r, "count") /\ reqs[r].op = "create"
  /\ Goto(r, "vehicle")
  /\ UNCHANGED <<now, rows, vehicles, topic, raced>>

\* create: the overlap query answers.
CreateCount(r) ==
  /\ At(r, "count") /\ reqs[r].op = "create"
  /\ Goto(r, IF HasOverlap(reqs[r].lot, reqs[r].from, reqs[r].to, {})
             THEN "refused" ELSE "vehicle")
  /\ UNCHANGED <<now, rows, vehicles, topic, raced>>

\* create: getOrCreateVehicle looks the plate up ...
FindVehicle(r) ==
  /\ At(r, "vehicle")
  /\ Goto(r, IF reqs[r].plate \in DOMAIN vehicles THEN "insert" ELSE "newVehicle")
  /\ UNCHANGED <<now, rows, vehicles, topic, raced>>

\* Faulty variants: an insert that overwrites, one that waits for the plate.
InsertVehicleUpsert(r) ==
  /\ At(r, "newVehicle")
  /\ vehicles' = [p \in DOMAIN vehicles \cup {reqs[r].plate} |->
                    IF p = reqs[r].plate THEN reqs[r].user ELSE vehicles[p]]
  /\ Goto(r, "insert")
  /\ UNCHANGED <<now, rows, topic, raced>>

InsertVehicleBlocks(r) ==
  At(r, "newVehicle") /\ reqs[r].plate \notin DOMAIN vehicles /\ InsertVehicleUpsert(r)

\* ... and inserts it; if another request has inserted it meanwhile, the unique
\* plate makes this one fail (P2002, answered with 409).
InsertVehicle(r) ==
  /\ At(r, "newVehicle")
  /\ IF reqs[r].plate \in DOMAIN vehicles
       THEN Goto(r, "failed") /\ UNCHANGED vehicles
       ELSE /\ vehicles' = [p \in DOMAIN vehicles \cup {reqs[r].plate} |->
                              IF p = reqs[r].plate THEN reqs[r].user ELSE vehicles[p]]
            /\ Goto(r, "insert")
  /\ UNCHANGED <<now, rows, topic, raced>>

\* create: the row is inserted.
InsertRow(r) ==
  /\ At(r, "insert")
  /\ Store(r, [status |-> "PENDING", user |-> reqs[r].user, lot |-> reqs[r].lot,
               plate |-> reqs[r].plate, start |-> reqs[r].from, end |-> reqs[r].to])
  /\ Record(r, reqs[r].lot, reqs[r].from, reqs[r].to)
  /\ Goto(r, "publish")
  /\ UNCHANGED <<now, vehicles, topic>>

\* Faulty variant: the new end is not compared with the current one.
BeginExtendAnyEnd(r, user, i, newEnd) ==
  /\ i \in DOMAIN rows
  /\ rows[i].user = user
  /\ Begin(r, [op |-> "extend", at |-> "count", id |-> i, user |-> user,
               lot |-> rows[i].lot, plate |-> rows[i].plate,
               from |-> rows[i].end, to |-> newEnd])
  /\ UNCHANGED <<now, rows, vehicles, topic, raced>>

\* PUT /reservations/:id/extend: the row is read and the new end validated; the
\* slot to ask for starts at the end that was read.  The status is not looked at.
BeginExtend(r, user, i, newEnd) ==
  /\ i \in DOMAIN rows
  /\ rows[i].user = user
  /\ ExtensionTimeOK(rows[i].end, newEnd)
  /\ Begin(r, [op |-> "extend", at |-> "count", id |-> i, user |-> user,
               lot |-> rows[i].lot, plate |-> rows[i].plate,
               from |-> rows[i].end, to |-> newEnd])
  /\ UNCHANGED <<now, rows, vehicles, topic, raced>>

\* Faulty variant: a handler that asks for more time without the overlap query.
ExtendCountUnchecked(r) ==
  /\ At(r, "count") /\ reqs[r].op = "extend"
  /\ Goto(r, "update")
  /\ UNCHANGED <<now, rows, vehicles, topic, raced>>

\* extend: the overlap query, which leaves the reservation itself out, answers.
ExtendCount(r) ==
  /\ At(r, "count") /\ reqs[r].op = "extend"
  /\ Goto(r, IF HasOverlap(reqs[r].lot, reqs[r].from, reqs[r].to, {reqs[r].id})
             THEN "refused" ELSE "update")
  /\ UNCHANGED <<now, rows, vehicles, topic, raced>>

\* Faulty variants: newEndTime taken for a duration; the row written back whole,
\* with a status of its own.
ExtendUpdateAdds(r) ==
  /\ At(r, "update") /\ reqs[r].op = "extend"
  /\ rows' = [rows EXCEPT ![reqs[r].id].end = @ + reqs[r].to]
  /\ Goto(r, "publish")
  /\ UNCHANGED <<now, vehicles, topic, raced>>

ExtendUpdateReopens(r) ==
  /\ At(r, "update") /\ reqs[r].op = "extend"
  /\ rows' = [rows EXCEPT ![reqs[r].id].end = reqs[r].to,
                          ![reqs[r].id].status = "PENDING"]
  /\ Goto(r, "publish")
  /\ UNCHANGED <<now, vehicles, topic, raced>>

\* extend: endTime is overwritten, whatever the row is by now.
ExtendUpdate(r) ==
  /\ At(r, "update") /\ reqs[r].op = "extend"
  /\ rows' = [rows EXCEPT ![reqs[r].id].end = reqs[r].to]
  /\ Record(reqs[r].id, reqs[r].lot, rows[reqs[r].id].start, reqs[r].to)
  /\ Goto(r, "publish")
  /\ UNCHANGED <<now, vehicles, topic>>

\* A handler that reads row i and then only awaits its update.
BeginClose(r, op, user, i) ==
  /\ Begin(r, [op |-> op, at |-> "update", id |-> i, user |-> user,
               lot |-> rows[i].lot, plate |-> rows[i].plate,
               from |-> rows[i].start, to |-> rows[i].end])
  /\ UNCHANGED <<now, rows, vehicles, topic, raced>>

SetStatus(r, status, next) ==
  /\ rows' = [rows EXCEPT ![reqs[r].id].status = status]
  /\ Goto(r, next)
  /\ UNCHANGED <<now, vehicles, topic, raced>>

\* Faulty variant: the owner is not compared with the caller.
BeginCancelAnyone(r, user, i) ==
  /\ i \in DOMAIN rows
  /\ rows[i].status \notin {"CANCELLED", "COMPLETED", "ACTIVE"}
  /\ BeginClose(r, "cancel", user, i)

\* DELETE /reservations/:id: an EXPIRED reservation may be cancelled.
BeginCancel(r, user, i) ==
  /\ i \in DOMAIN rows
  /\ rows[i].user = user
  /\ rows[i].status \notin {"CANCELLED", "COMPLETED", "ACTIVE"}
  /\ BeginClose(r, "cancel", user, i)

CancelUpdate(r) ==
  /\ At(r, "update") /\ reqs[r].op = "cancel"
  /\ SetStatus(r, "CANCELLED", "publish")

\* POST /reservations/:id/complete, an internal route: any existing row, in any
\* status, of any user.
BeginComplete(r, i) ==
  /\ i \in DOMAIN rows
  /\ BeginClose(r, "complete", rows[i].user, i)

\* Faulty variant: markAsActive in the place of markAsCompleted.
CompleteUpdateActivates(r) ==
  /\ At(r, "update") /\ reqs[r].op = "complete"
  /\ SetStatus(r, "ACTIVE", "publish")

CompleteUpdate(r) ==
  /\ At(r, "update") /\ reqs[r].op = "complete"
  /\ SetStatus(r, "COMPLETED", "publish")

\* ReservationsService.activateReservation, which nothing in src/ calls.
BeginActivate(r, i) ==
  /\ "activate" \in Wired
  /\ i \in DOMAIN rows
  /\ rows[i].status = "PENDING"
  /\ BeginClose(r, "activate", rows[i].user, i)

ActivateUpdate(r) ==
  /\ At(r, "update") /\ reqs[r].op = "activate"
  /\ SetStatus(r, "ACTIVE", "done")

\* ReservationsService.cleanupExpiredReservations, one updateMany, which nothing
\* in src/ calls either.
Cleanup ==
  /\ "cleanup" \in Wired
  /\ \E i \in LiveIds : rows[i].end < now
  /\ rows' = [i \in DOMAIN rows |->
                IF Live(rows[i]) /\ rows[i].end < now
                THEN [rows[i] EXCEPT !.status = "EXPIRED"] ELSE rows[i]]
  /\ UNCHANGED <<now, vehicles, reqs, topic, raced>>

EventOf(r) ==
  [type |-> CASE reqs[r].op = "create" -> "created"
              [] reqs[r].op = "extend" -> "extended"
              [] reqs[r].op = "cancel" -> "cancelled"
              [] OTHER -> "completed",
   id |-> reqs[r].id, lot |-> reqs[r].lot]

\* The event is sent and the request answered ...  (A send that is tried again may
\* put it on the topic twice, and the key of an event is its type, so that those of
\* one reservation are in no order: neither matters to a set.)
Publish(r) ==
  /\ At(r, "publish")
  /\ topic' = topic \cup {EventOf(r)}
  /\ Goto(r, "done")
  /\ UNCHANGED <<now, rows, vehicles, raced>>

\* ... or the send throws: that is logged and the request answered all the same.
PublishFails(r) ==
  /\ At(r, "publish")
  /\ Goto(r, "done")
  /\ UNCHANGED <<now, rows, vehicles, topic, raced>>

\* Faulty variant: the error is swallowed and the handler goes on to publish.
DatabaseFailureIgnored(r) ==
  /\ InFlight(r) /\ reqs[r].at # "publish"
  /\ Goto(r, "publish")
  /\ UNCHANGED <<now, rows, vehicles, topic, raced>>

\* A database call throws without taking effect; the request is answered 500.  (One
\* that throws after its effect changes what the effect followed by PublishFails
\* changes, and no property looks at the answer.)
DatabaseFails(r) ==
  /\ InFlight(r) /\ reqs[r].at # "publish"
  /\ Goto(r, "failed")
  /\ UNCHANGED <<now, rows, vehicles, topic, raced>>

\* The process stops, by a crash or by gracefulShutdown, which exits without
\* waiting for the requests in flight; it is restarted with its tables intact.
Stop ==
  /\ \E r \in Begun : InFlight(r)
  /\ reqs' = [r \in Begun |->
                IF InFlight(r) THEN [reqs[r] EXCEPT !.at = "lost"] ELSE reqs[r]]
  /\ UNCHANGED <<now, rows, vehicles, topic, raced>>

-------------------------------------------------------------------------------
Arrive(r) ==
  \/ \E user \in Users, lot \in Lots, plate \in Plates, start, end \in Time :
       BeginCreate(r, user, lot, plate, start, end)
  \/ \E user \in Users, i \in Requests, newEnd \in Time : BeginExtend(r, user, i, newEnd)
  \/ \E user \in Users, i \in Requests : BeginCancel(r, user, i)
  \/ \E i \in Requests : BeginComplete(r, i)
  \/ \E i \in Requests : BeginActivate(r, i)

Answer(r) ==
  \/ CreateCount(r) \/ FindVehicle(r) \/ InsertVehicle(r) \/ InsertRow(r)
  \/ ExtendCount(r) \/ ExtendUpdate(r)
  \/ CancelUpdate(r) \/ CompleteUpdate(r) \/ ActivateUpdate(r)
  \/ Publish(r) \/ PublishFails(r)

Next ==
  \/ Tick
  \/ Cleanup
  \/ Stop
  \/ \E r \in Requests : Arrive(r) \/ Answer(r) \/ DatabaseFails(r)

Spec == Init /\ [][Next]_vars

\* Every database call and every send is answered in the end, unless it has
\* failed, and the event loop gets round to every callback.
FairSpec == Spec /\ \A r \in Requests : WF_vars(Answer(r))

-------------------------------------------------------------------------------
\* Types.  A row exists from the insert on, so the request it is named after
\* is a create, and an extend or a close works on an existing row.
TypeOK ==
  /\ now \in Time
  /\ DOMAIN rows \subseteq Requests
  /\ \A i \in DOMAIN rows : rows[i] \in Row
  /\ DOMAIN vehicles \subseteq Plates
  /\ \A p \in DOMAIN vehicles : vehicles[p] \in Users
  /\ DOMAIN reqs \subseteq Requests
  /\ \A r \in DOMAIN reqs : reqs[r] \in Handler
  /\ topic \subseteq Event
  /\ raced \subseteq Requests \X Requests

Excused(i, j) == <<i, j>> \in raced \/ <<j, i>> \in raced

\* A lot holds one live reservation at a time (hasOverlap is lot-wide), except
\* where two claims of it were made in overlapping windows.  A clash can always
\* be traced to such a race: requests that do not race are never double booked,
\* however many creates, extensions and cancellations came before.
NoUnracedOverlap ==
  \A i, j \in LiveIds :
    /\ i # j
    /\ rows[i].lot = rows[j].lot
    /\ Meets(rows[i].start, rows[i].end, rows[j].start, rows[j].end)
    => Excused(i, j)

\* What the topic says of a reservation is so, although the events of concurrent
\* handlers are sent in any order: the reservation exists, is in the lot the event
\* names, and one said to be cancelled or completed holds no slot any more.
EventsAreTrue ==
  \A event \in topic :
    /\ event.id \in DOMAIN rows
    /\ event.lot = rows[event.id].lot
    /\ event.type \in {"cancelled", "completed"} => event.id \notin LiveIds

\* The overlap query (reservation.repository.prisma.ts, hasOverlap), asked for any slot in
\* any state of the table, finds a live reservation exactly when some instant belongs
\* to both: its three disjuncts miss none of the ways two intervals can lie.  And an
\* extension, which asks only for the time it adds, learns what asking for the whole
\* new slot would tell, given the slot it has.
QueryIsExact ==
  /\ \A lot \in Lots, start, end \in Time :
       start <= end =>
         (HasOverlap(lot, start, end, {})
           <=> \E i \in LiveIds : /\ rows[i].lot = lot
                                  /\ (rows[i].start..rows[i].end) \cap (start..end) # {})
  /\ \A i \in DOMAIN rows, newEnd \in Time :
       ExtensionTimeOK(rows[i].end, newEnd) =>
         LET Found(start, end) == HasOverlap(rows[i].lot, start, end, {i})
         IN  Found(rows[i].start, newEnd)
               <=> Found(rows[i].start, rows[i].end) \/ Found(rows[i].end, newEnd)

\* What a create is about to charge (create-reservation.usecase.ts:29) is two per started
\* hour: the paid hours are the fewest that cover the reservation, so the boundary
\* of a whole hour is not charged twice.
CostCoversSlot ==
  \A r \in Begun :
    reqs[r].op = "create" /\ reqs[r].at = "insert" =>
      LET length == reqs[r].to - reqs[r].from
          cost   == TotalCost(reqs[r].from, reqs[r].to, Hour)
      IN  \E paid \in 1..length : /\ cost = 2 * paid
                                  /\ paid * Hour >= length
                                  /\ (paid - 1) * Hour < length
\* A slot once given up is not taken back: no handler, working from a row it
\* read earlier, makes a closed reservation live again, and no row disappears.
ClosedStaysClosed ==
  [][\A i \in DOMAIN rows :
       /\ i \in DOMAIN rows'
       /\ ~Live(rows[i]) => ~Live(rows'[i])]_vars

\* A reservation's end is brought forward only by an extension, to the end it asks for,
\* and only if the end it read had been overwritten since (validateExtensionTime judges
\* the end that was read).
ShortenedOnlyByStaleRead ==
  [][\A i \in DOMAIN rows :
       rows'[i].end < rows[i].end =>
         \E r \in Begun : /\ At(r, "update") /\ reqs[r].op = "extend"
                          /\ reqs[r].id = i /\ reqs[r].to = rows'[i].end
                          /\ reqs[r].from # rows[i].end]_vars

\* A reservation changes only at the hand of its owner, of the internal
\* completion and activation calls, or of the clean-up, which only takes
\* reservations whose time is over: the ownership test was made on an earlier
\* read, and still holds at the write.
ChangedByOwnerOnly ==
  [][\A i \in DOMAIN rows :
       rows'[i] # rows[i] =>
         \/ \E r \in Begun : /\ At(r, "update")
                             /\ reqs[r].id = i
                             /\ \/ reqs[r].op \in {"complete", "activate"}
                                \/ reqs[r].user = rows[i].user
         \/ rows[i].end < now /\ rows'[i].status = "EXPIRED"]_vars

\* getOrCreateVehicle under races and failures: every reservation's plate has a
\* vehicle, and the vehicle stays with the user who was first to insert it.
VehicleKept ==
  [][/\ \A i \in DOMAIN rows' : rows'[i].plate \in DOMAIN vehicles'
     /\ \A p \in DOMAIN vehicles : vehicles'[p] = vehicles[p]]_vars

\* With activateReservation in use a closed reservation can come back to life,
\* but only through an activation that had read it PENDING beforehand.
ReopenedOnlyByActivation ==
  [][\A i \in DOMAIN rows :
       ~Live(rows[i]) /\ Live(rows'[i]) =>
         \E r \in Begun : /\ At(r, "update") /\ reqs[r].op = "activate"
                          /\ reqs[r].id = i /\ rows'[i].status = "ACTIVE"]_vars

\* Every request a handler has begun comes to an end: no await blocks for ever.
EveryRequestEnds ==
  \A r \in Requests : r \in Begun ~> r \in Begun /\ reqs[r].at \in Ended

-------------------------------------------------------------------------------
\* What the code or its messages say, and does not hold.

\* reservations.service.test.ts:70 and create-reservation.usecase.ts:24, 'Parking
\* lot is fully booked for this time slot': a lot is never booked twice at once.
NoOverlap ==
  \A i, j \in LiveIds :
    i # j /\ rows[i].lot = rows[j].lot =>
      ~Meets(rows[i].start, rows[i].end, rows[j].start, rows[j].end)

\* cancel-reservation.usecase.ts:22, 'Cannot cancel completed reservation'.
CompletedNotCancelled ==
  [][\A i \in DOMAIN rows :
       rows[i].status = "COMPLETED" => rows'[i].status # "CANCELLED"]_vars

\* reservations.controller.ts:45: 'No active reservation found for this plate
\* number' is answered only if there is none.
LiveReservationIsFound ==
  \A i \in LiveIds : rows[i].end >= now => FoundByPlate(rows[i].plate) # {}

-------------------------------------------------------------------------------
\* The inductive invariant.

\* A live reservation other than the one claimed that the claim's slot meets is
\* one it raced with: for the part of the slot the handler knows to be free.
ClaimClear(q, start, end) ==
  \A j \in LiveIds \ {reqs[q].id} :
    /\ rows[j].lot = reqs[q].lot
    /\ Meets(rows[j].start, rows[j].end, start, end)
    => Excused(reqs[q].id, j)

CreateClaim(q) ==
  Claiming(q) /\ reqs[q].op = "create" => ClaimClear(q, reqs[q].from, reqs[q].to)

\* An extend knows its own reservation's slot up to the end it read to be clear
\* as long as that reservation is live; once its query has answered, the rest.
ExtendClaim(q) ==
  Claiming(q) /\ reqs[q].op = "extend" /\ reqs[q].id \in LiveIds =>
    /\ ClaimClear(q, rows[reqs[q].id].start, reqs[q].from)
    /\ reqs[q].at = "update" => ClaimClear(q, reqs[q].from, reqs[q].to)

ClaimsKnown == \A q \in Begun : CreateClaim(q) /\ ExtendClaim(q)

\* A create is named after its request and its row is there exactly once it has
\* inserted it; other handlers work on a row that is there, of their lot and
\* owner, and an extension asks for time after the start.
HandlerAgrees(r) ==
  LET h == reqs[r] IN
  /\ h.from < h.to
  /\ h.op = "create" =>
       /\ h.id = r
       /\ h.at # "update"
       /\ h.at \in Waiting \ {"publish"} => r \notin DOMAIN rows
       /\ h.at \in {"publish", "done"} => r \in DOMAIN rows
  /\ h.op # "create" =>
       /\ h.id \in DOMAIN rows
       /\ h.lot = rows[h.id].lot
       /\ h.user = rows[h.id].user
       /\ h.at \notin {"vehicle", "newVehicle", "insert"}
  /\ h.op = "extend" => rows[h.id].start < h.from
  /\ h.op \in {"cancel", "complete"} =>
       /\ h.at # "count"
       /\ h.at \in {"publish", "done"} => h.id \notin LiveIds
  /\ h.op = "activate" => h.at \notin {"count", "publish"} /\ "activate" \in Wired

RowAgrees(i) ==
  /\ i \in Begun
  /\ reqs[i].op = "create"
  /\ reqs[i].lot = rows[i].lot
  /\ rows[i].start < rows[i].end

HandlersAgree ==
  /\ \A r \in Begun : HandlerAgrees(r)
  /\ \A i \in DOMAIN rows : RowAgrees(i)

IInv == TypeOK /\ HandlersAgree /\ ClaimsKnown /\ NoUnracedOverlap

-------------------------------------------------------------------------------
\* What holds of a handler whatever is wired: it works on a row that is there, for
\* the row's owner, a create inserts no row before its plate has a vehicle, and no slot
\* is asked for or stored that does not end after its start.
HandlerOwns(r) ==
  LET h == reqs[r] IN
  /\ h.from < h.to
  /\ h.op = "create" =>
       /\ h.id = r
       /\ h.at # "update"
       /\ h.at \in Waiting \ {"publish"} => r \notin DOMAIN rows
       /\ h.at = "insert" => h.plate \in DOMAIN vehicles
  /\ h.op # "create" =>
       /\ h.id \in DOMAIN rows
       /\ h.user = rows[h.id].user
       /\ h.at \notin {"vehicle", "newVehicle", "insert"}
  /\ h.op = "extend" => rows[h.id].start < h.from

RowOwned(i) ==
  /\ i \in Begun
  /\ reqs[i].op = "create"
  /\ rows[i].plate \in DOMAIN vehicles
  /\ rows[i].start < rows[i].end

OwnersInv ==
  /\ TypeOK
  /\ \A r \in Begun : HandlerOwns(r)
  /\ \A i \in DOMAIN rows : RowOwned(i)

-------------------------------------------------------------------------------
\* The reservations as entries of the ledger.
Ledger == INSTANCE ReservationLedger WITH
  Ids <- Requests,
  entries <- [i \in DOMAIN rows |->
                [lot |-> rows[i].lot, start |-> rows[i].start, end |-> rows[i].end,
                 open |-> Live(rows[i])]],
  excused <- raced

\* MS1 keeps the ledger: every step of a handler opens, moves or closes an entry
\* as the ledger allows, or does not touch it.
ImplementsLedger == Ledger!Spec
===============================================================================
