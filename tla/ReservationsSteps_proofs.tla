----------------------- MODULE ReservationsSteps_proofs -----------------------
(***************************************************************************)
(* Proofs about what a step of Reservations may do to the tables and to the *)
(* topic, and that the service keeps the ledger.  Which handlers may change *)
(* a row is proved for any choice of wired service methods, from OwnersInv; *)
(* that a closed reservation stays closed only while nothing calls          *)
(* activateReservation, from IInv.                                          *)
(***************************************************************************)
EXTENDS Reservations_proofs

-------------------------------------------------------------------------------
\* What OwnersInv says of a handler that is at a place p, for use in the steps.
LEMMA HandlerAt ==
  ASSUME OwnersInv, NEW r, NEW p, At(r, p)
  PROVE  /\ r \in Begun /\ r \in Requests /\ reqs[r] \in Handler /\ reqs[r].at = p
         /\ HandlerOwns(r)
         /\ \A i \in DOMAIN rows : rows[i] \in Row
  BY DEF OwnersInv, TypeOK, At, Begun

\* What no write changes in a row that is there.
SameSlot(j) ==
  /\ rows'[j].user = rows[j].user
  /\ rows'[j].plate = rows[j].plate
  /\ rows'[j].lot = rows[j].lot
  /\ rows'[j].start = rows[j].start

\* The writes of the tables.  An insert adds the row of its request ...
LEMMA InsertEffect ==
  ASSUME OwnersInv, NEW r \in Requests, InsertRow(r)
  PROVE  /\ r \notin DOMAIN rows
         /\ DOMAIN rows' = DOMAIN rows \cup {r}
         /\ \A j \in DOMAIN rows : rows'[j] = rows[j]
         /\ rows'[r].status = "PENDING" /\ rows'[r].lot = reqs[r].lot
         /\ rows'[r].plate = reqs[r].plate
         /\ rows'[r].start = reqs[r].from /\ rows'[r].end = reqs[r].to
<1>1. /\ r \in Begun /\ reqs[r] \in Handler /\ reqs[r].at = "insert" /\ HandlerOwns(r)
  BY HandlerAt DEF InsertRow
<1>2. r \notin DOMAIN rows
  BY <1>1 DEF HandlerOwns, Waiting
<1> QED
  BY <1>2 DEF InsertRow, Store

\* ... an extension overwrites the end of a row of its user ...
LEMMA ExtendEffect ==
  ASSUME OwnersInv, NEW r \in Requests, ExtendUpdate(r)
  PROVE  /\ reqs[r].id \in DOMAIN rows /\ rows[reqs[r].id].user = reqs[r].user
         /\ reqs[r].from < reqs[r].to /\ rows[reqs[r].id].start < reqs[r].to
         /\ DOMAIN rows' = DOMAIN rows
         /\ \A j \in DOMAIN rows : j # reqs[r].id => rows'[j] = rows[j]
         /\ rows'[reqs[r].id].status = rows[reqs[r].id].status
         /\ rows'[reqs[r].id].end = reqs[r].to
         /\ \A j \in DOMAIN rows : SameSlot(j)
<1>1. /\ reqs[r] \in Handler /\ reqs[r].op = "extend" /\ HandlerOwns(r)
      /\ \A i \in DOMAIN rows : rows[i] \in Row
  BY HandlerAt DEF ExtendUpdate
<1>2. /\ reqs[r].id \in DOMAIN rows /\ rows[reqs[r].id].user = reqs[r].user
      /\ reqs[r].from < reqs[r].to /\ reqs[r].to \in Time
      /\ rows[reqs[r].id].start < reqs[r].to
  <2>1. /\ reqs[r].id \in DOMAIN rows /\ rows[reqs[r].id].user = reqs[r].user
        /\ reqs[r].from < reqs[r].to /\ rows[reqs[r].id].start < reqs[r].from
    BY <1>1 DEF HandlerOwns
  <2>2. /\ reqs[r].from \in Time /\ reqs[r].to \in Time
        /\ rows[reqs[r].id].start \in Time
    BY <1>1, <2>1 DEF Handler, Row
  <2> QED
    BY <2>1, <2>2, ReservationsAssumption DEF Time
<1>3. rows' = [rows EXCEPT ![reqs[r].id].end = reqs[r].to]
  BY DEF ExtendUpdate
<1>4. /\ DOMAIN rows' = DOMAIN rows
      /\ \A j \in DOMAIN rows : j # reqs[r].id => rows'[j] = rows[j]
      /\ rows'[reqs[r].id] =
           [status |-> rows[reqs[r].id].status, user |-> rows[reqs[r].id].user,
            lot |-> rows[reqs[r].id].lot, plate |-> rows[reqs[r].id].plate,
            start |-> rows[reqs[r].id].start, end |-> reqs[r].to]
  BY <1>1, <1>2, <1>3, EndLemma
<1> QED
  BY <1>2, <1>4 DEF SameSlot

\* ... and a cancellation, completion or activation the status of its row.
Closes(r) == CancelUpdate(r) \/ CompleteUpdate(r) \/ ActivateUpdate(r)

StatusOf(r) == CASE reqs[r].op = "cancel" -> "CANCELLED"
                 [] reqs[r].op = "complete" -> "COMPLETED"
                 [] OTHER -> "ACTIVE"

LEMMA CloseEffect ==
  ASSUME OwnersInv, NEW r \in Requests, Closes(r)
  PROVE  /\ reqs[r].at = "update" /\ reqs[r].op \in {"cancel", "complete", "activate"}
         /\ reqs[r].id \in DOMAIN rows /\ rows[reqs[r].id].user = reqs[r].user
         /\ DOMAIN rows' = DOMAIN rows
         /\ \A j \in DOMAIN rows : j # reqs[r].id => rows'[j] = rows[j]
         /\ rows'[reqs[r].id].status = StatusOf(r)
         /\ rows'[reqs[r].id].end = rows[reqs[r].id].end
         /\ \A j \in DOMAIN rows : SameSlot(j)
<1>1. At(r, "update") /\ reqs[r].op \in {"cancel", "complete", "activate"}
  BY DEF Closes, CancelUpdate, CompleteUpdate, ActivateUpdate
<1>2. HandlerOwns(r) /\ reqs[r].at = "update" /\ \A i \in DOMAIN rows : rows[i] \in Row
  BY <1>1, HandlerAt
<1>3. reqs[r].id \in DOMAIN rows /\ rows[reqs[r].id].user = reqs[r].user
  BY <1>1, <1>2 DEF HandlerOwns
<1>4. rows' = [rows EXCEPT ![reqs[r].id].status = StatusOf(r)]
  BY DEF Closes, CancelUpdate, CompleteUpdate, ActivateUpdate, SetStatus, StatusOf
<1>5. StatusOf(r) \in {"ACTIVE", "COMPLETED", "CANCELLED"}
  BY DEF StatusOf
<1>6. /\ DOMAIN rows' = DOMAIN rows
      /\ \A j \in DOMAIN rows : j # reqs[r].id => rows'[j] = rows[j]
      /\ rows'[reqs[r].id] =
           [status |-> StatusOf(r), user |-> rows[reqs[r].id].user,
            lot |-> rows[reqs[r].id].lot, plate |-> rows[reqs[r].id].plate,
            start |-> rows[reqs[r].id].start, end |-> rows[reqs[r].id].end]
  BY <1>2, <1>3, <1>4, <1>5, StatusLemma
<1> QED
  BY <1>1, <1>2, <1>3, <1>6 DEF SameSlot

\* The clean-up changes the status of live rows whose time is over, and no more.
LEMMA CleanupEffect ==
  ASSUME TypeOK, Cleanup
  PROVE  /\ DOMAIN rows' = DOMAIN rows
         /\ \A j \in DOMAIN rows :
              \/ rows'[j] = rows[j]
              \/ /\ Live(rows[j]) /\ rows[j].end < now
                 /\ rows'[j].status = "EXPIRED" /\ rows'[j].end = rows[j].end
         /\ \A j \in DOMAIN rows : SameSlot(j)
<1>1. ASSUME NEW j \in DOMAIN rows, Live(rows[j]), rows[j].end < now
      PROVE  rows'[j].status = "EXPIRED" /\ rows'[j].end = rows[j].end /\ SameSlot(j)
  BY <1>1 DEF Cleanup, TypeOK, Row, SameSlot
<1> QED
  BY <1>1 DEF Cleanup, SameSlot

\* No other step touches the table of reservations.
LEMMA RowSteps ==
  ASSUME [Next]_vars
  PROVE  \/ UNCHANGED <<rows, raced>>
         \/ Cleanup
         \/ \E r \in Requests : InsertRow(r) \/ ExtendUpdate(r) \/ Closes(r)
<1>1. ASSUME NEW r \in Requests, Arrive(r) PROVE UNCHANGED <<rows, raced>>
  BY <1>1 DEF Arrive, BeginCreate, BeginExtend, BeginCancel, BeginComplete, BeginActivate,
     BeginClose
<1>2. ASSUME NEW r \in Requests,
             \/ CreateCount(r) \/ FindVehicle(r) \/ InsertVehicle(r) \/ ExtendCount(r)
             \/ Publish(r) \/ PublishFails(r) \/ DatabaseFails(r)
      PROVE  UNCHANGED <<rows, raced>>
  BY <1>2 DEF CreateCount, FindVehicle, InsertVehicle, ExtendCount, Publish, PublishFails,
     DatabaseFails
<1>3. Tick \/ Stop \/ UNCHANGED vars => UNCHANGED <<rows, raced>>
  BY DEF Tick, Stop, vars
<1> QED
  BY <1>1, <1>2, <1>3 DEF Next, Answer, Closes

\* Vehicles are inserted by one step only, events sent by another.
LEMMA OtherSteps ==
  ASSUME [Next]_vars
  PROVE  /\ UNCHANGED vehicles \/ \E r \in Requests : InsertVehicle(r)
         /\ UNCHANGED topic \/ \E r \in Requests : Publish(r)
<1>1. ASSUME NEW r \in Requests, Arrive(r) PROVE UNCHANGED <<vehicles, topic>>
  BY <1>1 DEF Arrive, BeginCreate, BeginExtend, BeginCancel, BeginComplete, BeginActivate,
     BeginClose
<1>2. ASSUME NEW r \in Requests,
             CreateCount(r) \/ FindVehicle(r) \/ ExtendCount(r) \/ PublishFails(r)
             \/ DatabaseFails(r)
      PROVE  UNCHANGED <<vehicles, topic>>
  BY <1>2 DEF CreateCount, FindVehicle, ExtendCount, PublishFails, DatabaseFails
<1>3. ASSUME NEW r \in Requests, InsertRow(r) \/ ExtendUpdate(r)
      PROVE  UNCHANGED <<vehicles, topic>>
  BY <1>3 DEF InsertRow, ExtendUpdate
<1>4. ASSUME NEW r \in Requests, Closes(r) PROVE UNCHANGED <<vehicles, topic>>
  BY <1>4 DEF Closes, CancelUpdate, CompleteUpdate, ActivateUpdate, SetStatus
<1>5. ASSUME NEW r \in Requests, InsertVehicle(r) PROVE UNCHANGED topic
  BY <1>5 DEF InsertVehicle
<1>6. ASSUME NEW r \in Requests, Publish(r) PROVE UNCHANGED vehicles
  BY <1>6 DEF Publish
<1>7. Tick \/ Cleanup \/ Stop \/ UNCHANGED vars => UNCHANGED <<vehicles, topic>>
  BY DEF Tick, Cleanup, Stop, vars
<1> QED
  BY <1>1, <1>2, <1>3, <1>4, <1>5, <1>6, <1>7 DEF Next, Answer, Closes

-------------------------------------------------------------------------------
\* OwnersInv is inductive.  The tables only grow: a row keeps its user, its plate and a
\* slot that ends after its start, a vehicle its plate.
TablesGrow ==
  /\ DOMAIN rows \subseteq DOMAIN rows'
  /\ \A j \in DOMAIN rows : /\ rows'[j].user = rows[j].user
                            /\ rows'[j].plate = rows[j].plate
                            /\ rows'[j].start = rows[j].start
                            /\ rows'[j].start < rows'[j].end
  /\ \A p \in DOMAIN vehicles : p \in DOMAIN vehicles' /\ vehicles'[p] = vehicles[p]

LEMMA Grows == ASSUME OwnersInv, [Next]_vars PROVE TablesGrow
<1>1. DOMAIN rows \subseteq DOMAIN rows' /\ \A j \in DOMAIN rows : SameSlot(j)
  BY RowSteps, CleanupEffect, InsertEffect, ExtendEffect, CloseEffect DEF OwnersInv, SameSlot
<1>2. \A p \in DOMAIN vehicles : p \in DOMAIN vehicles' /\ vehicles'[p] = vehicles[p]
  <2>1. ASSUME NEW r \in Requests, InsertVehicle(r)
        PROVE  \A p \in DOMAIN vehicles : p \in DOMAIN vehicles' /\ vehicles'[p] = vehicles[p]
    BY <2>1 DEF InsertVehicle
  <2>2. CASE UNCHANGED vehicles
    BY <2>2
  <2> QED
    BY <2>1, <2>2, OtherSteps
<1>3. ASSUME NEW j \in DOMAIN rows PROVE rows'[j].start < rows'[j].end
  <2>1. rows[j].start < rows[j].end
    BY DEF OwnersInv, RowOwned
  <2>2. CASE UNCHANGED <<rows, raced>>
    BY <2>1, <2>2
  <2>3. CASE Cleanup
    BY <2>1, <2>3, CleanupEffect DEF OwnersInv, SameSlot
  <2>4. ASSUME NEW r \in Requests, InsertRow(r) PROVE rows'[j].start < rows'[j].end
    BY <2>1, <2>4, InsertEffect
  <2>5. ASSUME NEW r \in Requests, ExtendUpdate(r) PROVE rows'[j].start < rows'[j].end
    BY <2>1, <2>5, ExtendEffect DEF SameSlot
  <2>6. ASSUME NEW r \in Requests, Closes(r) PROVE rows'[j].start < rows'[j].end
    BY <2>1, <2>6, CloseEffect DEF SameSlot
  <2> QED
    BY <2>2, <2>3, <2>4, <2>5, <2>6, RowSteps
<1> QED
  BY <1>1, <1>2, <1>3 DEF TablesGrow, SameSlot

\* A handler that a step leaves where it was, or ends, keeps what it knows.
LEMMA OwnsStill ==
  ASSUME TablesGrow, NEW q \in Begun, HandlerOwns(q), reqs'[q] = reqs[q],
         q \in DOMAIN rows' => q \in DOMAIN rows
  PROVE  HandlerOwns(q)'
<1>1. reqs[q].op # "create" =>
        /\ reqs[q].id \in DOMAIN rows' /\ reqs[q].user = rows'[reqs[q].id].user
        /\ reqs[q].op = "extend" => rows'[reqs[q].id].start < reqs[q].from
  BY DEF TablesGrow, HandlerOwns
<1>2. reqs[q].at = "insert" /\ reqs[q].op = "create" => reqs[q].plate \in DOMAIN vehicles'
  BY DEF TablesGrow, HandlerOwns
<1> QED
  BY <1>1, <1>2 DEF HandlerOwns

LEMMA OwnsEnded ==
  ASSUME TablesGrow, NEW q \in Begun, reqs[q] \in Handler, HandlerOwns(q),
         NEW p \in Ended, reqs'[q] = [reqs[q] EXCEPT !.at = p]
  PROVE  HandlerOwns(q)'
<1>1. /\ reqs'[q].op = reqs[q].op /\ reqs'[q].id = reqs[q].id /\ reqs'[q].at = p
      /\ reqs'[q].user = reqs[q].user /\ reqs'[q].from = reqs[q].from
      /\ reqs'[q].to = reqs[q].to
  BY DEF Handler
<1>2. reqs[q].op # "create" =>
        /\ reqs[q].id \in DOMAIN rows' /\ reqs[q].user = rows'[reqs[q].id].user
        /\ reqs[q].op = "extend" => rows'[reqs[q].id].start < reqs[q].from
  BY DEF TablesGrow, HandlerOwns
<1> QED
  BY <1>1, <1>2 DEF HandlerOwns, Waiting, Ended

\* A step of handler r, which may add the row of r ...
LEMMA OwnersGoto ==
  ASSUME OwnersInv, TypeOK', TablesGrow, NEW r \in Begun, NEW p \in Waiting \cup Ended,
         Goto(r, p), DOMAIN rows' \subseteq DOMAIN rows \cup {r},
         HandlerOwns(r)', r \in DOMAIN rows' => RowOwned(r)'
  PROVE  OwnersInv'
<1>1. /\ Begun' = Begun
      /\ \A q \in Begun \ {r} : reqs'[q] = reqs[q]
      /\ SameLocals(r)
  BY GotoFrame DEF OwnersInv, Goto, Begun
<1>2. ASSUME NEW q \in Begun \ {r} PROVE HandlerOwns(q)'
  BY <1>1, OwnsStill DEF OwnersInv
<1>3. ASSUME NEW i \in DOMAIN rows', i # r PROVE RowOwned(i)'
  BY <1>1, <1>3 DEF OwnersInv, RowOwned, TablesGrow, SameLocals
<1> QED
  BY <1>1, <1>2, <1>3 DEF OwnersInv

\* ... and the beginning of handler r.
LEMMA OwnersBegin ==
  ASSUME OwnersInv, TypeOK', TablesGrow, NEW r \in Requests, NEW h \in Handler,
         Begin(r, h), UNCHANGED rows, HandlerOwns(r)'
  PROVE  OwnersInv'
<1>1. /\ Begun' = Begun \cup {r}
      /\ \A q \in Begun : reqs'[q] = reqs[q]
  BY BeginLemma DEF OwnersInv, TypeOK, Begun
<1>2. ASSUME NEW q \in Begun PROVE HandlerOwns(q)'
  BY <1>1, OwnsStill DEF OwnersInv
<1>3. ASSUME NEW i \in DOMAIN rows' PROVE RowOwned(i)'
  BY <1>1, <1>3 DEF OwnersInv, RowOwned, TablesGrow
<1> QED
  BY <1>1, <1>2, <1>3 DEF OwnersInv

LEMMA OwnersArrive ==
  ASSUME OwnersInv, TypeOK', TablesGrow, NEW r \in Requests, Arrive(r)
  PROVE  OwnersInv'
<1>1. \A i \in DOMAIN rows : /\ i \in Requests /\ rows[i] \in Row /\ i \in Begun
                             /\ rows[i].start < rows[i].end
  BY DEF OwnersInv, TypeOK, RowOwned
<1>2. ASSUME NEW user \in Users, NEW lot \in Lots, NEW plate \in Plates,
             NEW start \in Time, NEW end \in Time,
             BeginCreate(r, user, lot, plate, start, end)
      PROVE  OwnersInv'
  <2> DEFINE h == [op |-> "create", at |-> "count", id |-> r, user |-> user,
                   lot |-> lot, plate |-> plate, from |-> start, to |-> end]
  <2>1. h \in Handler
    BY DEF Handler, Waiting
  <2>2. Begin(r, h) /\ UNCHANGED rows
    BY <1>2 DEF BeginCreate
  <2>3. reqs'[r] = h /\ r \notin Begun
    BY <2>1, <2>2, BeginLemma DEF OwnersInv, TypeOK, Begun
  <2>4. start < end
    BY <1>2 DEF BeginCreate, CreateBodyOK
  <2>5. HandlerOwns(r)'
    BY <1>1, <2>2, <2>3, <2>4 DEF HandlerOwns
  <2> QED
    BY <2>1, <2>2, <2>5, OwnersBegin
<1>3. ASSUME NEW user \in Users, NEW i \in Requests, NEW newEnd \in Time,
             BeginExtend(r, user, i, newEnd)
      PROVE  OwnersInv'
  <2> DEFINE h == [op |-> "extend", at |-> "count", id |-> i, user |-> user,
                   lot |-> rows[i].lot, plate |-> rows[i].plate,
                   from |-> rows[i].end, to |-> newEnd]
  <2>1. i \in DOMAIN rows /\ rows[i].user = user /\ rows[i] \in Row
    BY <1>1, <1>3 DEF BeginExtend
  <2>2. h \in Handler
    BY <2>1 DEF Handler, Waiting, Row
  <2>3. Begin(r, h) /\ UNCHANGED rows /\ h.from < h.to
    BY <1>3, <2>1, ReservationsAssumption DEF BeginExtend, ExtensionTimeOK, Time, Row
  <2>4. reqs'[r] = h
    BY <2>2, <2>3, BeginLemma DEF OwnersInv, TypeOK
  <2>5. HandlerOwns(r)'
    BY <1>1, <2>1, <2>3, <2>4 DEF HandlerOwns
  <2> QED
    BY <2>2, <2>3, <2>5, OwnersBegin
<1>4. ASSUME NEW op \in {"cancel", "complete", "activate"}, NEW user \in Users,
             NEW i \in DOMAIN rows, rows[i].user = user, BeginClose(r, op, user, i)
      PROVE  OwnersInv'
  <2> DEFINE h == [op |-> op, at |-> "update", id |-> i, user |-> user,
                   lot |-> rows[i].lot, plate |-> rows[i].plate,
                   from |-> rows[i].start, to |-> rows[i].end]
  <2>1. h \in Handler
    BY <1>1 DEF Handler, Waiting, Row
  <2>2. Begin(r, h) /\ UNCHANGED rows
    BY <1>4 DEF BeginClose
  <2>3. reqs'[r] = h
    BY <2>1, <2>2, BeginLemma DEF OwnersInv, TypeOK
  <2>4. HandlerOwns(r)'
    BY <1>1, <1>4, <2>2, <2>3 DEF HandlerOwns
  <2> QED
    BY <2>1, <2>2, <2>4, OwnersBegin
<1>5. \A i \in DOMAIN rows : rows[i].user \in Users
  BY <1>1 DEF Row
<1>6. ASSUME NEW user \in Users, NEW i \in Requests, BeginCancel(r, user, i)
      PROVE  OwnersInv'
  BY <1>4, <1>6 DEF BeginCancel
<1>7. ASSUME NEW i \in Requests, BeginComplete(r, i) \/ BeginActivate(r, i)
      PROVE  OwnersInv'
  BY <1>4, <1>5, <1>7 DEF BeginComplete, BeginActivate
<1> QED
  BY <1>2, <1>3, <1>6, <1>7 DEF Arrive

\* An answer of the database or of Kafka moves the handler to where it may go next.
LEMMA OwnersAnswer ==
  ASSUME OwnersInv, TypeOK', TablesGrow, NEW r \in Requests, Answer(r) \/ DatabaseFails(r)
  PROVE  OwnersInv'
<1>1. r \in Begun /\ HandlerOwns(r) /\ (r \in DOMAIN rows => RowOwned(r))
  BY DEF Answer, DatabaseFails, CreateCount, FindVehicle, InsertVehicle, InsertRow,
     ExtendCount, ExtendUpdate, CancelUpdate, CompleteUpdate, ActivateUpdate, Publish,
     PublishFails, At, InFlight, OwnersInv
\* It is enough to show what the handler knows where it has gone.
<1>2. ASSUME NEW p \in Waiting \cup Ended, Goto(r, p),
             DOMAIN rows' \subseteq DOMAIN rows \cup {r},
             /\ SameLocals(r) /\ reqs'[r].at = p /\ reqs'[r].plate = reqs[r].plate
             /\ r \in DOMAIN rows => RowOwned(r)'
             /\ reqs[r].op # "create" =>
                  /\ reqs[r].id \in DOMAIN rows' /\ reqs[r].user = rows'[reqs[r].id].user
                  /\ reqs[r].op = "extend" => rows'[reqs[r].id].start < reqs[r].from
             => HandlerOwns(r)' /\ (r \in DOMAIN rows' => RowOwned(r)')
      PROVE  OwnersInv'
  <2>1. SameLocals(r) /\ reqs'[r].at = p
    BY <1>1, <1>2, GotoFrame DEF OwnersInv
  <2>2. reqs'[r].plate = reqs[r].plate
    <3>1. reqs[r] \in Handler
      BY <1>1 DEF OwnersInv, TypeOK, Begun
    <3> QED
      BY <1>1, <1>2, <3>1 DEF Goto, Begun, Handler
  <2>3. r \in DOMAIN rows => RowOwned(r)'
    BY <1>1, <2>1 DEF RowOwned, TablesGrow, SameLocals
  <2>4. reqs[r].op # "create" =>
          /\ reqs[r].id \in DOMAIN rows' /\ reqs[r].user = rows'[reqs[r].id].user
          /\ reqs[r].op = "extend" => rows'[reqs[r].id].start < reqs[r].from
    BY <1>1 DEF HandlerOwns, TablesGrow
  <2> QED
    BY <1>1, <1>2, <2>1, <2>2, <2>3, <2>4, OwnersGoto
<1>3. CASE CreateCount(r)
  <2>1. PICK p \in {"refused", "vehicle"} : Goto(r, p)
    BY <1>3 DEF CreateCount
  <2>2. reqs[r].op = "create" /\ r \notin DOMAIN rows /\ UNCHANGED rows
    BY <1>1, <1>3 DEF CreateCount, At, HandlerOwns, Waiting
  <2> QED
    BY <1>1, <1>2, <2>1, <2>2 DEF HandlerOwns, SameLocals, Waiting, Ended
<1>4. CASE FindVehicle(r)
  <2>1. /\ reqs[r].op = "create" /\ r \notin DOMAIN rows /\ UNCHANGED <<rows, vehicles>>
    BY <1>1, <1>4 DEF FindVehicle, At, HandlerOwns, Waiting
  <2>2. PICK p \in {"insert", "newVehicle"} :
          Goto(r, p) /\ (p = "insert" => reqs[r].plate \in DOMAIN vehicles)
    BY <1>4 DEF FindVehicle
  <2> QED
    BY <1>1, <1>2, <2>1, <2>2 DEF HandlerOwns, SameLocals, Waiting
<1>5. CASE InsertVehicle(r)
  <2>1. /\ reqs[r].op = "create" /\ r \notin DOMAIN rows /\ UNCHANGED rows
    BY <1>1, <1>5 DEF InsertVehicle, At, HandlerOwns, Waiting
  <2>2. PICK p \in {"failed", "insert"} :
          Goto(r, p) /\ (p = "insert" => reqs[r].plate \in DOMAIN vehicles')
    BY <1>5 DEF InsertVehicle
  <2> QED
    BY <1>1, <1>2, <2>1, <2>2 DEF HandlerOwns, SameLocals, Waiting, Ended
<1>6. CASE InsertRow(r)
  <2>1. /\ DOMAIN rows' = DOMAIN rows \cup {r} /\ rows'[r].plate = reqs[r].plate
        /\ rows'[r].start = reqs[r].from /\ rows'[r].end = reqs[r].to
    BY <1>6, InsertEffect
  <2>2. /\ reqs[r].op = "create" /\ reqs[r].plate \in DOMAIN vehicles'
        /\ reqs[r].from < reqs[r].to
        /\ Goto(r, "publish")
    BY <1>1, <1>6 DEF InsertRow, At, HandlerOwns
  <2> QED
    BY <1>1, <1>2, <2>1, <2>2 DEF HandlerOwns, RowOwned, SameLocals, Waiting
<1>7. CASE ExtendCount(r)
  <2>1. PICK p \in {"refused", "update"} : Goto(r, p)
    BY <1>7 DEF ExtendCount
  <2>2. reqs[r].op = "extend" /\ UNCHANGED rows
    BY <1>7 DEF ExtendCount
  <2> QED
    BY <1>1, <1>2, <2>1, <2>2 DEF HandlerOwns, SameLocals, Waiting, Ended
<1>8. CASE ExtendUpdate(r)
  <2>1. DOMAIN rows' = DOMAIN rows
    BY <1>8, ExtendEffect
  <2>2. reqs[r].op = "extend" /\ Goto(r, "publish")
    BY <1>8 DEF ExtendUpdate
  <2> QED
    BY <1>1, <1>2, <2>1, <2>2 DEF HandlerOwns, SameLocals, Waiting
<1>9. CASE Closes(r)
  <2>1. DOMAIN rows' = DOMAIN rows /\ reqs[r].op \in {"cancel", "complete", "activate"}
    BY <1>9, CloseEffect
  <2>2. PICK p \in {"publish", "done"} : Goto(r, p)
    BY <1>9 DEF Closes, CancelUpdate, CompleteUpdate, ActivateUpdate, SetStatus
  <2> QED
    BY <1>1, <1>2, <2>1, <2>2 DEF HandlerOwns, SameLocals, Waiting, Ended
<1>10. CASE Publish(r) \/ PublishFails(r) \/ DatabaseFails(r)
  <2>1. PICK p \in {"done", "failed"} : Goto(r, p)
    BY <1>10 DEF Publish, PublishFails, DatabaseFails
  <2>2. UNCHANGED rows
    BY <1>10 DEF Publish, PublishFails, DatabaseFails
  <2> QED
    BY <1>1, <1>2, <2>1, <2>2 DEF HandlerOwns, SameLocals, Waiting, Ended
<1> QED
  BY <1>3, <1>4, <1>5, <1>6, <1>7, <1>8, <1>9, <1>10 DEF Answer, Closes

\* The steps that are no single handler's leave handlers where they were or end them.
LEMMA OwnersOthers ==
  ASSUME OwnersInv, TypeOK', TablesGrow, Tick \/ Cleanup \/ Stop \/ UNCHANGED vars
  PROVE  OwnersInv'
<1>1. Begun' = Begun /\ DOMAIN rows' = DOMAIN rows
  BY CleanupEffect DEF Tick, Cleanup, Stop, vars, Begun, OwnersInv
<1>2. ASSUME NEW q \in Begun PROVE HandlerOwns(q)' /\ reqs'[q].op = reqs[q].op
  <2>1. HandlerOwns(q) /\ reqs[q] \in Handler
    BY DEF OwnersInv, TypeOK, Begun
  <2>2. reqs'[q] = reqs[q] \/ reqs'[q] = [reqs[q] EXCEPT !.at = "lost"]
    BY DEF Tick, Cleanup, Stop, vars, Begun
  <2>3. CASE reqs'[q] = reqs[q]
    BY <1>1, <2>1, <2>3, OwnsStill
  <2>4. CASE reqs'[q] = [reqs[q] EXCEPT !.at = "lost"]
    <3>1. reqs'[q].op = reqs[q].op
      BY <2>1, <2>4 DEF Handler
    <3> QED
      BY <2>1, <2>4, <3>1, OwnsEnded DEF Ended
  <2> QED
    BY <2>2, <2>3, <2>4
<1>3. ASSUME NEW i \in DOMAIN rows' PROVE RowOwned(i)'
  BY <1>1, <1>2, <1>3 DEF OwnersInv, RowOwned, TablesGrow
<1> QED
  BY <1>1, <1>2, <1>3 DEF OwnersInv

LEMMA OwnersInit == Init => OwnersInv
<1> SUFFICES ASSUME Init PROVE OwnersInv
  OBVIOUS
<1>1. DOMAIN rows = {} /\ DOMAIN reqs = {}
  BY DEF Init
<1> QED
  BY <1>1, InitType DEF OwnersInv, Begun

LEMMA OwnersNext == OwnersInv /\ [Next]_vars => OwnersInv'
<1> SUFFICES ASSUME OwnersInv, [Next]_vars PROVE OwnersInv'
  OBVIOUS
<1>1. TypeOK' /\ TablesGrow
  BY NextType, Grows DEF OwnersInv
<1> QED
  BY <1>1, OwnersArrive, OwnersAnswer, OwnersOthers DEF Next

\* Whatever service methods are wired, a handler that changes a row works on a row that
\* exists, for the user who owns it, and no reservation is inserted before its plate has a
\* vehicle.
THEOREM OwnersHold == Spec => []OwnersInv
  BY OwnersInit, OwnersNext, PTL DEF Spec

-------------------------------------------------------------------------------
\* What a step may do to a row, whatever is wired.

\* The handler that changes row i in a step, and what it may be: the insert apart, a row
\* changes in the update of a handler that works on it, or in the clean-up.
LEMMA RowChange ==
  ASSUME OwnersInv, [Next]_vars, NEW i \in DOMAIN rows
  PROVE  /\ i \in DOMAIN rows'
         /\ \/ rows'[i] = rows[i]
            \/ /\ Live(rows[i]) /\ rows[i].end < now
               /\ rows'[i].status = "EXPIRED" /\ rows'[i].end = rows[i].end
            \/ \E r \in Begun :
                 /\ At(r, "update") /\ reqs[r].id = i /\ reqs[r].user = rows[i].user
                 /\ \/ /\ reqs[r].op = "extend" /\ reqs[r].from < reqs[r].to
                       /\ rows'[i].status = rows[i].status /\ rows'[i].end = reqs[r].to
                    \/ /\ reqs[r].op \in {"cancel", "complete", "activate"}
                       /\ rows'[i].status = StatusOf(r) /\ rows'[i].end = rows[i].end
<1>1. CASE UNCHANGED <<rows, raced>>
  BY <1>1
<1>2. CASE Cleanup
  BY <1>2, CleanupEffect DEF OwnersInv
<1>3. ASSUME NEW r \in Requests, InsertRow(r)
      PROVE  i \in DOMAIN rows' /\ rows'[i] = rows[i]
  BY <1>3, InsertEffect
<1>4. ASSUME NEW r \in Requests, ExtendUpdate(r), rows'[i] # rows[i]
      PROVE  /\ i \in DOMAIN rows' /\ r \in Begun
             /\ At(r, "update") /\ reqs[r].id = i /\ reqs[r].user = rows[i].user
             /\ reqs[r].op = "extend" /\ reqs[r].from < reqs[r].to
             /\ rows'[i].status = rows[i].status /\ rows'[i].end = reqs[r].to
  BY <1>4, ExtendEffect DEF ExtendUpdate, At
<1>5. ASSUME NEW r \in Requests, ExtendUpdate(r) PROVE i \in DOMAIN rows'
  BY <1>5, ExtendEffect
<1>6. ASSUME NEW r \in Requests, Closes(r), rows'[i] # rows[i]
      PROVE  /\ i \in DOMAIN rows' /\ r \in Begun
             /\ At(r, "update") /\ reqs[r].id = i /\ reqs[r].user = rows[i].user
             /\ reqs[r].op \in {"cancel", "complete", "activate"}
             /\ rows'[i].status = StatusOf(r) /\ rows'[i].end = rows[i].end
  <2>1. At(r, "update")
    BY <1>6 DEF Closes, CancelUpdate, CompleteUpdate, ActivateUpdate
  <2> QED
    BY <1>6, <2>1, CloseEffect DEF At
<1>7. ASSUME NEW r \in Requests, Closes(r) PROVE i \in DOMAIN rows'
  BY <1>7, CloseEffect
<1> QED
  BY <1>1, <1>2, <1>3, <1>4, <1>5, <1>6, <1>7, RowSteps

\* Whatever is wired, a reservation changes only at the hand of a handler of its owner, of
\* the internal completion and activation calls, or of the clean-up once its time is over:
\* the ownership test made on an earlier read still holds at the write.
THEOREM ChangedByOwnerOnlyHolds == Spec => ChangedByOwnerOnly
<1>1. OwnersInv /\ [Next]_vars =>
        [\A i \in DOMAIN rows :
           rows'[i] # rows[i] =>
             \/ \E r \in Begun : /\ At(r, "update")
                                 /\ reqs[r].id = i
                                 /\ \/ reqs[r].op \in {"complete", "activate"}
                                    \/ reqs[r].user = rows[i].user
             \/ rows[i].end < now /\ rows'[i].status = "EXPIRED"]_vars
  BY RowChange
<1> QED
  BY <1>1, OwnersHold, PTL DEF Spec, ChangedByOwnerOnly

\* Whatever is wired, a reservation's end is brought forward only by an extension whose
\* read of the end had been overtaken by another one.
THEOREM ShortenedOnlyByStaleReadHolds == Spec => ShortenedOnlyByStaleRead
<1>1. OwnersInv /\ [Next]_vars =>
        [\A i \in DOMAIN rows :
           rows'[i].end < rows[i].end =>
             \E r \in Begun : /\ At(r, "update") /\ reqs[r].op = "extend"
                              /\ reqs[r].id = i /\ reqs[r].to = rows'[i].end
                              /\ reqs[r].from # rows[i].end]_vars
  <2> SUFFICES ASSUME OwnersInv, [Next]_vars, NEW i \in DOMAIN rows,
                      rows'[i].end < rows[i].end
               PROVE  \E r \in Begun : /\ At(r, "update") /\ reqs[r].op = "extend"
                                       /\ reqs[r].id = i /\ reqs[r].to = rows'[i].end
                                       /\ reqs[r].from # rows[i].end
    OBVIOUS
  <2>1. rows[i].end \in Int
    BY ReservationsAssumption DEF OwnersInv, TypeOK, Row, Time
  <2>2. PICK r \in Begun : /\ At(r, "update") /\ reqs[r].id = i
                           /\ reqs[r].op = "extend" /\ reqs[r].from < reqs[r].to
                           /\ rows'[i].end = reqs[r].to
    BY <2>1, RowChange
  <2>3. reqs[r].from \in Int /\ reqs[r].to \in Int
    BY ReservationsAssumption DEF OwnersInv, TypeOK, Handler, Time, Begun
  <2> QED
    BY <2>1, <2>2, <2>3
<1> QED
  BY <1>1, OwnersHold, PTL DEF Spec, ShortenedOnlyByStaleRead

\* Whatever is wired, a closed reservation comes back to life only by an activation that
\* has read it before.
THEOREM ReopenedOnlyByActivationHolds == Spec => ReopenedOnlyByActivation
<1>1. OwnersInv /\ [Next]_vars =>
        [\A i \in DOMAIN rows :
           ~Live(rows[i]) /\ Live(rows'[i]) =>
             \E r \in Begun : /\ At(r, "update") /\ reqs[r].op = "activate"
                              /\ reqs[r].id = i /\ rows'[i].status = "ACTIVE"]_vars
  <2> SUFFICES ASSUME OwnersInv, [Next]_vars, NEW i \in DOMAIN rows,
                      ~Live(rows[i]), Live(rows'[i])
               PROVE  \E r \in Begun : /\ At(r, "update") /\ reqs[r].op = "activate"
                                       /\ reqs[r].id = i /\ rows'[i].status = "ACTIVE"
    OBVIOUS
  <2>1. rows'[i].status # rows[i].status /\ rows'[i].status \in {"PENDING", "ACTIVE"}
    BY DEF Live
  <2>2. PICK r \in Begun : /\ At(r, "update") /\ reqs[r].id = i
                           /\ reqs[r].op \in {"cancel", "complete", "activate"}
                           /\ rows'[i].status = StatusOf(r)
    BY <2>1, RowChange
  <2> QED
    BY <2>1, <2>2 DEF StatusOf
<1> QED
  BY <1>1, OwnersHold, PTL DEF Spec, ReopenedOnlyByActivation

\* Whatever races and failures there are, every reservation's plate has a vehicle, and a
\* vehicle stays with the user who was first to insert it.
THEOREM VehicleKeptHolds == Spec => VehicleKept
<1>1. OwnersInv /\ OwnersInv' /\ [Next]_vars =>
        [/\ \A i \in DOMAIN rows' : rows'[i].plate \in DOMAIN vehicles'
         /\ \A p \in DOMAIN vehicles : vehicles'[p] = vehicles[p]]_vars
  BY Grows DEF OwnersInv, RowOwned, TablesGrow
<1> QED
  BY <1>1, OwnersHold, PTL DEF Spec, VehicleKept

-------------------------------------------------------------------------------
\* The service as it is: nothing calls activateReservation, and no update makes a
\* reservation live again.

LEMMA NeverReopens ==
  ASSUME "activate" \notin Wired, IInv, OwnersInv, [Next]_vars, NEW i \in DOMAIN rows
  PROVE  /\ i \in DOMAIN rows' /\ SameSlot(i)
         /\ Live(rows'[i]) => Live(rows[i])
<1>1. \A r \in Begun : reqs[r].op # "activate"
  BY DEF IInv, HandlersAgree, HandlerAgrees
<1>2. i \in DOMAIN rows' /\ SameSlot(i)
  BY RowSteps, CleanupEffect, InsertEffect, ExtendEffect, CloseEffect DEF OwnersInv, SameSlot
<1>3. ASSUME Live(rows'[i]) PROVE Live(rows[i])
  <2>1. rows'[i].status \in {"PENDING", "ACTIVE"}
    BY <1>3 DEF Live
  <2>2. ASSUME NEW r \in Begun, reqs[r].op \in {"cancel", "complete", "activate"}
        PROVE  rows'[i].status # StatusOf(r)
    BY <1>1, <2>1, <2>2 DEF StatusOf
  <2>3. rows'[i].status = rows[i].status
    BY <2>1, <2>2, RowChange
  <2> QED
    BY <2>1, <2>3 DEF Live
<1> QED
  BY <1>2, <1>3

\* As long as nothing calls activateReservation, a slot once given up is not taken back and
\* no row disappears, however old the rows that handlers work from.
THEOREM ClosedStaysClosedHolds ==
  ASSUME "activate" \notin Wired PROVE Spec => ClosedStaysClosed
<1>1. IInv /\ OwnersInv /\ [Next]_vars =>
        [\A i \in DOMAIN rows :
           /\ i \in DOMAIN rows'
           /\ ~Live(rows[i]) => ~Live(rows'[i])]_vars
  BY NeverReopens
<1>2. Spec => []IInv
  BY InvariantHolds
<1> QED
  BY <1>1, <1>2, OwnersHold, PTL DEF Spec, ClosedStaysClosed

\* What an event says when it is sent: its handler has written before.
LEMMA EventTrue ==
  ASSUME IInv, NEW r \in Requests, Publish(r)
  PROVE  /\ EventOf(r).id \in DOMAIN rows
         /\ EventOf(r).lot = rows[EventOf(r).id].lot
         /\ EventOf(r).type \in {"cancelled", "completed"} => EventOf(r).id \notin LiveIds
<1>1. r \in Begun /\ reqs[r].at = "publish" /\ HandlerAgrees(r) /\ reqs[r] \in Handler
  BY DEF Publish, At, IInv, HandlersAgree, TypeOK, Begun
<1>2. /\ EventOf(r).id = reqs[r].id /\ EventOf(r).lot = reqs[r].lot
      /\ EventOf(r).type = CASE reqs[r].op = "create" -> "created"
                             [] reqs[r].op = "extend" -> "extended"
                             [] reqs[r].op = "cancel" -> "cancelled"
                             [] OTHER -> "completed"
  BY DEF EventOf
<1>3. CASE reqs[r].op = "create"
  <2>1. reqs[r].id \in DOMAIN rows /\ RowAgrees(reqs[r].id) /\ reqs[r].id = r
    BY <1>1, <1>3 DEF HandlerAgrees, IInv, HandlersAgree
  <2> QED
    BY <1>2, <1>3, <2>1 DEF RowAgrees
<1>4. CASE reqs[r].op = "extend"
  BY <1>1, <1>2, <1>4 DEF HandlerAgrees
<1>5. CASE reqs[r].op \in {"cancel", "complete"}
  BY <1>1, <1>2, <1>5 DEF HandlerAgrees
<1>6. reqs[r].op # "activate"
  BY <1>1 DEF HandlerAgrees
<1> QED
  BY <1>1, <1>3, <1>4, <1>5, <1>6 DEF Handler

LEMMA EventsStep ==
  ASSUME "activate" \notin Wired, IInv, OwnersInv, EventsAreTrue, [Next]_vars
  PROVE  EventsAreTrue'
<1>1. topic' = topic \/ \E r \in Requests : Publish(r) /\ topic' = topic \cup {EventOf(r)}
  BY OtherSteps DEF Publish
<1>2. ASSUME NEW event \in topic'
      PROVE  /\ event.id \in DOMAIN rows
             /\ event.lot = rows[event.id].lot
             /\ event.type \in {"cancelled", "completed"} => event.id \notin LiveIds
  BY <1>1, EventTrue DEF EventsAreTrue
<1>3. ASSUME NEW event \in topic'
      PROVE  /\ event.id \in DOMAIN rows'
             /\ event.lot = rows'[event.id].lot
             /\ event.type \in {"cancelled", "completed"} => event.id \notin LiveIds'
  <2>1. /\ event.id \in DOMAIN rows /\ event.id \in DOMAIN rows' /\ SameSlot(event.id)
        /\ Live(rows'[event.id]) => Live(rows[event.id])
    BY <1>2, NeverReopens
  <2> QED
    BY <1>2, <2>1 DEF SameSlot, LiveIds
<1> QED
  BY <1>3 DEF EventsAreTrue

\* As long as nothing calls activateReservation, what the topic says of a reservation is so,
\* in whatever order the events of concurrent handlers were sent: it exists, in the lot that
\* the event names, and once said to be cancelled or completed it never holds a slot again.
THEOREM EventsAreTrueHolds ==
  ASSUME "activate" \notin Wired PROVE Spec => []EventsAreTrue
<1>1. Init => EventsAreTrue
  BY DEF Init, EventsAreTrue
<1>2. IInv /\ OwnersInv /\ EventsAreTrue /\ [Next]_vars => EventsAreTrue'
  BY EventsStep
<1>3. Spec => []IInv
  BY InvariantHolds
<1> QED
  BY <1>1, <1>2, <1>3, OwnersHold, PTL DEF Spec

-------------------------------------------------------------------------------
\* The service as it is keeps the ledger: an insert opens an entry, an extension moves its
\* end, a cancellation, completion or clean-up closes entries, and nothing else shows.
Entries == [i \in DOMAIN rows |->
              [lot |-> rows[i].lot, start |-> rows[i].start, end |-> rows[i].end,
               open |-> Live(rows[i])]]

\* The entry of row i fits among the others after a step that changes no other row.
LEMMA EntryFits ==
  ASSUME NoUnracedOverlap', NEW i \in DOMAIN rows', DOMAIN rows \subseteq DOMAIN rows',
         \A j \in DOMAIN rows : j # i => rows'[j] = rows[j],
         NEW e, e.lot = rows'[i].lot, e.start = rows'[i].start, e.end = rows'[i].end,
         e.open => Live(rows'[i])
  PROVE  Ledger!Fits(i, e)
<1> SUFFICES ASSUME NEW j \in DOMAIN rows \ {i}, Live(rows'[i]), Live(rows[j]),
                    rows'[i].lot = rows[j].lot,
                    Meets(rows'[i].start, rows'[i].end, rows[j].start, rows[j].end)
             PROVE  <<i, j>> \in raced' \/ <<j, i>> \in raced'
  BY DEF Ledger!Fits, Ledger!Clash, Ledger!Excused, Ledger!Meets, Meets
<1>1. i \in LiveIds' /\ j \in LiveIds' /\ i # j /\ rows'[j] = rows[j]
  BY DEF LiveIds
<1> QED
  BY <1>1 DEF NoUnracedOverlap, Excused

LEMMA InsertOpens ==
  ASSUME OwnersInv, IInv, IInv', NEW r \in Requests, InsertRow(r)
  PROVE  Ledger!Open(r)
<1> DEFINE e == [lot |-> reqs[r].lot, start |-> reqs[r].from, end |-> reqs[r].to,
                 open |-> TRUE]
<1>1. /\ reqs[r] \in Handler /\ reqs[r].from < reqs[r].to
  BY DEF InsertRow, At, IInv, TypeOK, HandlersAgree, HandlerAgrees, Begun
<1>2. /\ reqs[r].lot \in Lots /\ reqs[r].from \in 0..MaxTime /\ reqs[r].to \in 0..MaxTime
  BY <1>1 DEF Handler, Time
<1>3. /\ r \notin DOMAIN rows
      /\ DOMAIN rows' = DOMAIN rows \cup {r}
      /\ \A j \in DOMAIN rows : rows'[j] = rows[j]
      /\ rows'[r].status = "PENDING" /\ rows'[r].lot = reqs[r].lot
      /\ rows'[r].start = reqs[r].from /\ rows'[r].end = reqs[r].to
  BY InsertEffect
<1>4. Live(rows'[r])
  BY <1>3 DEF Live
<1>5. Ledger!Fits(r, e)
  <2>1. e.lot = rows'[r].lot /\ e.start = rows'[r].start /\ e.end = rows'[r].end
    BY <1>3
  <2> HIDE DEF e
  <2> QED
    BY <1>3, <1>4, <2>1, EntryFits DEF IInv
<1>6. Entries' = [j \in DOMAIN Entries \cup {r} |-> IF j = r THEN e ELSE Entries[j]]
  BY <1>3, <1>4 DEF Entries
<1>7. Ledger!Set(r, e)
  BY <1>6 DEF Ledger!Set, Entries
<1>8. Ledger!Excuse
  BY DEF Ledger!Excuse, InsertRow, Record, IInv, TypeOK
<1>9. e \in Ledger!Entry /\ e.open /\ e.start < e.end
  BY <1>1, <1>2 DEF Ledger!Entry
<1> HIDE DEF e
<1>10. \E d \in Ledger!Entry : d.open /\ d.start < d.end /\ Ledger!Put(r, d)
  <2>1. Ledger!Put(r, e)
    BY <1>5, <1>7, <1>8 DEF Ledger!Put
  <2> QED
    BY <1>9, <2>1
<1> QED
  BY <1>3, <1>10 DEF Ledger!Open

LEMMA ExtendMoves ==
  ASSUME OwnersInv, IInv, IInv', NEW r \in Requests, ExtendUpdate(r),
         NEW i \in Requests, i = reqs[r].id
  PROVE  Ledger!MoveEnd(i)
<1> DEFINE e == [Entries[i] EXCEPT !.end = reqs[r].to]
<1>1. /\ reqs[r] \in Handler /\ reqs[r].op = "extend"
      /\ rows[i].start < reqs[r].from /\ reqs[r].from < reqs[r].to
  BY DEF ExtendUpdate, At, IInv, TypeOK, HandlersAgree, HandlerAgrees, Begun
<1>2. /\ i \in DOMAIN rows
      /\ DOMAIN rows' = DOMAIN rows
      /\ \A j \in DOMAIN rows : j # i => rows'[j] = rows[j]
      /\ rows'[i].status = rows[i].status /\ rows'[i].end = reqs[r].to
      /\ rows'[i].lot = rows[i].lot /\ rows'[i].start = rows[i].start
  BY ExtendEffect DEF SameSlot
<1>3. reqs[r].to \in 0..MaxTime /\ rows[i].start < reqs[r].to
  <2>1. reqs[r].from \in Int /\ reqs[r].to \in 0..MaxTime /\ rows[i].start \in Int
    BY <1>1, <1>2, ReservationsAssumption DEF Handler, Time, IInv, TypeOK, Row
  <2> QED
    BY <1>1, <2>1, ReservationsAssumption
<1>4. Live(rows'[i]) = Live(rows[i])
  BY <1>2 DEF Live
<1>5. /\ e = [lot |-> rows[i].lot, start |-> rows[i].start, end |-> reqs[r].to,
             open |-> Live(rows[i])]
      /\ i \in DOMAIN Entries /\ Entries[i].start = rows[i].start
  BY <1>2 DEF Entries
<1>6. Ledger!Fits(i, e)
  <2>1. /\ e.lot = rows'[i].lot /\ e.start = rows'[i].start /\ e.end = rows'[i].end
        /\ e.open => Live(rows'[i])
    BY <1>2, <1>4, <1>5
  <2> HIDE DEF e
  <2> QED
    BY <1>2, <2>1, EntryFits DEF IInv
<1>7. Entries' = [j \in DOMAIN Entries \cup {i} |-> IF j = i THEN e ELSE Entries[j]]
  <2> HIDE DEF e
  <2> QED
    BY <1>2, <1>4, <1>5 DEF Entries
<1>8. Ledger!Set(i, e)
  BY <1>7 DEF Ledger!Set, Entries
<1>9. Ledger!Excuse
  BY DEF Ledger!Excuse, ExtendUpdate, Record, IInv, TypeOK
<1>10. Entries[i].start < reqs[r].to
  BY <1>3, <1>5
<1>11. Ledger!Put(i, e)
  BY <1>6, <1>8, <1>9 DEF Ledger!Put
<1> QED
  BY <1>3, <1>5, <1>10, <1>11 DEF Ledger!MoveEnd, Entries

LEMMA CloseEntry ==
  ASSUME NEW lot, NEW start, NEW end, NEW open
  PROVE  [[lot |-> lot, start |-> start, end |-> end, open |-> open] EXCEPT !.open = FALSE]
           = [lot |-> lot, start |-> start, end |-> end, open |-> FALSE]
<1>1. ASSUME NEW o
      PROVE  [[lot |-> lot, start |-> start, end |-> end, open |-> open] EXCEPT !.open = o]
               = [lot |-> lot, start |-> start, end |-> end, open |-> o]
  OBVIOUS
<1> QED
  BY <1>1, Zenon

\* A step that gives up the slots of some rows, and leaves all else of them.
LEMMA GivenUpCloses ==
  ASSUME UNCHANGED raced, DOMAIN rows' = DOMAIN rows,
         \A j \in DOMAIN rows : /\ SameSlot(j) /\ rows'[j].end = rows[j].end
                                /\ Live(rows'[j]) => Live(rows[j])
  PROVE  Ledger!Close
<1> DEFINE S == {j \in DOMAIN rows : ~Live(rows'[j])}
<1>1. Entries' = [j \in DOMAIN Entries |->
                    IF j \in S THEN [Entries[j] EXCEPT !.open = FALSE] ELSE Entries[j]]
  <2>1. ASSUME NEW j \in DOMAIN rows
        PROVE  Entries'[j] = IF j \in S THEN [Entries[j] EXCEPT !.open = FALSE]
                             ELSE Entries[j]
    <3>1. /\ Entries'[j] = [lot |-> rows[j].lot, start |-> rows[j].start,
                            end |-> rows[j].end, open |-> Live(rows'[j])]
          /\ Entries[j] = [lot |-> rows[j].lot, start |-> rows[j].start,
                           end |-> rows[j].end, open |-> Live(rows[j])]
      BY DEF Entries, SameSlot
    <3>2. CASE Live(rows'[j])
      <4>1. Live(rows'[j]) = TRUE /\ Live(rows[j]) = TRUE
        BY <3>2 DEF Live
      <4> QED
        BY <3>1, <3>2, <4>1
    <3>3. CASE ~Live(rows'[j])
      <4>1. Live(rows'[j]) = FALSE
        BY <3>3 DEF Live
      <4>2. [Entries[j] EXCEPT !.open = FALSE]
              = [lot |-> rows[j].lot, start |-> rows[j].start, end |-> rows[j].end,
                 open |-> FALSE]
        <5> DEFINE o == Live(rows[j])
        <5>1. Entries[j] = [lot |-> rows[j].lot, start |-> rows[j].start,
                            end |-> rows[j].end, open |-> o]
          BY <3>1
        <5> HIDE DEF o, Entries
        <5> QED
          BY <5>1, CloseEntry
      <4> QED
        BY <3>1, <3>3, <4>1, <4>2, Zenon
    <3> QED
      BY <3>2, <3>3
  <2>2. DOMAIN Entries' = DOMAIN rows /\ DOMAIN Entries = DOMAIN rows
    BY DEF Entries
  <2> HIDE DEF S
  <2> QED
    BY <2>1, <2>2 DEF Entries
<1>2. S \in SUBSET DOMAIN rows
  OBVIOUS
<1> HIDE DEF S
<1> QED
  BY <1>1, <1>2 DEF Ledger!Close, Entries

LEMMA StepKeepsLedger ==
  ASSUME "activate" \notin Wired
  PROVE  IInv /\ IInv' /\ OwnersInv /\ [Next]_vars => [Ledger!Next]_Ledger!ledger
<1> SUFFICES ASSUME IInv, IInv', OwnersInv, [Next]_vars
             PROVE  [Ledger!Next]_Ledger!ledger
  OBVIOUS
<1>1. CASE UNCHANGED <<rows, raced>>
  BY <1>1 DEF Ledger!ledger, Live
<1>2. CASE Cleanup
  <2>1. UNCHANGED raced /\ DOMAIN rows' = DOMAIN rows
    BY <1>2, CleanupEffect DEF Cleanup, OwnersInv
  <2>2. \A j \in DOMAIN rows : SameSlot(j) /\ rows'[j].end = rows[j].end
    BY <1>2, CleanupEffect DEF OwnersInv
  <2>3. Ledger!Close
    BY <2>1, <2>2, NeverReopens, GivenUpCloses
  <2> QED
    BY <2>3 DEF Ledger!Next
<1>3. ASSUME NEW r \in Requests, InsertRow(r) PROVE Ledger!Next
  <2>1. Ledger!Open(r)
    BY <1>3, InsertOpens
  <2> QED
    BY <2>1 DEF Ledger!Next
<1>4. ASSUME NEW r \in Requests, ExtendUpdate(r) PROVE Ledger!Next
  <2>1. reqs[r].id \in Requests
    BY <1>4, ExtendEffect DEF OwnersInv, TypeOK
  <2>2. PICK i \in Requests : i = reqs[r].id
    BY <2>1
  <2>3. Ledger!MoveEnd(i)
    BY <1>4, <2>2, ExtendMoves
  <2> QED
    BY <2>3 DEF Ledger!Next
<1>5. ASSUME NEW r \in Requests, Closes(r) PROVE Ledger!Next
  <2>1. UNCHANGED raced
    BY <1>5 DEF Closes, CancelUpdate, CompleteUpdate, ActivateUpdate, SetStatus
  <2>2. /\ DOMAIN rows' = DOMAIN rows
        /\ \A j \in DOMAIN rows : SameSlot(j) /\ rows'[j].end = rows[j].end
    <3>1. /\ DOMAIN rows' = DOMAIN rows
          /\ \A j \in DOMAIN rows : j # reqs[r].id => rows'[j] = rows[j]
          /\ rows'[reqs[r].id].end = rows[reqs[r].id].end
          /\ \A j \in DOMAIN rows : SameSlot(j)
      BY <1>5, CloseEffect
    <3> QED
      BY <3>1
  <2>3. Ledger!Close
    BY <2>1, <2>2, NeverReopens, GivenUpCloses
  <2> QED
    BY <2>3 DEF Ledger!Next
<1> QED
  BY <1>1, <1>2, <1>3, <1>4, <1>5, RowSteps

\* As long as nothing calls activateReservation, MS1 keeps the ledger: whatever its handlers
\* read before an await, every step opens an entry in a free slot, moves an end into one or
\* closes entries for good, but for clashes with claims it raced with.
THEOREM ImplementsLedgerHolds ==
  ASSUME "activate" \notin Wired PROVE Spec => ImplementsLedger
<1>1. Init => Ledger!Init
  BY DEF Init, Ledger!Init
<1>2. IInv /\ IInv' /\ OwnersInv /\ [Next]_vars => [Ledger!Next]_Ledger!ledger
  BY StepKeepsLedger
<1>3. Spec => []IInv
  BY InvariantHolds
<1> QED
  BY <1>1, <1>2, <1>3, OwnersHold, PTL DEF Spec, ImplementsLedger, Ledger!Spec

-------------------------------------------------------------------------------
\* The overlap query and the price.

\* Intervals meet when they have an instant in common.
LEMMA MeetsIsShared ==
  ASSUME NEW s1 \in Int, NEW e1 \in Int, NEW s2 \in Int, NEW e2 \in Int,
         s1 <= e1, s2 <= e2
  PROVE  Meets(s1, e1, s2, e2) <=> (s1..e1) \cap (s2..e2) # {}
<1>1. ASSUME Meets(s1, e1, s2, e2) PROVE (s1..e1) \cap (s2..e2) # {}
  <2>1. CASE s1 <= s2
    <3>1. s2 \in (s1..e1) \cap (s2..e2)
      BY <1>1, <2>1 DEF Meets
    <3> QED
      BY <3>1
  <2>2. CASE s2 <= s1
    <3>1. s1 \in (s1..e1) \cap (s2..e2)
      BY <1>1, <2>2 DEF Meets
    <3> QED
      BY <3>1
  <2> QED
    BY <2>1, <2>2
<1>2. ASSUME NEW t \in (s1..e1) \cap (s2..e2) PROVE Meets(s1, e1, s2, e2)
  BY DEF Meets
<1> QED
  BY <1>1, <1>2

\* To meet a slot and more time after it is to meet the one or the other.
LEMMA MeetsSplit ==
  ASSUME NEW s1 \in Int, NEW e1 \in Int, s1 <= e1,
         NEW start \in Int, NEW end \in Int, NEW newEnd \in Int, start <= end, end <= newEnd
  PROVE  Meets(s1, e1, start, newEnd) <=> Meets(s1, e1, start, end) \/ Meets(s1, e1, end, newEnd)
  BY DEF Meets

\* The query of the code is the reference test, asked of every live row of the lot.
LEMMA OverlapFound ==
  ASSUME OwnersInv, NEW lot, NEW start \in Int, NEW end \in Int, start <= end, NEW except
  PROVE  HasOverlap(lot, start, end, except) <=>
           \E j \in LiveIds \ except : /\ rows[j].lot = lot
                                       /\ Meets(rows[j].start, rows[j].end, start, end)
<1>1. ASSUME NEW j \in LiveIds
      PROVE  OverlapClause(rows[j].start, rows[j].end, start, end)
               <=> Meets(rows[j].start, rows[j].end, start, end)
  <2>1. rows[j].start \in Int /\ rows[j].end \in Int /\ rows[j].start <= rows[j].end
    BY ReservationsAssumption DEF OwnersInv, RowOwned, TypeOK, Row, Time, LiveIds
  <2> QED
    BY <2>1, OverlapMeets
<1> QED
  BY <1>1 DEF HasOverlap

\* In every state, for every slot: the query finds a reservation if and only if some
\* instant belongs to a live one of the lot and to the slot, and an extension that asks for
\* the time it adds learns what asking for the whole new slot would tell.
THEOREM QueryIsExactHolds == Spec => []QueryIsExact
<1>1. ASSUME OwnersInv PROVE QueryIsExact
  <2>1. \A i \in DOMAIN rows : /\ rows[i].start \in Int /\ rows[i].end \in Int
                              /\ rows[i].start <= rows[i].end
    BY <1>1, ReservationsAssumption DEF OwnersInv, RowOwned, TypeOK, Row, Time
  <2>2. Time \subseteq Int /\ LiveIds \subseteq DOMAIN rows
    BY ReservationsAssumption DEF Time, LiveIds
  <2>3. ASSUME NEW lot \in Lots, NEW start \in Time, NEW end \in Time, start <= end
        PROVE  HasOverlap(lot, start, end, {})
                 <=> \E i \in LiveIds :
                       /\ rows[i].lot = lot
                       /\ (rows[i].start..rows[i].end) \cap (start..end) # {}
    <3>1. HasOverlap(lot, start, end, {}) <=>
            \E j \in LiveIds : /\ rows[j].lot = lot
                               /\ Meets(rows[j].start, rows[j].end, start, end)
      BY <1>1, <2>2, <2>3, OverlapFound
    <3>2. \A j \in LiveIds : Meets(rows[j].start, rows[j].end, start, end)
            <=> (rows[j].start..rows[j].end) \cap (start..end) # {}
      BY <2>1, <2>2, <2>3, MeetsIsShared
    <3> QED
      BY <3>1, <3>2
  <2>4. ASSUME NEW i \in DOMAIN rows, NEW newEnd \in Time, ExtensionTimeOK(rows[i].end, newEnd)
        PROVE  HasOverlap(rows[i].lot, rows[i].start, newEnd, {i})
                 <=> \/ HasOverlap(rows[i].lot, rows[i].start, rows[i].end, {i})
                     \/ HasOverlap(rows[i].lot, rows[i].end, newEnd, {i})
    <3> DEFINE start == rows[i].start
               end == rows[i].end
               Met(j, from, to) == /\ rows[j].lot = rows[i].lot
                                   /\ Meets(rows[j].start, rows[j].end, from, to)
    <3>1. /\ start \in Int /\ end \in Int /\ newEnd \in Int
          /\ start <= end /\ end <= newEnd /\ start <= newEnd
      <4>1. start \in Int /\ end \in Int /\ newEnd \in Int /\ start <= end
        BY <2>1, <2>2
      <4>2. newEnd > end
        BY <2>4 DEF ExtensionTimeOK
      <4> QED
        BY <4>1, <4>2
    <3>2. \A j \in LiveIds : Met(j, start, newEnd) <=> Met(j, start, end) \/ Met(j, end, newEnd)
      BY <2>1, <2>2, <3>1, MeetsSplit
    <3>3. ASSUME NEW from \in Int, NEW to \in Int, from <= to
          PROVE  HasOverlap(rows[i].lot, from, to, {i})
                   <=> \E j \in LiveIds \ {i} : Met(j, from, to)
      <4> DEFINE lot == rows[i].lot
                 except == {i}
      <4> HIDE DEF lot, except
      <4>1. HasOverlap(lot, from, to, except) <=>
              \E j \in LiveIds \ except : /\ rows[j].lot = lot
                                          /\ Meets(rows[j].start, rows[j].end, from, to)
        BY <1>1, <3>3, OverlapFound
      <4> QED
        BY <4>1 DEF lot, except
    <3>4. /\ HasOverlap(rows[i].lot, start, newEnd, {i})
               <=> \E j \in LiveIds \ {i} : Met(j, start, newEnd)
          /\ HasOverlap(rows[i].lot, start, end, {i})
               <=> \E j \in LiveIds \ {i} : Met(j, start, end)
          /\ HasOverlap(rows[i].lot, end, newEnd, {i})
               <=> \E j \in LiveIds \ {i} : Met(j, end, newEnd)
      <4> HIDE DEF Met, start, end
      <4> QED
        BY <3>1, <3>3
    <3> HIDE DEF Met
    <3> QED
      BY <3>2, <3>4
  <2> QED
    BY <2>3, <2>4 DEF QueryIsExact
<1> QED
  BY <1>1, OwnersHold, PTL

\* Rounding up: the fewest hours that cover a length.
LEMMA CeilingCovers ==
  ASSUME NEW length \in Nat \ {0}, NEW hour \in Nat \ {0}
  PROVE  LET paid == (length + hour - 1) \div hour IN
           paid \in 1..length /\ paid * hour >= length /\ (paid - 1) * hour < length
<1> DEFINE n == length + hour - 1
           paid == n \div hour
           rest == n % hour
<1>1. n \in Nat /\ n >= hour
  OBVIOUS
<1>2. paid \in Int /\ rest \in 0..(hour - 1) /\ n = hour * paid + rest
  BY <1>1
<1>3. length = hour * paid + rest - hour + 1
  BY <1>1, <1>2
<1> HIDE DEF n, paid, rest
<1>4. (paid - 1) * hour = hour * paid - hour /\ paid * hour = hour * paid
  BY <1>2
<1>5. paid * hour >= length /\ (paid - 1) * hour < length
  BY <1>2, <1>3, <1>4
<1>6. paid >= 1
  <2>1. paid <= 0 => hour * paid <= 0
    BY <1>2
  <2> QED
    BY <1>2, <1>3, <2>1
<1>7. paid <= length
  <2>1. (paid - 1) * hour >= paid - 1
    BY <1>2, <1>6
  <2> QED
    BY <1>2, <1>5, <2>1
<1> QED
  BY <1>2, <1>5, <1>6, <1>7 DEF paid, n

\* What a create charges is two for each of the fewest hours that cover its slot, whatever
\* an hour is counted in.
THEOREM CostCoversSlotHolds == Spec => []CostCoversSlot
<1>1. ASSUME OwnersInv PROVE CostCoversSlot
  <2> SUFFICES ASSUME NEW r \in Begun, reqs[r].op = "create", reqs[r].at = "insert"
               PROVE  LET length == reqs[r].to - reqs[r].from
                          cost   == TotalCost(reqs[r].from, reqs[r].to, Hour)
                      IN  \E paid \in 1..length : /\ cost = 2 * paid
                                                  /\ paid * Hour >= length
                                                  /\ (paid - 1) * Hour < length
    BY DEF CostCoversSlot
  <2> DEFINE length == reqs[r].to - reqs[r].from
             paid == (length + Hour - 1) \div Hour
  <2>1. reqs[r].from \in Int /\ reqs[r].to \in Int /\ reqs[r].from < reqs[r].to
    BY <1>1, ReservationsAssumption DEF OwnersInv, HandlerOwns, TypeOK, Handler, Time, Begun
  <2>2. length \in Nat \ {0} /\ Hour \in Nat \ {0}
    BY <2>1, ReservationsAssumption
  <2>3. TotalCost(reqs[r].from, reqs[r].to, Hour) = paid * 2
    BY DEF TotalCost
  <2> HIDE DEF length
  <2>4. paid \in 1..length /\ paid * Hour >= length /\ (paid - 1) * Hour < length
    BY <2>2, CeilingCovers
  <2> HIDE DEF paid
  <2>5. paid * 2 = 2 * paid
    BY <2>4
  <2> QED
    BY <2>3, <2>4, <2>5 DEF length
<1> QED
  BY <1>1, OwnersHold, PTL
==============================================================================
