-------------------------- MODULE Reservations_proofs --------------------------
(***************************************************************************)
(* Proofs about Reservations, for any sets of requests, users, lots and     *)
(* plates, any bound on time and any choice of wired service methods.       *)
(***************************************************************************)
EXTENDS Reservations, TLAPS

-------------------------------------------------------------------------------
\* Steps of a handler leave the other handlers' local variables alone.
LEMMA GotoLemma ==
  ASSUME NEW r \in Begun, NEW p \in Waiting \cup Ended, Goto(r, p),
         DOMAIN reqs \subseteq Requests, \A q \in DOMAIN reqs : reqs[q] \in Handler
  PROVE  /\ DOMAIN reqs' = DOMAIN reqs
         /\ \A q \in DOMAIN reqs' : reqs'[q] \in Handler
         /\ \A q \in DOMAIN reqs : q # r => reqs'[q] = reqs[q]
         /\ reqs'[r] = [op |-> reqs[r].op, at |-> p, id |-> reqs[r].id,
                        user |-> reqs[r].user, lot |-> reqs[r].lot,
                        plate |-> reqs[r].plate, from |-> reqs[r].from,
                        to |-> reqs[r].to]
  BY DEF Goto, Begun, Handler

\* An update of one column of one row.
LEMMA EndLemma ==
  ASSUME NEW i \in DOMAIN rows, NEW end \in Time,
         rows' = [rows EXCEPT ![i].end = end],
         \A j \in DOMAIN rows : rows[j] \in Row
  PROVE  /\ DOMAIN rows' = DOMAIN rows
         /\ \A j \in DOMAIN rows : j # i => rows'[j] = rows[j]
         /\ rows'[i] = [status |-> rows[i].status, user |-> rows[i].user,
                        lot |-> rows[i].lot, plate |-> rows[i].plate,
                        start |-> rows[i].start, end |-> end]
         /\ \A j \in DOMAIN rows' : rows'[j] \in Row
  BY DEF Row

LEMMA StatusLemma ==
  ASSUME NEW i \in DOMAIN rows,
         NEW status \in {"ACTIVE", "COMPLETED", "CANCELLED"},
         rows' = [rows EXCEPT ![i].status = status],
         \A j \in DOMAIN rows : rows[j] \in Row
  PROVE  /\ DOMAIN rows' = DOMAIN rows
         /\ \A j \in DOMAIN rows : j # i => rows'[j] = rows[j]
         /\ rows'[i] = [status |-> status, user |-> rows[i].user,
                        lot |-> rows[i].lot, plate |-> rows[i].plate,
                        start |-> rows[i].start, end |-> rows[i].end]
         /\ \A j \in DOMAIN rows' : rows'[j] \in Row
  BY DEF Row

LEMMA BeginLemma ==
  ASSUME NEW r \in Requests, NEW h \in Handler, Begin(r, h),
         DOMAIN reqs \subseteq Requests, \A q \in DOMAIN reqs : reqs[q] \in Handler
  PROVE  /\ r \notin DOMAIN reqs
         /\ DOMAIN reqs' = DOMAIN reqs \cup {r}
         /\ \A q \in DOMAIN reqs' : reqs'[q] \in Handler
         /\ \A q \in DOMAIN reqs : reqs'[q] = reqs[q]
         /\ reqs'[r] = h
  BY DEF Begin, Begun

\* A race is a pair of reservation ids.
LEMMA RecordType ==
  ASSUME NEW i \in Requests, NEW lot, NEW start, NEW end, Record(i, lot, start, end),
         raced \subseteq Requests \X Requests, \A q \in DOMAIN reqs : reqs[q] \in Handler
  PROVE  raced' \subseteq Requests \X Requests
<1>1. Rivals(i, lot, start, end) \subseteq Requests
  BY DEF Rivals, Handler, Begun
<1> QED
  BY <1>1 DEF Record

LEMMA InitType == Init => TypeOK
  BY ReservationsAssumption DEF Init, TypeOK, Time

\* Every step of the service keeps the tables, the handlers and the topic typed.
LEMMA NextType == TypeOK /\ [Next]_vars => TypeOK'
<1> SUFFICES ASSUME TypeOK, [Next]_vars PROVE TypeOK'
  OBVIOUS
<1> USE DEF Time
<1>1. CASE Tick
  BY <1>1, ReservationsAssumption DEF Tick, TypeOK
<1>2. CASE Cleanup
  BY <1>2 DEF Cleanup, TypeOK, Row, Live
<1>3. CASE Stop
  BY <1>3 DEF Stop, TypeOK, Handler, Ended, InFlight, Begun
<1>4. ASSUME NEW r \in Requests, Arrive(r) PROVE TypeOK'
  <2>1. ASSUME NEW user \in Users, NEW lot \in Lots, NEW plate \in Plates,
               NEW start \in Time, NEW end \in Time,
               BeginCreate(r, user, lot, plate, start, end)
        PROVE  TypeOK'
    <3> DEFINE h == [op |-> "create", at |-> "count", id |-> r, user |-> user,
                     lot |-> lot, plate |-> plate, from |-> start, to |-> end]
    <3>1. h \in Handler
      BY DEF Handler, Waiting
    <3> QED
      BY <2>1, <3>1, BeginLemma DEF BeginCreate, TypeOK
  <2>2. ASSUME NEW user \in Users, NEW i \in Requests, NEW newEnd \in Time,
               BeginExtend(r, user, i, newEnd)
        PROVE  TypeOK'
    <3> DEFINE h == [op |-> "extend", at |-> "count", id |-> i, user |-> user,
                     lot |-> rows[i].lot, plate |-> rows[i].plate,
                     from |-> rows[i].end, to |-> newEnd]
    <3>1. h \in Handler
      BY <2>2 DEF Handler, Waiting, BeginExtend, TypeOK, Row
    <3> QED
      BY <2>2, <3>1, BeginLemma DEF BeginExtend, TypeOK
  <2>3. ASSUME NEW op \in {"cancel", "complete", "activate"}, NEW user \in Users,
               NEW i \in DOMAIN rows, BeginClose(r, op, user, i)
        PROVE  TypeOK'
    <3> DEFINE h == [op |-> op, at |-> "update", id |-> i, user |-> user,
                     lot |-> rows[i].lot, plate |-> rows[i].plate,
                     from |-> rows[i].start, to |-> rows[i].end]
    <3>1. h \in Handler
      BY <2>3 DEF Handler, Waiting, TypeOK, Row
    <3> QED
      BY <2>3, <3>1, BeginLemma DEF BeginClose, TypeOK
  <2>4. ASSUME NEW user \in Users, NEW i \in Requests, BeginCancel(r, user, i)
        PROVE  TypeOK'
    BY <2>3, <2>4 DEF BeginCancel
  <2>5. ASSUME NEW i \in DOMAIN rows PROVE rows[i].user \in Users
    BY DEF TypeOK, Row
  <2>6. ASSUME NEW i \in Requests, BeginComplete(r, i) \/ BeginActivate(r, i)
        PROVE  TypeOK'
    BY <2>3, <2>5, <2>6 DEF BeginComplete, BeginActivate
  <2> QED
    BY <1>4, <2>1, <2>2, <2>4, <2>6 DEF Arrive
<1>5. ASSUME NEW r \in Requests, Answer(r) \/ DatabaseFails(r) PROVE TypeOK'
  <2>1. CASE CreateCount(r)
    BY <2>1, GotoLemma DEF CreateCount, At, TypeOK, Waiting, Ended
  <2>2. CASE FindVehicle(r)
    BY <2>2, GotoLemma DEF FindVehicle, At, TypeOK, Waiting, Ended
  <2>3. CASE InsertVehicle(r)
    <3>1. r \in Begun /\ reqs[r] \in Handler
      BY <2>3 DEF InsertVehicle, At, TypeOK, Begun
    <3>2. reqs[r].plate \in Plates /\ reqs[r].user \in Users
      BY <3>1 DEF Handler
    <3>3. PICK p \in Waiting \cup Ended : Goto(r, p)
      BY <2>3 DEF InsertVehicle, Waiting, Ended
    <3>4. /\ DOMAIN vehicles' \subseteq Plates
          /\ \A plate \in DOMAIN vehicles' : vehicles'[plate] \in Users
      BY <2>3, <3>2 DEF InsertVehicle, TypeOK
    <3>5. UNCHANGED <<now, rows, topic, raced>>
      BY <2>3 DEF InsertVehicle
    <3> QED
      BY <3>1, <3>3, <3>4, <3>5, GotoLemma DEF TypeOK
  <2>4. CASE InsertRow(r)
    <3> DEFINE row == [status |-> "PENDING", user |-> reqs[r].user, lot |-> reqs[r].lot,
                       plate |-> reqs[r].plate, start |-> reqs[r].from, end |-> reqs[r].to]
    <3>1. r \in Begun /\ reqs[r] \in Handler
      BY <2>4 DEF InsertRow, At, TypeOK, Begun
    <3>2. row \in Row
      BY <3>1 DEF Handler, Row
    <3>3. raced' \subseteq Requests \X Requests
      BY <2>4, RecordType DEF InsertRow, TypeOK
    <3> HIDE DEF row
    <3>4. DOMAIN rows' \subseteq Requests /\ \A i \in DOMAIN rows' : rows'[i] \in Row
      BY <2>4, <3>2 DEF InsertRow, Store, TypeOK, row
    <3> QED
      BY <2>4, <3>1, <3>3, <3>4, GotoLemma DEF InsertRow, TypeOK, Waiting, Ended
  <2>5. CASE ExtendCount(r)
    BY <2>5, GotoLemma DEF ExtendCount, At, TypeOK, Waiting, Ended
  <2>6. CASE ExtendUpdate(r)
    <3>1. r \in Begun /\ reqs[r] \in Handler
      BY <2>6 DEF ExtendUpdate, At, TypeOK, Begun
    <3>2. raced' \subseteq Requests \X Requests
      BY <2>6, <3>1, RecordType DEF ExtendUpdate, TypeOK, Handler
    <3>3. DOMAIN rows' \subseteq Requests /\ \A i \in DOMAIN rows' : rows'[i] \in Row
      <4>1. CASE reqs[r].id \in DOMAIN rows
        <5>1. reqs[r].to \in Time
          BY <3>1 DEF Handler
        <5> QED
          BY <2>6, <4>1, <5>1, EndLemma DEF ExtendUpdate, TypeOK
      <4>2. CASE reqs[r].id \notin DOMAIN rows
        <5>1. DOMAIN rows' = DOMAIN rows /\ \A j \in DOMAIN rows : rows'[j] = rows[j]
          BY <2>6, <4>2 DEF ExtendUpdate
        <5> QED
          BY <5>1 DEF TypeOK
      <4> QED
        BY <4>1, <4>2
    <3> QED
      BY <2>6, <3>1, <3>2, <3>3, GotoLemma DEF ExtendUpdate, TypeOK, Waiting, Ended
  <2>7. CASE CancelUpdate(r) \/ CompleteUpdate(r) \/ ActivateUpdate(r)
    <3>1. PICK status \in {"ACTIVE", "CANCELLED", "COMPLETED"}, next \in {"publish", "done"} :
            r \in Begun /\ SetStatus(r, status, next)
      BY <2>7 DEF CancelUpdate, CompleteUpdate, ActivateUpdate, At
    <3>2. DOMAIN rows' \subseteq Requests /\ \A i \in DOMAIN rows' : rows'[i] \in Row
      <4>1. CASE reqs[r].id \in DOMAIN rows
        BY <3>1, <4>1, StatusLemma DEF SetStatus, TypeOK
      <4>2. CASE reqs[r].id \notin DOMAIN rows
        <5>1. DOMAIN rows' = DOMAIN rows /\ \A j \in DOMAIN rows : rows'[j] = rows[j]
          BY <3>1, <4>2 DEF SetStatus
        <5> QED
          BY <5>1 DEF TypeOK
      <4> QED
        BY <4>1, <4>2
    <3> QED
      BY <3>1, <3>2, GotoLemma DEF SetStatus, TypeOK, Waiting, Ended
  <2>8. CASE Publish(r)
    <3>1. r \in Begun /\ reqs[r] \in Handler
      BY <2>8 DEF Publish, At, TypeOK, Begun
    <3>2. EventOf(r) \in Event
      BY <3>1 DEF EventOf, Event, Handler
    <3>3. topic' \subseteq Event
      BY <2>8, <3>2 DEF Publish, TypeOK
    <3>4. Goto(r, "done") /\ UNCHANGED <<now, rows, vehicles, raced>>
      BY <2>8 DEF Publish
    <3>5. DOMAIN reqs' \subseteq Requests /\ \A q \in DOMAIN reqs' : reqs'[q] \in Handler
      BY <3>1, <3>4, GotoLemma DEF TypeOK, Waiting, Ended
    <3> QED
      BY <3>3, <3>4, <3>5 DEF TypeOK
  <2>9. CASE PublishFails(r)
    BY <2>9, GotoLemma DEF PublishFails, At, TypeOK, Waiting, Ended
  <2>10. CASE DatabaseFails(r)
    BY <2>10, GotoLemma DEF DatabaseFails, InFlight, TypeOK, Waiting, Ended
  <2> QED
    BY <1>5, <2>1, <2>2, <2>3, <2>4, <2>5, <2>6, <2>7, <2>8, <2>9, <2>10 DEF Answer
<1>6. CASE UNCHANGED vars
  BY <1>6 DEF vars, TypeOK
<1> QED
  BY <1>1, <1>2, <1>3, <1>4, <1>5, <1>6 DEF Next

\* The tables, the handlers' variables and the topic always have their types.
THEOREM TypeCorrect == Spec => []TypeOK
  BY InitType, NextType, PTL DEF Spec

-------------------------------------------------------------------------------
\* The inductive invariant, in the service as it is: nothing calls
\* activateReservation.  All steps but the two that write a slot are quiet: they
\* make no reservation live, move none, and forget no race.

Quiet ==
  /\ DOMAIN rows' = DOMAIN rows
  /\ \A j \in DOMAIN rows :
       /\ rows'[j].user = rows[j].user
       /\ rows'[j].lot = rows[j].lot
       /\ rows'[j].start = rows[j].start
       /\ rows'[j].end = rows[j].end
       /\ Live(rows'[j]) => Live(rows[j])
  /\ raced' = raced

\* The handler q goes on with the local variables it had.
SameLocals(q) ==
  /\ q \in Begun'
  /\ reqs'[q].op = reqs[q].op
  /\ reqs'[q].id = reqs[q].id
  /\ reqs'[q].user = reqs[q].user
  /\ reqs'[q].lot = reqs[q].lot
  /\ reqs'[q].from = reqs[q].from
  /\ reqs'[q].to = reqs[q].to

Continues == \A q \in Begun : SameLocals(q)

Still(q) == SameLocals(q) /\ reqs'[q].at = reqs[q].at

\* What a step of handler r that ends at p, and changes no row, leaves as it was.
LEMMA GotoFrame ==
  ASSUME TypeOK, NEW r \in Begun, NEW p \in Waiting \cup Ended, Goto(r, p)
  PROVE  /\ Begun' = Begun
         /\ SameLocals(r) /\ reqs'[r].at = p
         /\ \A q \in Begun \ {r} : Still(q)
         /\ Continues
<1>1. /\ DOMAIN reqs' = DOMAIN reqs
      /\ \A q \in DOMAIN reqs : q # r => reqs'[q] = reqs[q]
      /\ reqs'[r] = [op |-> reqs[r].op, at |-> p, id |-> reqs[r].id,
                     user |-> reqs[r].user, lot |-> reqs[r].lot,
                     plate |-> reqs[r].plate, from |-> reqs[r].from,
                     to |-> reqs[r].to]
  BY GotoLemma DEF TypeOK
<1> QED
  BY <1>1 DEF Begun, SameLocals, Continues, Still

LEMMA SameRowsQuiet == ASSUME UNCHANGED <<rows, raced>> PROVE Quiet
  BY DEF Quiet

\* A change of status that ends a reservation is quiet.
LEMMA StatusFrame ==
  ASSUME TypeOK, HandlersAgree, NEW r \in Begun, reqs[r].op # "create",
         NEW status \in {"COMPLETED", "CANCELLED"}, NEW p \in Waiting \cup Ended,
         SetStatus(r, status, p)
  PROVE  Quiet /\ reqs[r].id \notin LiveIds'
<1>1. reqs[r].id \in DOMAIN rows
  BY DEF HandlersAgree, HandlerAgrees
<1>2. /\ DOMAIN rows' = DOMAIN rows
      /\ \A j \in DOMAIN rows : j # reqs[r].id => rows'[j] = rows[j]
      /\ rows'[reqs[r].id] =
           [status |-> status, user |-> rows[reqs[r].id].user,
            lot |-> rows[reqs[r].id].lot, plate |-> rows[reqs[r].id].plate,
            start |-> rows[reqs[r].id].start, end |-> rows[reqs[r].id].end]
  BY <1>1, StatusLemma DEF SetStatus, TypeOK
<1> QED
  BY <1>1, <1>2 DEF Quiet, SetStatus, Live, LiveIds

LEMMA CleanupFrame == ASSUME TypeOK, Cleanup PROVE Quiet /\ UNCHANGED reqs
<1>1. ASSUME NEW j \in DOMAIN rows
      PROVE  /\ rows'[j].user = rows[j].user
             /\ rows'[j].lot = rows[j].lot
             /\ rows'[j].start = rows[j].start
             /\ rows'[j].end = rows[j].end
             /\ Live(rows'[j]) => Live(rows[j])
  BY DEF Cleanup, TypeOK, Row, Live
<1> QED
  BY <1>1 DEF Cleanup, Quiet

-------------------------------------------------------------------------------
\* Quiet steps keep what is known of the slots.

LEMMA QuietClear ==
  ASSUME Quiet, NEW q \in Begun, SameLocals(q), NEW start, NEW end,
         ClaimClear(q, start, end)
  PROVE  ClaimClear(q, start, end)'
  BY DEF Quiet, SameLocals, ClaimClear, LiveIds, Excused, Live

LEMMA QuietOverlap == ASSUME Quiet, NoUnracedOverlap PROVE NoUnracedOverlap'
  BY DEF Quiet, NoUnracedOverlap, LiveIds, Excused, Live

\* A handler that was claiming a slot before a quiet step still knows what it
\* knew: only handlers that begin to claim, or have had their query answered,
\* need an argument of their own.
\* q was claiming, and its query has not been answered by this step.
Goes(q) == Claiming(q)' => Claiming(q) /\ (reqs'[q].at = "update" => reqs[q].at = "update")

LEMMA QuietClaims ==
  ASSUME TypeOK, Quiet, NEW q \in Begun, SameLocals(q), Goes(q),
         CreateClaim(q), ExtendClaim(q)
  PROVE  CreateClaim(q)' /\ ExtendClaim(q)'
<1>1. ASSUME NEW start, NEW end, ClaimClear(q, start, end) PROVE ClaimClear(q, start, end)'
  BY <1>1, QuietClear
<1>2. CreateClaim(q)'
  <2> SUFFICES ASSUME Claiming(q)', reqs'[q].op = "create"
               PROVE  ClaimClear(q, reqs[q].from, reqs[q].to)'
    BY DEF CreateClaim
  <2>1. ClaimClear(q, reqs[q].from, reqs[q].to)
    BY DEF CreateClaim, Goes, SameLocals
  <2> QED
    BY <1>1, <2>1 DEF SameLocals, ClaimClear
<1>3. ExtendClaim(q)'
  <2> SUFFICES ASSUME Claiming(q)', reqs'[q].op = "extend", reqs'[q].id \in LiveIds'
               PROVE  /\ ClaimClear(q, rows[reqs[q].id].start, reqs[q].from)'
                      /\ reqs'[q].at = "update" => ClaimClear(q, reqs[q].from, reqs[q].to)'
    BY DEF ExtendClaim
  <2>1. reqs[q].op = "extend" /\ reqs[q].id \in LiveIds
    BY DEF SameLocals, Quiet, LiveIds
  <2>2. rows'[reqs'[q].id].start = rows[reqs[q].id].start
    BY <2>1 DEF SameLocals, Quiet, LiveIds
  <2>3. ClaimClear(q, rows[reqs[q].id].start, reqs[q].from)
    BY <2>1 DEF ExtendClaim, Goes
  <2>4. reqs'[q].at = "update" => ClaimClear(q, reqs[q].from, reqs[q].to)
    BY <2>1 DEF ExtendClaim, Goes
  <2> QED
    BY <1>1, <2>2, <2>3, <2>4 DEF SameLocals, ClaimClear
<1> QED
  BY <1>2, <1>3

\* ... and the reservations' own handlers and those of quiet steps still agree.
LEMMA QuietAgrees ==
  ASSUME Quiet, NEW q \in Begun, Still(q), HandlerAgrees(q)
  PROVE  HandlerAgrees(q)'
<1>1. LiveIds' \subseteq LiveIds
  BY DEF Quiet, LiveIds
<1> QED
  BY <1>1 DEF Quiet, Still, SameLocals, HandlerAgrees, LiveIds

LEMMA QuietRows ==
  ASSUME Quiet, Continues, HandlersAgree
  PROVE  \A i \in DOMAIN rows' : RowAgrees(i)'
  BY DEF Quiet, Continues, SameLocals, HandlersAgree, RowAgrees

\* A quiet step of handler r keeps the invariant, if r itself keeps its part.
LEMMA QuietGoto ==
  ASSUME IInv, NEW r \in Begun, NEW p \in Waiting \cup Ended, Goto(r, p), Quiet,
         HandlerAgrees(r)', CreateClaim(r)', ExtendClaim(r)'
  PROVE  HandlersAgree' /\ ClaimsKnown' /\ NoUnracedOverlap'
<1>1. Begun' = Begun /\ Continues /\ \A q \in Begun \ {r} : Still(q)
  BY GotoFrame DEF IInv
<1>2. HandlersAgree'
  <2>1. ASSUME NEW q \in Begun \ {r} PROVE HandlerAgrees(q)'
    BY <1>1, QuietAgrees DEF IInv, HandlersAgree
  <2> QED
    BY <1>1, <2>1, QuietRows DEF IInv, HandlersAgree
<1>3. ClaimsKnown'
  <2>1. ASSUME NEW q \in Begun \ {r} PROVE CreateClaim(q)' /\ ExtendClaim(q)'
    <3>1. SameLocals(q) /\ Goes(q)
      BY <1>1 DEF Still, Goes, SameLocals, Claiming
    <3> QED
      BY <3>1, QuietClaims DEF IInv, ClaimsKnown
  <2> QED
    BY <1>1, <2>1 DEF ClaimsKnown
<1> QED
  BY <1>2, <1>3, QuietOverlap DEF IInv

\* So does a step that begins a handler.
LEMMA QuietBegin ==
  ASSUME IInv, NEW r \in Requests, NEW h \in Handler, Begin(r, h), Quiet,
         HandlerAgrees(r)', CreateClaim(r)', ExtendClaim(r)'
  PROVE  HandlersAgree' /\ ClaimsKnown' /\ NoUnracedOverlap'
<1>1. /\ r \notin Begun
      /\ Begun' = Begun \cup {r}
      /\ \A q \in Begun : reqs'[q] = reqs[q]
  BY BeginLemma DEF IInv, TypeOK, Begun
<1>2. Continues /\ \A q \in Begun : Still(q)
  BY <1>1 DEF Continues, SameLocals, Still
<1>3. HandlersAgree'
  <2>1. ASSUME NEW q \in Begun PROVE HandlerAgrees(q)'
    BY <1>2, QuietAgrees DEF IInv, HandlersAgree
  <2> QED
    BY <1>1, <1>2, <2>1, QuietRows DEF IInv, HandlersAgree
<1>4. ClaimsKnown'
  <2>1. ASSUME NEW q \in Begun PROVE CreateClaim(q)' /\ ExtendClaim(q)'
    <3>1. SameLocals(q) /\ Goes(q)
      BY <1>2 DEF Still, Goes, SameLocals, Claiming
    <3> QED
      BY <3>1, QuietClaims DEF IInv, ClaimsKnown
  <2> QED
    BY <1>1, <2>1 DEF ClaimsKnown
<1> QED
  BY <1>3, <1>4, QuietOverlap DEF IInv

-------------------------------------------------------------------------------
\* The overlap query against its reference definition.
LEMMA OverlapMeets ==
  ASSUME NEW s1 \in Int, NEW e1 \in Int, NEW s2 \in Int, NEW e2 \in Int,
         s1 <= e1, s2 <= e2
  PROVE  OverlapClause(s1, e1, s2, e2) <=> Meets(s1, e1, s2, e2)
  BY DEF OverlapClause, Meets

\* A query that finds nothing has looked at every live reservation of the lot.
LEMMA NoOverlapFound ==
  ASSUME TypeOK, HandlersAgree, NEW lot, NEW from \in Time, NEW to \in Time,
         from <= to, NEW except, ~HasOverlap(lot, from, to, except),
         NEW j \in LiveIds \ except, rows[j].lot = lot
  PROVE  ~Meets(rows[j].start, rows[j].end, from, to)
<1>1. /\ rows[j].start \in Int /\ rows[j].end \in Int /\ from \in Int /\ to \in Int
      /\ rows[j].start <= rows[j].end
  BY ReservationsAssumption DEF TypeOK, Row, Time, LiveIds, HandlersAgree, RowAgrees
<1>2. ~OverlapClause(rows[j].start, rows[j].end, from, to)
  BY DEF HasOverlap
<1> QED
  BY <1>1, <1>2, OverlapMeets

-------------------------------------------------------------------------------
\* One lemma per step; Keeps is what each of them has to show.

Keeps == HandlersAgree' /\ ClaimsKnown' /\ NoUnracedOverlap'

LEMMA QuietSelf ==
  ASSUME IInv, NEW r \in Begun, NEW p \in Waiting \cup Ended, Goto(r, p), Quiet,
         HandlerAgrees(r)', Goes(r)
  PROVE  Keeps
<1>1. SameLocals(r)
  BY GotoFrame DEF IInv
<1>2. CreateClaim(r)' /\ ExtendClaim(r)'
  BY <1>1, QuietClaims DEF IInv, ClaimsKnown
<1> QED
  BY <1>2, QuietGoto DEF Keeps

LEMMA CreateCountKeeps == ASSUME IInv, NEW r \in Requests, CreateCount(r) PROVE Keeps
<1>1. /\ r \in Begun /\ reqs[r].at = "count" /\ reqs[r].op = "create"
      /\ HandlerAgrees(r) /\ reqs[r] \in Handler
  BY DEF CreateCount, At, IInv, HandlersAgree, TypeOK, Begun
<1>2. Quiet
  BY SameRowsQuiet DEF CreateCount
<1>3. CASE HasOverlap(reqs[r].lot, reqs[r].from, reqs[r].to, {})
  <2>1. Goto(r, "refused") /\ "refused" \in Waiting \cup Ended
    BY <1>3 DEF CreateCount, Ended
  <2>2. SameLocals(r) /\ reqs'[r].at = "refused"
    BY <1>1, <2>1, GotoFrame DEF IInv
  <2>3. HandlerAgrees(r)' /\ Goes(r)
    BY <1>1, <2>2 DEF HandlerAgrees, SameLocals, Goes, Claiming, Waiting
  <2> QED
    BY <1>1, <1>2, <2>1, <2>3, QuietSelf
<1>4. CASE ~HasOverlap(reqs[r].lot, reqs[r].from, reqs[r].to, {})
  <2>1. Goto(r, "vehicle") /\ "vehicle" \in Waiting \cup Ended
    BY <1>4 DEF CreateCount, Waiting
  <2>2. SameLocals(r) /\ reqs'[r].at = "vehicle"
    BY <1>1, <2>1, GotoFrame DEF IInv
  <2>3. UNCHANGED rows
    BY DEF CreateCount
  <2>4. HandlerAgrees(r)'
    BY <1>1, <2>2, <2>3 DEF HandlerAgrees, SameLocals, Waiting
  <2>5. CreateClaim(r)'
    <3>1. reqs[r].from \in Time /\ reqs[r].to \in Time /\ reqs[r].from <= reqs[r].to
      BY <1>1, ReservationsAssumption DEF Handler, HandlerAgrees, Time
    <3>2. \A j \in LiveIds : rows[j].lot = reqs[r].lot =>
            ~Meets(rows[j].start, rows[j].end, reqs[r].from, reqs[r].to)
      BY <3>1, <1>4, NoOverlapFound DEF IInv
    <3> QED
      BY <2>2, <2>3, <3>2 DEF CreateClaim, ClaimClear, SameLocals, LiveIds
  <2>6. ExtendClaim(r)'
    BY <1>1, <2>2 DEF ExtendClaim, SameLocals
  <2> QED
    BY <1>1, <1>2, <2>1, <2>4, <2>5, <2>6, QuietGoto DEF Keeps
<1> QED
  BY <1>3, <1>4

LEMMA FindVehicleKeeps == ASSUME IInv, NEW r \in Requests, FindVehicle(r) PROVE Keeps
<1>1. r \in Begun /\ reqs[r].at = "vehicle" /\ HandlerAgrees(r)
  BY DEF FindVehicle, At, IInv, HandlersAgree
<1>2. Quiet /\ UNCHANGED rows
  BY SameRowsQuiet DEF FindVehicle
<1>3. PICK p \in {"insert", "newVehicle"} : Goto(r, p)
  BY DEF FindVehicle
<1>4. SameLocals(r) /\ reqs'[r].at = p
  BY <1>1, <1>3, GotoFrame DEF IInv, Waiting
<1>5. HandlerAgrees(r)' /\ Goes(r)
  BY <1>1, <1>2, <1>4 DEF HandlerAgrees, SameLocals, Goes, Claiming, Waiting
<1> QED
  BY <1>1, <1>2, <1>3, <1>5, QuietSelf DEF Waiting

LEMMA InsertVehicleKeeps == ASSUME IInv, NEW r \in Requests, InsertVehicle(r) PROVE Keeps
<1>1. r \in Begun /\ reqs[r].at = "newVehicle" /\ HandlerAgrees(r)
  BY DEF InsertVehicle, At, IInv, HandlersAgree
<1>2. Quiet /\ UNCHANGED rows
  BY SameRowsQuiet DEF InsertVehicle
<1>3. PICK p \in {"insert", "failed"} : Goto(r, p)
  BY DEF InsertVehicle
<1>4. SameLocals(r) /\ reqs'[r].at = p
  BY <1>1, <1>3, GotoFrame DEF IInv, Waiting, Ended
<1>5. HandlerAgrees(r)' /\ Goes(r)
  BY <1>1, <1>2, <1>4 DEF HandlerAgrees, SameLocals, Goes, Claiming, Waiting
<1> QED
  BY <1>1, <1>2, <1>3, <1>5, QuietSelf DEF Waiting, Ended

LEMMA ExtendCountKeeps == ASSUME IInv, NEW r \in Requests, ExtendCount(r) PROVE Keeps
<1>1. /\ r \in Begun /\ reqs[r].at = "count" /\ reqs[r].op = "extend"
      /\ HandlerAgrees(r) /\ reqs[r] \in Handler
  BY DEF ExtendCount, At, IInv, HandlersAgree, TypeOK, Begun
<1>2. Quiet
  BY SameRowsQuiet DEF ExtendCount
<1>3. CASE HasOverlap(reqs[r].lot, reqs[r].from, reqs[r].to, {reqs[r].id})
  <2>1. Goto(r, "refused") /\ "refused" \in Waiting \cup Ended /\ UNCHANGED rows
    BY <1>3 DEF ExtendCount, Ended
  <2>2. SameLocals(r) /\ reqs'[r].at = "refused"
    BY <1>1, <2>1, GotoFrame DEF IInv
  <2>3. HandlerAgrees(r)' /\ Goes(r)
    BY <1>1, <2>1, <2>2 DEF HandlerAgrees, SameLocals, Goes, Claiming, Waiting
  <2> QED
    BY <1>1, <1>2, <2>1, <2>3, QuietSelf
<1>4. CASE ~HasOverlap(reqs[r].lot, reqs[r].from, reqs[r].to, {reqs[r].id})
  <2>1. Goto(r, "update") /\ "update" \in Waiting \cup Ended
    BY <1>4 DEF ExtendCount, Waiting
  <2>2. SameLocals(r) /\ reqs'[r].at = "update"
    BY <1>1, <2>1, GotoFrame DEF IInv
  <2>3. UNCHANGED <<rows, raced>>
    BY DEF ExtendCount
  <2>4. HandlerAgrees(r)'
    BY <1>1, <2>2, <2>3 DEF HandlerAgrees, SameLocals, Waiting
  <2>5. CreateClaim(r)'
    BY <1>1, <2>2 DEF CreateClaim, SameLocals
  <2>6. ExtendClaim(r)'
    <3>1. reqs[r].from \in Time /\ reqs[r].to \in Time /\ reqs[r].from <= reqs[r].to
      BY <1>1, ReservationsAssumption DEF Handler, HandlerAgrees, Time
    <3>2. \A j \in LiveIds \ {reqs[r].id} : rows[j].lot = reqs[r].lot =>
            ~Meets(rows[j].start, rows[j].end, reqs[r].from, reqs[r].to)
      BY <3>1, <1>4, NoOverlapFound DEF IInv
    <3>3. ClaimClear(r, reqs[r].from, reqs[r].to)'
      BY <2>2, <2>3, <3>2 DEF ClaimClear, SameLocals, LiveIds
    <3>4. ASSUME reqs[r].id \in LiveIds
          PROVE  ClaimClear(r, rows[reqs[r].id].start, reqs[r].from)'
      <4>1. ClaimClear(r, rows[reqs[r].id].start, reqs[r].from)
        BY <1>1, <3>4 DEF IInv, ClaimsKnown, ExtendClaim, Claiming
      <4> QED
        BY <2>2, <2>3, <4>1 DEF ClaimClear, SameLocals, LiveIds, Excused
    <3> QED
      BY <2>2, <2>3, <3>3, <3>4 DEF ExtendClaim, SameLocals, LiveIds
  <2> QED
    BY <1>1, <1>2, <2>1, <2>4, <2>5, <2>6, QuietGoto DEF Keeps
<1> QED
  BY <1>3, <1>4

LEMMA CloseKeeps ==
  ASSUME IInv, "activate" \notin Wired, NEW r \in Requests,
         CancelUpdate(r) \/ CompleteUpdate(r) \/ ActivateUpdate(r)
  PROVE  Keeps
<1>1. /\ r \in Begun /\ reqs[r].at = "update" /\ HandlerAgrees(r)
      /\ reqs[r].op \in {"cancel", "complete", "activate"}
  BY DEF CancelUpdate, CompleteUpdate, ActivateUpdate, At, IInv, HandlersAgree
<1>2. PICK status \in {"CANCELLED", "COMPLETED"} : SetStatus(r, status, "publish")
  BY <1>1 DEF CancelUpdate, CompleteUpdate, ActivateUpdate, HandlerAgrees
<1>3. Goto(r, "publish") /\ "publish" \in Waiting \cup Ended
  BY <1>2 DEF SetStatus, Waiting
<1>4. Quiet /\ reqs[r].id \notin LiveIds'
  BY <1>1, <1>2, <1>3, StatusFrame DEF IInv
<1>5. SameLocals(r) /\ reqs'[r].at = "publish"
  BY <1>1, <1>3, GotoFrame DEF IInv
<1>6. reqs'[r].op # "activate"
  BY <1>1, <1>5 DEF HandlerAgrees, SameLocals
<1>7. Goes(r)
  BY <1>5 DEF Goes, Claiming
<1>8. HandlerAgrees(r)'
  BY <1>1, <1>4, <1>5, <1>6 DEF HandlerAgrees, SameLocals, Quiet
<1> QED
  BY <1>1, <1>3, <1>4, <1>7, <1>8, QuietSelf

LEMMA PublishKeeps ==
  ASSUME IInv, NEW r \in Requests, Publish(r) \/ PublishFails(r)
  PROVE  Keeps
<1>1. r \in Begun /\ reqs[r].at = "publish" /\ HandlerAgrees(r)
  BY DEF Publish, PublishFails, At, IInv, HandlersAgree
<1>2. Quiet /\ UNCHANGED rows /\ Goto(r, "done") /\ "done" \in Waiting \cup Ended
  BY SameRowsQuiet DEF Publish, PublishFails, Ended
<1>3. SameLocals(r) /\ reqs'[r].at = "done"
  BY <1>1, <1>2, GotoFrame DEF IInv
<1>4. HandlerAgrees(r)' /\ Goes(r)
  BY <1>1, <1>2, <1>3 DEF HandlerAgrees, SameLocals, Goes, Claiming, Waiting, LiveIds
<1> QED
  BY <1>1, <1>2, <1>4, QuietSelf

LEMMA DatabaseFailsKeeps == ASSUME IInv, NEW r \in Requests, DatabaseFails(r) PROVE Keeps
<1>1. r \in Begun /\ HandlerAgrees(r)
  BY DEF DatabaseFails, InFlight, IInv, HandlersAgree
<1>2. Quiet /\ UNCHANGED rows /\ Goto(r, "failed") /\ "failed" \in Waiting \cup Ended
  BY SameRowsQuiet DEF DatabaseFails, Ended
<1>3. SameLocals(r) /\ reqs'[r].at = "failed"
  BY <1>1, <1>2, GotoFrame DEF IInv
<1>4. HandlerAgrees(r)' /\ Goes(r)
  BY <1>1, <1>2, <1>3 DEF HandlerAgrees, SameLocals, Goes, Claiming, Waiting, LiveIds
<1> QED
  BY <1>1, <1>2, <1>4, QuietSelf

LEMMA BeginCreateKeeps ==
  ASSUME IInv, NEW r \in Requests, NEW user \in Users, NEW lot \in Lots,
         NEW plate \in Plates, NEW start \in Time, NEW end \in Time,
         BeginCreate(r, user, lot, plate, start, end)
  PROVE  Keeps
<1> DEFINE h == [op |-> "create", at |-> "count", id |-> r, user |-> user,
                 lot |-> lot, plate |-> plate, from |-> start, to |-> end]
<1>1. h \in Handler
  BY DEF Handler, Waiting
<1>2. Begin(r, h) /\ Quiet /\ UNCHANGED rows
  BY SameRowsQuiet DEF BeginCreate
<1>3. reqs'[r] = h /\ r \notin Begun
  BY <1>1, <1>2, BeginLemma DEF IInv, TypeOK, Begun
<1>4. r \notin DOMAIN rows
  BY <1>3 DEF IInv, HandlersAgree, RowAgrees
<1>5. start < end
  BY ReservationsAssumption DEF BeginCreate, ReservationTimesOK, Time
<1>6. HandlerAgrees(r)'
  BY <1>2, <1>3, <1>4, <1>5 DEF HandlerAgrees, Waiting
<1>7. CreateClaim(r)' /\ ExtendClaim(r)'
  BY <1>3 DEF CreateClaim, ExtendClaim, Claiming
<1> QED
  BY <1>1, <1>2, <1>6, <1>7, QuietBegin DEF Keeps

LEMMA BeginExtendKeeps ==
  ASSUME IInv, NEW r \in Requests, NEW user \in Users, NEW i \in Requests,
         NEW newEnd \in Time, BeginExtend(r, user, i, newEnd)
  PROVE  Keeps
<1> DEFINE h == [op |-> "extend", at |-> "count", id |-> i, user |-> user,
                 lot |-> rows[i].lot, plate |-> rows[i].plate,
                 from |-> rows[i].end, to |-> newEnd]
<1>1. /\ i \in DOMAIN rows /\ rows[i] \in Row /\ RowAgrees(i)
      /\ rows[i].user = user
  BY DEF BeginExtend, IInv, TypeOK, HandlersAgree
<1>2. h \in Handler
  BY <1>1 DEF Handler, Waiting, Row
<1>3. Begin(r, h) /\ Quiet /\ UNCHANGED <<rows, raced>>
  BY SameRowsQuiet DEF BeginExtend
<1>4. reqs'[r] = h
  BY <1>2, <1>3, BeginLemma DEF IInv, TypeOK
<1>5. rows[i].end < newEnd
  BY <1>1, ReservationsAssumption DEF BeginExtend, ExtensionTimeOK, Time, Row
<1>6. HandlerAgrees(r)'
  BY <1>1, <1>3, <1>4, <1>5 DEF HandlerAgrees, RowAgrees
<1>7. CreateClaim(r)'
  BY <1>4 DEF CreateClaim, Claiming
<1>8. ExtendClaim(r)'
  <2>1. ASSUME i \in LiveIds, NEW j \in LiveIds \ {i}, rows[j].lot = rows[i].lot,
               Meets(rows[j].start, rows[j].end, rows[i].start, rows[i].end)
        PROVE  Excused(i, j)
    BY <2>1 DEF IInv, NoUnracedOverlap, Excused
  <2> QED
    BY <1>3, <1>4, <2>1 DEF ExtendClaim, ClaimClear, LiveIds, Excused
<1> QED
  BY <1>2, <1>3, <1>6, <1>7, <1>8, QuietBegin DEF Keeps

LEMMA BeginCloseKeeps ==
  ASSUME IInv, NEW r \in Requests, NEW op \in {"cancel", "complete"}, NEW user \in Users,
         NEW i \in DOMAIN rows, rows[i].user = user, BeginClose(r, op, user, i)
  PROVE  Keeps
<1> DEFINE h == [op |-> op, at |-> "update", id |-> i, user |-> user,
                 lot |-> rows[i].lot, plate |-> rows[i].plate,
                 from |-> rows[i].start, to |-> rows[i].end]
<1>1. i \in Requests /\ rows[i] \in Row /\ RowAgrees(i)
  BY DEF IInv, TypeOK, HandlersAgree
<1>2. h \in Handler
  BY <1>1 DEF Handler, Waiting, Row
<1>3. Begin(r, h) /\ Quiet /\ UNCHANGED rows
  BY SameRowsQuiet DEF BeginClose
<1>4. reqs'[r] = h
  BY <1>2, <1>3, BeginLemma DEF IInv, TypeOK
<1>5. HandlerAgrees(r)'
  BY <1>1, <1>3, <1>4 DEF HandlerAgrees, RowAgrees
<1>6. CreateClaim(r)' /\ ExtendClaim(r)'
  BY <1>4 DEF CreateClaim, ExtendClaim, Claiming
<1> QED
  BY <1>2, <1>3, <1>5, <1>6, QuietBegin DEF Keeps

LEMMA ArriveKeeps ==
  ASSUME IInv, "activate" \notin Wired, NEW r \in Requests, Arrive(r) PROVE Keeps
<1>1. ASSUME NEW i \in DOMAIN rows PROVE rows[i].user \in Users
  BY DEF IInv, TypeOK, Row
<1>2. ASSUME NEW user \in Users, NEW i \in Requests, BeginCancel(r, user, i) PROVE Keeps
  BY <1>2, BeginCloseKeeps DEF BeginCancel
<1>3. ASSUME NEW i \in Requests, BeginComplete(r, i) PROVE Keeps
  BY <1>1, <1>3, BeginCloseKeeps DEF BeginComplete
<1>4. ASSUME NEW i \in Requests, BeginActivate(r, i) PROVE FALSE
  BY <1>4 DEF BeginActivate
<1> QED
  BY <1>2, <1>3, <1>4, BeginCreateKeeps, BeginExtendKeeps DEF Arrive

\* Steps that leave the handlers alone, or only end them.
LEMMA OthersKeep ==
  ASSUME IInv, Tick \/ Cleanup \/ Stop \/ UNCHANGED vars
  PROVE  Keeps
<1>1. Quiet
  BY SameRowsQuiet, CleanupFrame DEF IInv, Tick, Stop, vars
<1>2. /\ Begun' = Begun
      /\ \A q \in Begun : SameLocals(q) /\ (reqs'[q].at = reqs[q].at \/ reqs'[q].at = "lost")
  <2>1. CASE Tick \/ Cleanup \/ UNCHANGED vars
    BY <2>1 DEF Tick, Cleanup, vars, Begun, SameLocals
  <2>2. CASE Stop
    <3>1. ASSUME NEW q \in Begun
          PROVE  SameLocals(q) /\ (reqs'[q].at = reqs[q].at \/ reqs'[q].at = "lost")
      <4>1. reqs[q] \in Handler
        BY DEF IInv, TypeOK, Begun
      <4> QED
        BY <2>2, <4>1 DEF Stop, SameLocals, Begun, Handler
    <3> QED
      BY <2>2, <3>1 DEF Stop, Begun
  <2> QED
    BY <2>1, <2>2
<1>3. HandlersAgree'
  <2>1. ASSUME NEW q \in Begun PROVE HandlerAgrees(q)'
    <3>1. CASE Still(q)
      BY <3>1, <1>1, QuietAgrees DEF IInv, HandlersAgree
    <3>2. CASE reqs'[q].at = "lost"
      BY <3>2, <1>1, <1>2 DEF IInv, HandlersAgree, HandlerAgrees, SameLocals, Quiet, Waiting
    <3> QED
      BY <1>2, <3>1, <3>2 DEF Still
  <2> QED
    BY <1>1, <1>2, <2>1, QuietRows DEF IInv, HandlersAgree, Continues
<1>4. ClaimsKnown'
  <2>1. ASSUME NEW q \in Begun PROVE CreateClaim(q)' /\ ExtendClaim(q)'
    <3>1. SameLocals(q) /\ Goes(q)
      BY <1>2 DEF Goes, SameLocals, Claiming
    <3> QED
      BY <1>1, <3>1, QuietClaims DEF IInv, ClaimsKnown
  <2> QED
    BY <1>2, <2>1 DEF ClaimsKnown
<1> QED
  BY <1>1, <1>3, <1>4, QuietOverlap DEF IInv, Keeps

-------------------------------------------------------------------------------
\* The two steps that write a slot.

\* A claim that the written slot cuts across is recorded as a race with it.
LEMMA RivalRecorded ==
  ASSUME NEW q \in Begun, Claiming(q), NEW i, NEW lot, NEW start, NEW end,
         Record(i, lot, start, end), reqs[q].id # i, reqs[q].lot = lot,
         Meets(ClaimStart(q), reqs[q].to, start, end)
  PROVE  <<i, reqs[q].id>> \in raced'
<1>1. reqs[q].id \in Rivals(i, lot, start, end)
  BY DEF Rivals
<1> QED
  BY <1>1 DEF Record

\* The part of its slot that a claim knows about lies within the slot.
LEMMA ClaimWithin ==
  ASSUME TypeOK, NEW q \in Begun, HandlerAgrees(q), Claiming(q),
         NEW s \in Int, NEW e \in Int, NEW start \in Int, NEW end \in Int,
         \/ reqs[q].op = "create" /\ s = reqs[q].from /\ e = reqs[q].to
         \/ /\ reqs[q].op = "extend"
            /\ \/ s = rows[reqs[q].id].start /\ e = reqs[q].from
               \/ s = reqs[q].from /\ e = reqs[q].to,
         Meets(start, end, s, e)
  PROVE  Meets(ClaimStart(q), reqs[q].to, start, end)
<1>1. reqs[q].from \in Int /\ reqs[q].to \in Int /\ reqs[q].from < reqs[q].to
  BY ReservationsAssumption DEF TypeOK, Begun, Handler, Time, HandlerAgrees
<1>2. CASE reqs[q].op = "create"
  BY <1>1, <1>2 DEF Meets, ClaimStart
<1>3. CASE reqs[q].op = "extend"
  <2>1. rows[reqs[q].id].start \in Int /\ rows[reqs[q].id].start < reqs[q].from
    BY <1>3, ReservationsAssumption DEF TypeOK, Row, Time, HandlerAgrees
  <2> QED
    BY <1>1, <1>3, <2>1 DEF Meets, ClaimStart
<1> QED
  BY <1>2, <1>3

LEMMA InsertRowKeeps == ASSUME IInv, NEW r \in Requests, InsertRow(r) PROVE Keeps
<1> DEFINE from == reqs[r].from
           to == reqs[r].to
           lot == reqs[r].lot
<1>1. /\ r \in Begun /\ reqs[r].at = "insert" /\ reqs[r] \in Handler
      /\ HandlerAgrees(r) /\ ClaimsKnown /\ TypeOK
  BY DEF InsertRow, At, IInv, HandlersAgree, TypeOK, Begun
<1>2. reqs[r].op = "create" /\ reqs[r].id = r /\ r \notin DOMAIN rows /\ Claiming(r)
  BY <1>1 DEF HandlerAgrees, Waiting, Claiming, Handler
<1>3. from \in Int /\ to \in Int /\ from < to
  BY <1>1, ReservationsAssumption DEF Handler, Time, HandlerAgrees
<1>4. Goto(r, "publish") /\ "publish" \in Waiting \cup Ended
  BY DEF InsertRow, Waiting
<1>5. /\ Begun' = Begun /\ SameLocals(r) /\ reqs'[r].at = "publish"
      /\ \A q \in Begun \ {r} : Still(q)
  BY <1>1, <1>4, GotoFrame
<1>6. /\ DOMAIN rows' = DOMAIN rows \cup {r}
      /\ \A j \in DOMAIN rows : rows'[j] = rows[j]
      /\ rows'[r] = [status |-> "PENDING", user |-> reqs[r].user, lot |-> lot,
                     plate |-> reqs[r].plate, start |-> from, end |-> to]
  BY <1>2 DEF InsertRow, Store
<1>7. LiveIds' = LiveIds \cup {r}
  BY <1>2, <1>6 DEF LiveIds, Live
<1>8. raced \subseteq raced'
  BY DEF InsertRow, Record
<1>9. HandlersAgree'
  <2>1. HandlerAgrees(r)'
    BY <1>1, <1>2, <1>5, <1>6 DEF HandlerAgrees, SameLocals, Waiting
  <2>2. ASSUME NEW q \in Begun \ {r} PROVE HandlerAgrees(q)'
    <3>1. Still(q) /\ HandlerAgrees(q)
      BY <1>5 DEF IInv, HandlersAgree
    <3>2. reqs[q].op # "create" => reqs[q].id # r /\ reqs[q].id \in DOMAIN rows
      BY <1>2, <3>1 DEF HandlerAgrees
    <3> QED
      BY <1>6, <1>7, <3>1, <3>2 DEF HandlerAgrees, Still, SameLocals
  <2>3. ASSUME NEW i \in DOMAIN rows' PROVE RowAgrees(i)'
    <3>1. CASE i = r
      BY <1>1, <1>2, <1>3, <1>5, <1>6, <3>1 DEF RowAgrees, SameLocals
    <3>2. CASE i \in DOMAIN rows /\ i # r
      <4>1. RowAgrees(i)
        BY <3>2 DEF IInv, HandlersAgree
      <4> QED
        BY <1>5, <1>6, <3>2, <4>1 DEF RowAgrees, Still, SameLocals
    <3> QED
      BY <1>6, <3>1, <3>2
  <2> QED
    BY <1>5, <2>1, <2>2, <2>3 DEF HandlersAgree
<1>10. ASSUME NEW j \in LiveIds, rows[j].lot = lot,
              Meets(rows[j].start, rows[j].end, from, to)
       PROVE  <<r, j>> \in raced \/ <<j, r>> \in raced
  BY <1>1, <1>2, <1>10 DEF ClaimsKnown, CreateClaim, ClaimClear, LiveIds, Excused
<1>11. NoUnracedOverlap'
  <2> SUFFICES ASSUME NEW i \in LiveIds', NEW j \in LiveIds', i # j,
                      rows'[i].lot = rows'[j].lot,
                      Meets(rows'[i].start, rows'[i].end, rows'[j].start, rows'[j].end)
               PROVE  <<i, j>> \in raced' \/ <<j, i>> \in raced'
    BY DEF NoUnracedOverlap, Excused
  <2>1. CASE i # r /\ j # r
    BY <1>6, <1>7, <1>8, <2>1 DEF IInv, NoUnracedOverlap, Excused, LiveIds
  <2>2. CASE i = r
    <3>1. j \in LiveIds /\ rows'[j] = rows[j]
      BY <1>6, <1>7, <2>2 DEF LiveIds
    <3>2. Meets(rows[j].start, rows[j].end, from, to)
      BY <1>6, <2>2, <3>1 DEF Meets
    <3> QED
      BY <1>6, <1>8, <1>10, <2>2, <3>1, <3>2
  <2>3. CASE j = r
    <3>1. i \in LiveIds /\ rows'[i] = rows[i]
      BY <1>6, <1>7, <2>3 DEF LiveIds
    <3>2. Meets(rows[i].start, rows[i].end, from, to)
      BY <1>6, <2>3, <3>1 DEF Meets
    <3> QED
      BY <1>6, <1>8, <1>10, <2>3, <3>1, <3>2
  <2> QED
    BY <2>1, <2>2, <2>3
<1>12. ClaimsKnown'
  <2>1. CreateClaim(r)' /\ ExtendClaim(r)'
    BY <1>5 DEF CreateClaim, ExtendClaim, Claiming
  <2>2. ASSUME NEW q \in Begun \ {r} PROVE CreateClaim(q)' /\ ExtendClaim(q)'
    <3>1. Still(q) /\ HandlerAgrees(q) /\ CreateClaim(q) /\ ExtendClaim(q)
      BY <1>5 DEF IInv, HandlersAgree, ClaimsKnown
    <3>2. Claiming(q)' => Claiming(q)
      BY <3>1 DEF Still, SameLocals, Claiming
    <3>3. Claiming(q) => reqs[q].id # r
      BY <1>2, <3>1 DEF HandlerAgrees, Claiming
    <3>4. ASSUME Claiming(q), NEW s \in Int, NEW e \in Int,
                 \/ reqs[q].op = "create" /\ s = reqs[q].from /\ e = reqs[q].to
                 \/ /\ reqs[q].op = "extend"
                    /\ \/ s = rows[reqs[q].id].start /\ e = reqs[q].from
                       \/ s = reqs[q].from /\ e = reqs[q].to,
                 ClaimClear(q, s, e)
          PROVE  ClaimClear(q, s, e)'
      <4> SUFFICES ASSUME NEW j \in LiveIds' \ {reqs'[q].id},
                          rows'[j].lot = reqs'[q].lot,
                          Meets(rows'[j].start, rows'[j].end, s, e)
                   PROVE  <<reqs'[q].id, j>> \in raced' \/ <<j, reqs'[q].id>> \in raced'
        BY DEF ClaimClear, Excused
      <4>1. reqs'[q].id = reqs[q].id /\ reqs'[q].lot = reqs[q].lot
        BY <3>1 DEF Still, SameLocals
      <4>2. CASE j # r
        BY <1>6, <1>7, <1>8, <3>4, <4>1, <4>2 DEF ClaimClear, LiveIds, Excused
      <4>3. CASE j = r
        <5>1. reqs[q].lot = lot /\ Meets(from, to, s, e)
          BY <1>6, <4>1, <4>3
        <5>2. Meets(ClaimStart(q), reqs[q].to, from, to)
          BY <1>1, <1>3, <3>1, <3>4, <5>1, ClaimWithin
        <5>3. Record(r, lot, from, to)
          BY DEF InsertRow
        <5>4. <<r, reqs[q].id>> \in raced'
          BY <3>3, <3>4, <5>1, <5>2, <5>3, RivalRecorded
        <5> QED
          BY <4>1, <4>3, <5>4
      <4> QED
        BY <4>2, <4>3
    <3>5. reqs[q].from \in Int /\ reqs[q].to \in Int
      BY <1>1, ReservationsAssumption DEF TypeOK, Begun, Handler, Time
    <3>6. CreateClaim(q)'
      <4> SUFFICES ASSUME Claiming(q)', reqs'[q].op = "create"
                   PROVE  ClaimClear(q, reqs[q].from, reqs[q].to)'
        BY DEF CreateClaim
      <4>1. Claiming(q) /\ reqs[q].op = "create"
        BY <3>1, <3>2 DEF Still, SameLocals
      <4>2. ClaimClear(q, reqs[q].from, reqs[q].to)
        BY <3>1, <4>1 DEF CreateClaim
      <4> QED
        BY <3>1, <3>4, <3>5, <4>1, <4>2 DEF Still, SameLocals, ClaimClear
    <3>7. ExtendClaim(q)'
      <4> SUFFICES ASSUME Claiming(q)', reqs'[q].op = "extend", reqs'[q].id \in LiveIds'
                   PROVE  /\ ClaimClear(q, rows[reqs[q].id].start, reqs[q].from)'
                          /\ reqs'[q].at = "update" =>
                               ClaimClear(q, reqs[q].from, reqs[q].to)'
        BY DEF ExtendClaim
      <4>1. Claiming(q) /\ reqs[q].op = "extend" /\ reqs[q].id \in LiveIds
        BY <1>7, <3>1, <3>2, <3>3 DEF Still, SameLocals
      <4>2. /\ rows'[reqs'[q].id].start = rows[reqs[q].id].start
            /\ rows[reqs[q].id].start \in Int
        BY <1>1, <1>6, <3>1, <4>1, ReservationsAssumption
        DEF LiveIds, TypeOK, Row, Time, Still, SameLocals
      <4>3. /\ ClaimClear(q, rows[reqs[q].id].start, reqs[q].from)
            /\ reqs'[q].at = "update" => ClaimClear(q, reqs[q].from, reqs[q].to)
        BY <3>1, <4>1 DEF ExtendClaim, Still
      <4> QED
        BY <3>1, <3>4, <3>5, <4>1, <4>2, <4>3 DEF Still, SameLocals, ClaimClear
    <3> QED
      BY <3>6, <3>7
  <2> QED
    BY <1>5, <2>1, <2>2 DEF ClaimsKnown
<1> QED
  BY <1>9, <1>11, <1>12 DEF Keeps

LEMMA ExtendUpdateKeeps == ASSUME IInv, NEW r \in Requests, ExtendUpdate(r) PROVE Keeps
<1> DEFINE i == reqs[r].id
           from == reqs[r].from
           to == reqs[r].to
           lot == reqs[r].lot
<1>1. /\ r \in Begun /\ reqs[r].at = "update" /\ reqs[r].op = "extend"
      /\ reqs[r] \in Handler /\ HandlerAgrees(r) /\ ClaimsKnown /\ TypeOK
  BY DEF ExtendUpdate, At, IInv, HandlersAgree, TypeOK, Begun
<1>2. /\ i \in DOMAIN rows /\ rows[i] \in Row /\ lot = rows[i].lot
      /\ rows[i].start < from /\ from < to /\ RowAgrees(i)
  BY <1>1 DEF HandlerAgrees, TypeOK, IInv, HandlersAgree
<1>3. from \in Int /\ to \in Int /\ to \in Time /\ rows[i].start \in Int
  BY <1>1, <1>2, ReservationsAssumption DEF Handler, Time, Row
<1>4. Goto(r, "publish") /\ "publish" \in Waiting \cup Ended
  BY DEF ExtendUpdate, Waiting
<1>5. /\ Begun' = Begun /\ SameLocals(r) /\ reqs'[r].at = "publish"
      /\ \A q \in Begun \ {r} : Still(q)
  BY <1>1, <1>4, GotoFrame
<1>6. /\ DOMAIN rows' = DOMAIN rows
      /\ \A j \in DOMAIN rows : j # i => rows'[j] = rows[j]
      /\ rows'[i] = [status |-> rows[i].status, user |-> rows[i].user, lot |-> rows[i].lot,
                     plate |-> rows[i].plate, start |-> rows[i].start, end |-> to]
  BY <1>1, <1>2, <1>3, EndLemma DEF ExtendUpdate, TypeOK
<1>7. LiveIds' = LiveIds
  BY <1>2, <1>6 DEF LiveIds, Live
<1>8. raced \subseteq raced' /\ Record(i, lot, rows[i].start, to)
  BY DEF ExtendUpdate, Record
<1>9. \A j \in DOMAIN rows : /\ rows'[j].start = rows[j].start
                             /\ rows'[j].lot = rows[j].lot
                             /\ rows'[j].user = rows[j].user
  BY <1>6
<1>10. HandlersAgree'
  <2>1. HandlerAgrees(r)'
    BY <1>1, <1>2, <1>5, <1>6, <1>9 DEF HandlerAgrees, SameLocals
  <2>2. ASSUME NEW q \in Begun \ {r} PROVE HandlerAgrees(q)'
    <3>1. Still(q) /\ HandlerAgrees(q)
      BY <1>5 DEF IInv, HandlersAgree
    <3>2. reqs[q].op # "create" =>
            /\ reqs[q].id \in DOMAIN rows'
            /\ reqs[q].lot = rows'[reqs[q].id].lot
            /\ reqs[q].user = rows'[reqs[q].id].user
            /\ rows'[reqs[q].id].start = rows[reqs[q].id].start
      BY <1>6, <1>9, <3>1 DEF HandlerAgrees
    <3> QED
      BY <1>6, <1>7, <3>1, <3>2 DEF HandlerAgrees, Still, SameLocals
  <2>3. ASSUME NEW j \in DOMAIN rows' PROVE RowAgrees(j)'
    <3>1. RowAgrees(j) /\ j \in DOMAIN rows
      BY <1>6 DEF IInv, HandlersAgree
    <3>2. /\ j \in Begun' /\ reqs'[j].op = reqs[j].op /\ reqs'[j].lot = reqs[j].lot
      BY <1>5, <3>1 DEF RowAgrees, Still, SameLocals
    <3>3. rows'[j].start < rows'[j].end
      BY <1>2, <1>3, <1>6, <3>1 DEF RowAgrees
    <3> QED
      BY <1>9, <3>1, <3>2, <3>3 DEF RowAgrees
  <2> QED
    BY <1>5, <2>1, <2>2, <2>3 DEF HandlersAgree
<1>11. ASSUME i \in LiveIds, NEW j \in LiveIds, j # i, rows[j].lot = lot,
              Meets(rows[j].start, rows[j].end, rows[i].start, to)
       PROVE  <<i, j>> \in raced \/ <<j, i>> \in raced
  <2>1. rows[j].start \in Int /\ rows[j].end \in Int /\ rows[j].start < rows[j].end
    BY <1>1, ReservationsAssumption
    DEF TypeOK, LiveIds, Row, Time, IInv, HandlersAgree, RowAgrees
  <2>2. \/ Meets(rows[j].start, rows[j].end, rows[i].start, from)
        \/ Meets(rows[j].start, rows[j].end, from, to)
    BY <1>2, <1>3, <1>11, <2>1 DEF Meets
  <2>3. /\ ClaimClear(r, rows[i].start, from)
        /\ ClaimClear(r, from, to)
    BY <1>1, <1>11 DEF ClaimsKnown, ExtendClaim, Claiming
  <2> QED
    BY <1>11, <2>2, <2>3 DEF ClaimClear, Excused
<1>12. NoUnracedOverlap'
  <2> SUFFICES ASSUME NEW k \in LiveIds', NEW j \in LiveIds', k # j,
                      rows'[k].lot = rows'[j].lot,
                      Meets(rows'[k].start, rows'[k].end, rows'[j].start, rows'[j].end)
               PROVE  <<k, j>> \in raced' \/ <<j, k>> \in raced'
    BY DEF NoUnracedOverlap, Excused
  <2>1. CASE k # i /\ j # i
    BY <1>6, <1>7, <1>8, <2>1 DEF IInv, NoUnracedOverlap, Excused, LiveIds
  <2>2. CASE k = i
    <3>1. j \in LiveIds /\ i \in LiveIds /\ rows'[j] = rows[j]
      BY <1>6, <1>7, <2>2 DEF LiveIds
    <3>2. Meets(rows[j].start, rows[j].end, rows[i].start, to) /\ rows[j].lot = lot
      BY <1>2, <1>6, <2>2, <3>1 DEF Meets
    <3> QED
      BY <1>8, <1>11, <2>2, <3>1, <3>2
  <2>3. CASE j = i
    <3>1. k \in LiveIds /\ i \in LiveIds /\ rows'[k] = rows[k]
      BY <1>6, <1>7, <2>3 DEF LiveIds
    <3>2. Meets(rows[k].start, rows[k].end, rows[i].start, to) /\ rows[k].lot = lot
      BY <1>2, <1>6, <2>3, <3>1 DEF Meets
    <3> QED
      BY <1>8, <1>11, <2>3, <3>1, <3>2
  <2> QED
    BY <2>1, <2>2, <2>3
<1>13. ClaimsKnown'
  <2>1. CreateClaim(r)' /\ ExtendClaim(r)'
    BY <1>5 DEF CreateClaim, ExtendClaim, Claiming
  <2>2. ASSUME NEW q \in Begun \ {r} PROVE CreateClaim(q)' /\ ExtendClaim(q)'
    <3>1. Still(q) /\ HandlerAgrees(q) /\ CreateClaim(q) /\ ExtendClaim(q)
      BY <1>5 DEF IInv, HandlersAgree, ClaimsKnown
    <3>2. Claiming(q)' => Claiming(q)
      BY <3>1 DEF Still, SameLocals, Claiming
    <3>4. ASSUME Claiming(q), NEW s \in Int, NEW e \in Int,
                 \/ reqs[q].op = "create" /\ s = reqs[q].from /\ e = reqs[q].to
                 \/ /\ reqs[q].op = "extend"
                    /\ \/ s = rows[reqs[q].id].start /\ e = reqs[q].from
                       \/ s = reqs[q].from /\ e = reqs[q].to,
                 ClaimClear(q, s, e)
          PROVE  ClaimClear(q, s, e)'
      <4> SUFFICES ASSUME NEW j \in LiveIds' \ {reqs'[q].id},
                          rows'[j].lot = reqs'[q].lot,
                          Meets(rows'[j].start, rows'[j].end, s, e)
                   PROVE  <<reqs'[q].id, j>> \in raced' \/ <<j, reqs'[q].id>> \in raced'
        BY DEF ClaimClear, Excused
      <4>1. reqs'[q].id = reqs[q].id /\ reqs'[q].lot = reqs[q].lot
        BY <3>1 DEF Still, SameLocals
      <4>2. CASE j # i
        BY <1>6, <1>7, <1>8, <3>4, <4>1, <4>2 DEF ClaimClear, LiveIds, Excused
      <4>3. CASE j = i
        <5>1. reqs[q].lot = lot /\ Meets(rows[i].start, to, s, e) /\ reqs[q].id # i
          BY <1>2, <1>6, <4>1, <4>3
        <5>2. Meets(ClaimStart(q), reqs[q].to, rows[i].start, to)
          BY <1>1, <1>3, <3>1, <3>4, <5>1, ClaimWithin
        <5>3. <<i, reqs[q].id>> \in raced'
          BY <1>8, <3>4, <5>1, <5>2, RivalRecorded
        <5> QED
          BY <4>1, <4>3, <5>3
      <4> QED
        BY <4>2, <4>3
    <3>5. reqs[q].from \in Int /\ reqs[q].to \in Int
      BY <1>1, ReservationsAssumption DEF TypeOK, Begun, Handler, Time
    <3>6. CreateClaim(q)'
      <4> SUFFICES ASSUME Claiming(q)', reqs'[q].op = "create"
                   PROVE  ClaimClear(q, reqs[q].from, reqs[q].to)'
        BY DEF CreateClaim
      <4>1. Claiming(q) /\ reqs[q].op = "create"
        BY <3>1, <3>2 DEF Still, SameLocals
      <4>2. ClaimClear(q, reqs[q].from, reqs[q].to)
        BY <3>1, <4>1 DEF CreateClaim
      <4> QED
        BY <3>1, <3>4, <3>5, <4>1, <4>2 DEF Still, SameLocals, ClaimClear
    <3>7. ExtendClaim(q)'
      <4> SUFFICES ASSUME Claiming(q)', reqs'[q].op = "extend", reqs'[q].id \in LiveIds'
                   PROVE  /\ ClaimClear(q, rows[reqs[q].id].start, reqs[q].from)'
                          /\ reqs'[q].at = "update" =>
                               ClaimClear(q, reqs[q].from, reqs[q].to)'
        BY DEF ExtendClaim
      <4>1. Claiming(q) /\ reqs[q].op = "extend" /\ reqs[q].id \in LiveIds
        BY <1>7, <3>1, <3>2 DEF Still, SameLocals
      <4>2. /\ rows'[reqs'[q].id].start = rows[reqs[q].id].start
            /\ rows[reqs[q].id].start \in Int
        BY <1>1, <1>9, <3>1, <4>1, ReservationsAssumption
        DEF LiveIds, TypeOK, Row, Time, Still, SameLocals
      <4>3. /\ ClaimClear(q, rows[reqs[q].id].start, reqs[q].from)
            /\ reqs'[q].at = "update" => ClaimClear(q, reqs[q].from, reqs[q].to)
        BY <3>1, <4>1 DEF ExtendClaim, Still
      <4> QED
        BY <3>1, <3>4, <3>5, <4>1, <4>2, <4>3 DEF Still, SameLocals, ClaimClear
    <3> QED
      BY <3>6, <3>7
  <2> QED
    BY <1>5, <2>1, <2>2 DEF ClaimsKnown
<1> QED
  BY <1>10, <1>12, <1>13 DEF Keeps

-------------------------------------------------------------------------------
LEMMA InitInv == Init => IInv
<1> SUFFICES ASSUME Init PROVE IInv
  OBVIOUS
<1>1. DOMAIN rows = {} /\ DOMAIN reqs = {}
  BY DEF Init
<1> QED
  BY <1>1, InitType
  DEF IInv, HandlersAgree, ClaimsKnown, NoUnracedOverlap, LiveIds, Begun

LEMMA NextInv == ASSUME "activate" \notin Wired, IInv, [Next]_vars PROVE IInv'
<1>1. TypeOK'
  BY NextType DEF IInv
<1>2. Keeps
  <2>1. CASE Tick \/ Cleanup \/ Stop \/ UNCHANGED vars
    BY <2>1, OthersKeep
  <2>2. ASSUME NEW r \in Requests, Arrive(r) PROVE Keeps
    BY <2>2, ArriveKeeps
  <2>3. ASSUME NEW r \in Requests, Answer(r) \/ DatabaseFails(r) PROVE Keeps
    BY <2>3, CreateCountKeeps, FindVehicleKeeps, InsertVehicleKeeps, InsertRowKeeps,
       ExtendCountKeeps, ExtendUpdateKeeps, CloseKeeps, PublishKeeps,
       DatabaseFailsKeeps
    DEF Answer
  <2> QED
    BY <2>1, <2>2, <2>3 DEF Next
<1> QED
  BY <1>1, <1>2 DEF IInv, Keeps

\* As long as nothing calls activateReservation, what a handler learned before an await is
\* true of its row after it, but for what it raced with: a slot that the overlap query found
\* free meets only reservations whose claims raced with the handler's.
THEOREM InvariantHolds == ASSUME "activate" \notin Wired PROVE Spec => []IInv
<1>1. IInv /\ [Next]_vars => IInv'
  BY NextInv
<1> QED
  BY InitInv, <1>1, PTL DEF Spec

\* As long as nothing calls activateReservation, two live reservations of a lot
\* share an instant only if their claims raced, in every behaviour of the service
\* and for any number of requests.
THEOREM NoUnracedOverlapHolds ==
  ASSUME "activate" \notin Wired PROVE Spec => []NoUnracedOverlap
<1>1. Spec => []IInv
  BY InvariantHolds
<1>2. IInv => NoUnracedOverlap
  BY DEF IInv
<1> QED
  BY <1>1, <1>2, PTL
================================================================================
