------------------------------ MODULE Gate_proofs ------------------------------
(***************************************************************************)
(* Proofs about Gate, for any number of cars, spots, lots and statistics    *)
(* threads: the composition leaves MS2 a behaviour of its own               *)
(* specification, the barrier opens only on a stored grant, and the answer  *)
(* it decides on is true.                                                   *)
(***************************************************************************)
EXTENDS Gate, SpotAllocation_proofs

-------------------------------------------------------------------------------
\* MS2's part of the composition.  A call is answered for the lot the car asked about.
LEMMA AskedThread ==
  ASSUME GateTypeOK, NEW c \in Cars, gate[c].at # "none"
  PROVE  gate[c] \in Thread /\ gate[c].lot \in Lots
<1>1. gate[c] \in Thread \cup {NoThread}
  BY DEF GateTypeOK
<1>2. gate[c] \in Thread
  BY <1>1 DEF NoThread
<1> QED
  BY <1>2 DEF Thread

LEMMA GateStep == ASSUME GateTypeOK, [GateNext]_allVars PROVE [Next]_vars
<1>1. ASSUME NEW c \in Cars, Answer(c) PROVE [Next]_vars
  <2>1. gate[c].lot \in Lots
    BY <1>1, AskedThread DEF Answer
  <2>2. CheckAvailability(gate[c].lot) \/ UNCHANGED vars
    BY <1>1 DEF Answer
  <2> QED
    BY <2>1, <2>2 DEF Next
<1>2. ASSUME NEW c \in Cars, GoOn(c) PROVE [Next]_vars
  <2>1. Answer(c) \/ UNCHANGED vars
    BY <1>2 DEF GoOn, Save, SaveFails, Publish3, PublishThrows
  <2> QED
    BY <1>1, <2>1
<1>3. ASSUME NEW c \in Cars, NEW lot \in Lots, CallFails(c) \/ Enter(c, lot) \/ Exit(c, lot)
      PROVE  UNCHANGED vars
  BY <1>3 DEF CallFails, Enter, Exit
<1>4. GateStops => UNCHANGED vars
  BY DEF GateStops
<1>5. UNCHANGED allVars => UNCHANGED vars
  BY DEF allVars
<1>6. CASE UNCHANGED vars
  BY <1>6
<1>7. ASSUME NEW c \in Cars, CallFails(c) PROVE UNCHANGED vars
  BY <1>7 DEF CallFails
<1> QED
  BY <1>2, <1>3, <1>4, <1>5, <1>6, <1>7 DEF GateNext

-------------------------------------------------------------------------------
\* The threads.  A thread that moves keeps the rest of what it knows.
LEMMA MoveEffect ==
  ASSUME gate \in [Cars -> Thread \cup {NoThread}], NEW c \in Cars, gate[c] \in Thread,
         NEW at \in Waits \cup Over, Move(c, at)
  PROVE  /\ gate' \in [Cars -> Thread \cup {NoThread}]
         /\ gate'[c].at = at /\ gate'[c].direction = gate[c].direction
         /\ gate'[c].granted = gate[c].granted
         /\ \A d \in Cars \ {c} : gate'[d] = gate[d]
<1>1. gate' = [gate EXCEPT ![c].at = at]
  BY DEF Move
<1>2. gate'[c] = [gate[c] EXCEPT !.at = at] /\ \A d \in Cars \ {c} : gate'[d] = gate[d]
  BY <1>1
<1>3. [gate[c] EXCEPT !.at = at] \in Thread
  BY DEF Thread
<1>4. gate' \in [Cars -> Thread \cup {NoThread}]
  BY <1>1, <1>3
<1> QED
  BY <1>2, <1>4 DEF Thread

\* A car that comes to the barrier, and an answer of MS2.
LEMMA EnterEffect ==
  ASSUME gate \in [Cars -> Thread \cup {NoThread}], NEW c \in Cars, NEW h \in Thread,
         gate' = [gate EXCEPT ![c] = h]
  PROVE  /\ gate' \in [Cars -> Thread \cup {NoThread}]
         /\ gate'[c] = h
         /\ \A d \in Cars \ {c} : gate'[d] = gate[d]
  OBVIOUS

LEMMA AnswerEffect ==
  ASSUME gate \in [Cars -> Thread \cup {NoThread}], NEW c \in Cars, gate[c] \in Thread,
         NEW g \in BOOLEAN,
         gate' = [gate EXCEPT ![c].at = "answered", ![c].granted = g]
  PROVE  /\ gate' \in [Cars -> Thread \cup {NoThread}]
         /\ gate'[c].at = "answered" /\ gate'[c].direction = gate[c].direction
         /\ gate'[c].granted = g
         /\ \A d \in Cars \ {c} : gate'[d] = gate[d]
<1> DEFINE h == [direction |-> gate[c].direction, lot |-> gate[c].lot,
                 at |-> "answered", granted |-> g]
<1>1. h \in Thread
  BY DEF Thread, Waits
<1>2. gate'[c] = h /\ \A d \in Cars \ {c} : gate'[d] = gate[d]
  BY DEF Thread
<1>3. DOMAIN gate' = Cars /\ gate' = [d \in Cars |-> gate'[d]]
  OBVIOUS
<1> HIDE DEF h
<1>4. gate' \in [Cars -> Thread \cup {NoThread}]
  BY <1>1, <1>2, <1>3
<1> QED
  BY <1>2, <1>4 DEF h

-------------------------------------------------------------------------------
\* The log and the topic say nothing new of a car.
SameOutcome(c) ==
  /\ \A row \in LogRow : row.car = c => (row \in log' <=> row \in log)
  /\ \A e \in ParkingEvent : e.car = c => (e \in events' <=> e \in events)

\* A car of which nothing new is said, and whose thread stays, ends or goes to the
\* publication of what is stored.
LEMMA CarKeeps ==
  ASSUME GateTypeOK, log' \subseteq LogRow, NEW c \in Cars,
         CarIsLogged(c), GateStage(c), SameOutcome(c),
         \/ gate'[c] = gate[c]
         \/ gate'[c].at \in {"error", "closed"}
         \/ gate'[c].at = "open" /\ Logged(c, gate'[c].direction, "GRANTED")
         \/ /\ gate'[c].at \in {"asked", "answered", "unavailable"}
            /\ gate[c].at \in {"none", "asked", "answered", "unavailable"}
            /\ gate'[c].at = "asked" => gate'[c].direction = "ENTRY"
            /\ gate'[c].at = "answered" /\ gate'[c].direction = "EXIT" => gate'[c].granted
  PROVE  CarIsLogged(c)' /\ GateStage(c)'
<1>1. ASSUME NEW d \in Directions, NEW st \in {"GRANTED", "DENIED"}
      PROVE  Logged(c, d, st)' <=> Logged(c, d, st)
  <2>1. [car |-> c, direction |-> d, status |-> st] \in LogRow
    BY DEF LogRow
  <2> QED
    BY <2>1 DEF SameOutcome, Logged
<1>2. \A row1, row2 \in log' : row1.car = c /\ row2.car = c => row1 = row2
  BY DEF SameOutcome, CarIsLogged
<1>3. ASSUME NEW type \in {"parking.started", "parking.violation", "parking.completed"}
      PROVE  [car |-> c, type |-> type] \in events' => [car |-> c, type |-> type] \in events
  <2>1. [car |-> c, type |-> type] \in ParkingEvent
    BY DEF ParkingEvent
  <2> QED
    BY <2>1 DEF SameOutcome
<1>4. /\ [car |-> c, type |-> "parking.started"] \in events' => Logged(c, "ENTRY", "GRANTED")'
      /\ [car |-> c, type |-> "parking.violation"] \in events' => Logged(c, "ENTRY", "DENIED")'
      /\ [car |-> c, type |-> "parking.completed"] \in events' => Logged(c, "EXIT", "GRANTED")'
  BY <1>1, <1>3 DEF CarIsLogged, Directions
<1>5. gate[c].at # "none" => gate[c].direction \in Directions
  BY AskedThread DEF Thread
<1>6. CASE gate'[c] = gate[c]
  <2>1. gate[c].at = "saved" \/ gate[c].at = "open" =>
          \A st \in {"GRANTED", "DENIED"} :
            Logged(c, gate[c].direction, st)' <=> Logged(c, gate[c].direction, st)
    BY <1>1, <1>5, <1>6 DEF Logged
  <2>2. CarIsLogged(c)'
    <3>1. gate'[c].at = "open" => Logged(c, gate[c].direction, "GRANTED")'
      BY <1>6, <2>1 DEF CarIsLogged, Logged
    <3> QED
      BY <1>2, <1>4, <3>1 DEF CarIsLogged, Logged
  <2>3. GateStage(c)'
    <3>1. gate'[c].at = "saved" => Logged(c, gate[c].direction, Outcome(c))'
      BY <1>6, <2>1 DEF GateStage, Logged, Outcome
    <3>2. gate'[c].at \in {"none", "asked", "answered", "unavailable"} =>
            \A row \in log' : row.car # c
      BY <1>6 DEF GateStage, SameOutcome
    <3> QED
      BY <1>6, <3>1, <3>2 DEF GateStage, Outcome, Logged
  <2> QED
    BY <2>2, <2>3
<1>7. CASE gate'[c].at \in {"error", "closed"}
  BY <1>2, <1>4, <1>7 DEF CarIsLogged, GateStage, Logged
<1>8. CASE gate'[c].at = "open" /\ Logged(c, gate'[c].direction, "GRANTED")
  <2>1. [car |-> c, direction |-> gate'[c].direction, status |-> "GRANTED"] \in log
    BY <1>8 DEF Logged
  <2>2. [car |-> c, direction |-> gate'[c].direction, status |-> "GRANTED"] \in LogRow
    BY <2>1 DEF GateTypeOK
  <2>3. Logged(c, gate[c].direction, "GRANTED")'
    BY <2>1, <2>2 DEF SameOutcome, Logged
  <2> QED
    BY <1>2, <1>4, <1>8, <2>3 DEF CarIsLogged, GateStage, Logged
<1>9. CASE /\ gate'[c].at \in {"asked", "answered", "unavailable"}
           /\ gate[c].at \in {"none", "asked", "answered", "unavailable"}
           /\ gate'[c].at = "asked" => gate'[c].direction = "ENTRY"
           /\ gate'[c].at = "answered" /\ gate'[c].direction = "EXIT" => gate'[c].granted
  <2>1. \A row \in log' : row.car # c
    BY <1>9 DEF GateStage, SameOutcome
  <2> QED
    BY <1>2, <1>4, <1>9, <2>1 DEF CarIsLogged, GateStage, Logged
<1> QED
  BY <1>6, <1>7, <1>8, <1>9

\* A step at the barrier concerns one car.
LEMMA OneCar ==
  ASSUME GateInv, [GateNext]_allVars, NEW c \in Cars,
         gate' \in [Cars -> Thread \cup {NoThread}], log' \subseteq LogRow,
         events' \subseteq ParkingEvent,
         \A d \in Cars \ {c} : gate'[d] = gate[d] /\ SameOutcome(d),
         CarIsLogged(c)', GateStage(c)'
  PROVE  GateInv'
<1>1. IInv'
  BY GateStep, NextInv DEF GateInv
<1>2. GateTypeOK'
  BY <1>1 DEF GateTypeOK, IInv
<1>3. ASSUME NEW d \in Cars \ {c} PROVE CarIsLogged(d)' /\ GateStage(d)'
  BY CarKeeps DEF GateInv, BarrierIsLogged
<1> QED
  BY <1>1, <1>2, <1>3 DEF GateInv, BarrierIsLogged

LEMMA QuietCars ==
  ASSUME UNCHANGED <<log, events>>
  PROVE  \A d \in Cars : SameOutcome(d)
  BY DEF SameOutcome

\* The car comes, is answered, or finds MS2 unavailable: nothing is stored of it yet.
LEMMA BeforeSave ==
  ASSUME GateInv, [GateNext]_allVars, NEW c \in Cars, UNCHANGED <<log, events>>,
         gate' \in [Cars -> Thread \cup {NoThread}],
         \A d \in Cars \ {c} : gate'[d] = gate[d],
         gate'[c].at \in {"asked", "answered", "unavailable"},
         gate[c].at \in {"none", "asked", "answered", "unavailable"},
         gate'[c].at = "asked" => gate'[c].direction = "ENTRY",
         gate'[c].at = "answered" /\ gate'[c].direction = "EXIT" => gate'[c].granted
  PROVE  GateInv'
<1>1. log' \subseteq LogRow /\ events' \subseteq ParkingEvent
  BY DEF GateInv, GateTypeOK
<1>2. CarIsLogged(c)' /\ GateStage(c)'
  BY <1>1, QuietCars, CarKeeps DEF GateInv, BarrierIsLogged
<1> QED
  BY <1>1, <1>2, QuietCars, OneCar

LEMMA EnterKeeps ==
  ASSUME GateInv, [GateNext]_allVars, NEW c \in Cars, NEW lot \in Lots, Enter(c, lot)
  PROVE  GateInv'
<1> DEFINE h == [direction |-> "ENTRY", lot |-> lot, at |-> "asked", granted |-> FALSE]
<1>1. h \in Thread
  BY DEF Thread, Directions, Waits
<1>2. gate[c].at = "none" /\ gate' = [gate EXCEPT ![c] = h] /\ UNCHANGED <<log, events>>
  BY DEF Enter, NoThread
<1>3. h.at = "asked" /\ h.direction = "ENTRY"
  OBVIOUS
<1> HIDE DEF h
<1>4. /\ gate' \in [Cars -> Thread \cup {NoThread}] /\ gate'[c] = h
      /\ \A d \in Cars \ {c} : gate'[d] = gate[d]
  BY <1>1, <1>2, EnterEffect DEF GateInv, GateTypeOK
<1> QED
  BY <1>2, <1>3, <1>4, BeforeSave

LEMMA ExitKeeps ==
  ASSUME GateInv, [GateNext]_allVars, NEW c \in Cars, NEW lot \in Lots, Exit(c, lot)
  PROVE  GateInv'
<1> DEFINE h == [direction |-> "EXIT", lot |-> lot, at |-> "answered", granted |-> TRUE]
<1>1. h \in Thread
  BY DEF Thread, Directions, Waits
<1>2. gate[c].at = "none" /\ gate' = [gate EXCEPT ![c] = h] /\ UNCHANGED <<log, events>>
  BY DEF Exit, NoThread
<1>3. h.at = "answered" /\ h.granted
  OBVIOUS
<1> HIDE DEF h
<1>4. /\ gate' \in [Cars -> Thread \cup {NoThread}] /\ gate'[c] = h
      /\ \A d \in Cars \ {c} : gate'[d] = gate[d]
  BY <1>1, <1>2, EnterEffect DEF GateInv, GateTypeOK
<1> QED
  BY <1>2, <1>3, <1>4, BeforeSave

\* An answer only fills in whether a place is offered.
LEMMA AnswerSets ==
  ASSUME GateTypeOK, NEW c \in Cars, Answer(c)
  PROVE  /\ gate' \in [Cars -> Thread \cup {NoThread}]
         /\ gate[c].at = "asked" /\ gate[c] \in Thread
         /\ gate'[c].at = "answered" /\ gate'[c].direction = gate[c].direction
         /\ gate'[c].granted <=> Offered(gate[c].lot) > 0
         /\ \A d \in Cars \ {c} : gate'[d] = gate[d]
<1> DEFINE g == Offered(gate[c].lot) > 0
<1>1. gate[c].at = "asked" /\ gate[c] \in Thread
  BY AskedThread DEF Answer
<1>2. gate' = [gate EXCEPT ![c].at = "answered", ![c].granted = g]
  BY DEF Answer
<1>3. g \in BOOLEAN
  OBVIOUS
<1> HIDE DEF g
<1>4. /\ gate' \in [Cars -> Thread \cup {NoThread}]
      /\ gate'[c].at = "answered" /\ gate'[c].direction = gate[c].direction
      /\ gate'[c].granted = g
      /\ \A d \in Cars \ {c} : gate'[d] = gate[d]
  BY <1>1, <1>2, <1>3, AnswerEffect DEF GateTypeOK
<1>5. gate'[c].granted <=> Offered(gate[c].lot) > 0
  <2>1. gate'[c].granted <=> g
    BY <1>3, <1>4, Zenon
  <2> QED
    BY <2>1 DEF g
<1> QED
  BY <1>1, <1>4, <1>5

LEMMA AnswerKeeps ==
  ASSUME GateInv, [GateNext]_allVars, NEW c \in Cars, Answer(c) PROVE GateInv'
<1>1. /\ gate' \in [Cars -> Thread \cup {NoThread}]
      /\ gate[c].at = "asked"
      /\ gate'[c].at = "answered" /\ gate'[c].direction = gate[c].direction
      /\ \A d \in Cars \ {c} : gate'[d] = gate[d]
  BY AnswerSets DEF GateInv
<1>2. gate[c].direction = "ENTRY"
  BY <1>1 DEF GateInv, GateStage
<1>3. UNCHANGED <<log, events>>
  BY DEF Answer
<1> QED
  BY <1>1, <1>2, <1>3, BeforeSave

LEMMA CallFailsKeeps ==
  ASSUME GateInv, [GateNext]_allVars, NEW c \in Cars, CallFails(c) PROVE GateInv'
<1>1. gate[c] \in Thread /\ gate[c].at = "asked" /\ Move(c, "unavailable")
  BY AskedThread DEF CallFails, GateInv
<1>2. /\ gate' \in [Cars -> Thread \cup {NoThread}]
      /\ gate'[c].at = "unavailable"
      /\ \A d \in Cars \ {c} : gate'[d] = gate[d]
  BY <1>1, MoveEffect DEF GateInv, GateTypeOK, Waits
<1> QED
  BY <1>1, <1>2, BeforeSave DEF CallFails

\* The outcome is stored: the first row of the car.
LEMMA SaveKeeps ==
  ASSUME GateInv, [GateNext]_allVars, NEW c \in Cars, Save(c) PROVE GateInv'
<1> DEFINE row == [car |-> c, direction |-> gate[c].direction, status |-> Outcome(c)]
<1>1. gate[c] \in Thread /\ gate[c].at \in {"answered", "unavailable"}
  BY AskedThread DEF Save, GateInv
<1>2. PICK at \in {"saved", "closed"} :
        Move(c, at) /\ (at = "saved" => gate[c].at = "answered")
  BY DEF Save
<1>3. /\ gate' \in [Cars -> Thread \cup {NoThread}]
      /\ gate'[c].at = at /\ gate'[c].direction = gate[c].direction
      /\ gate'[c].granted = gate[c].granted
      /\ \A d \in Cars \ {c} : gate'[d] = gate[d]
  BY <1>1, <1>2, MoveEffect DEF GateInv, GateTypeOK, Waits, Over
<1>4. row \in LogRow
  BY <1>1 DEF LogRow, Outcome, Thread
<1>5. log' = log \cup {row} /\ UNCHANGED events
  BY DEF Save, Outcome
<1>6. log' \subseteq LogRow /\ events' \subseteq ParkingEvent
  BY <1>4, <1>5 DEF GateInv, GateTypeOK
<1>7. \A d \in Cars \ {c} : SameOutcome(d)
  BY <1>5 DEF SameOutcome
<1>8. \A old \in log : old.car # c
  BY <1>1 DEF GateInv, GateStage
<1>9. CarIsLogged(c)'
  <2>1. ASSUME NEW type,
               [car |-> c, type |-> type] \in events,
               type \in {"parking.started", "parking.violation", "parking.completed"}
        PROVE  FALSE
    <3>1. \E d, st : Logged(c, d, st)
      BY <2>1 DEF GateInv, BarrierIsLogged, CarIsLogged
    <3> QED
      BY <1>8, <3>1 DEF Logged
  <2>2. \A row1, row2 \in log' : row1.car = c /\ row2.car = c => row1 = row2
    BY <1>5, <1>8
  <2>3. gate'[c].at # "open"
    BY <1>3
  <2> QED
    BY <1>5, <2>1, <2>2, <2>3 DEF CarIsLogged
<1>10. GateStage(c)'
  <2>1. Logged(c, gate[c].direction, Outcome(c))'
    BY <1>3, <1>5 DEF Logged, Outcome
  <2>2. gate'[c].at = "saved" /\ gate'[c].direction = "EXIT" => gate'[c].granted
    BY <1>2, <1>3 DEF GateInv, GateStage
  <2> QED
    BY <1>2, <1>3, <2>1, <2>2 DEF GateStage
<1> QED
  BY <1>3, <1>6, <1>7, <1>9, <1>10, OneCar

\* What is stored is published, and the car answered ...
LEMMA PublishKeeps3 ==
  ASSUME GateInv, [GateNext]_allVars, NEW c \in Cars, Publish3(c) PROVE GateInv'
<1> DEFINE event == [car |-> c, type |-> TypeOfEvent(c)]
<1>1. gate[c] \in Thread /\ gate[c].at = "saved"
  BY AskedThread DEF Publish3, GateInv
<1>2. PICK at \in {"open", "closed"} :
        Move(c, at) /\ (at = "open" => gate[c].granted)
  BY DEF Publish3
<1>3. /\ gate' \in [Cars -> Thread \cup {NoThread}]
      /\ gate'[c].at = at /\ gate'[c].direction = gate[c].direction
      /\ \A d \in Cars \ {c} : gate'[d] = gate[d]
  BY <1>1, <1>2, MoveEffect DEF GateInv, GateTypeOK, Waits, Over
<1>4. TypeOfEvent(c) \in {"parking.started", "parking.violation", "parking.completed"}
  BY DEF TypeOfEvent
<1>5. /\ Logged(c, gate[c].direction, Outcome(c))
      /\ gate[c].direction = "EXIT" => gate[c].granted
      /\ gate[c].direction \in {"ENTRY", "EXIT"}
  BY <1>1 DEF GateInv, GateStage, Thread, Directions
<1>6. /\ UNCHANGED log /\ events \subseteq events' /\ events' \subseteq events \cup {event}
  BY DEF Publish3
<1>7. log' \subseteq LogRow /\ events' \subseteq ParkingEvent
  BY <1>4, <1>6 DEF GateInv, GateTypeOK, ParkingEvent
<1>8. \A d \in Cars \ {c} : SameOutcome(d)
  BY <1>6 DEF SameOutcome
<1>9. /\ TypeOfEvent(c) = "parking.started" => Logged(c, "ENTRY", "GRANTED")
      /\ TypeOfEvent(c) = "parking.violation" => Logged(c, "ENTRY", "DENIED")
      /\ TypeOfEvent(c) = "parking.completed" => Logged(c, "EXIT", "GRANTED")
  <2>1. CASE gate[c].direction = "EXIT"
    <3>1. TypeOfEvent(c) = "parking.completed"
      BY <2>1 DEF TypeOfEvent
    <3>2. Outcome(c) = "GRANTED"
      BY <1>5, <2>1 DEF Outcome
    <3> QED
      BY <1>5, <2>1, <3>1, <3>2
  <2>2. CASE gate[c].direction = "ENTRY" /\ gate[c].granted
    <3>1. TypeOfEvent(c) = "parking.started"
      BY <2>2 DEF TypeOfEvent
    <3>2. Outcome(c) = "GRANTED"
      BY <2>2 DEF Outcome
    <3> QED
      BY <1>5, <2>2, <3>1, <3>2
  <2>3. CASE gate[c].direction = "ENTRY" /\ ~gate[c].granted
    <3>1. TypeOfEvent(c) = "parking.violation"
      BY <2>3 DEF TypeOfEvent
    <3>2. Outcome(c) = "DENIED"
      BY <2>3 DEF Outcome
    <3> QED
      BY <1>5, <2>3, <3>1, <3>2
  <2> QED
    BY <1>5, <2>1, <2>2, <2>3
<1>10. CarIsLogged(c)'
  <2>1. CarIsLogged(c)
    BY DEF GateInv, BarrierIsLogged
  <2>2. gate'[c].at = "open" => Logged(c, gate[c].direction, "GRANTED")'
    BY <1>2, <1>3, <1>5, <1>6 DEF Outcome, Logged
  <2>3. ASSUME NEW type, [car |-> c, type |-> type] \in events'
        PROVE  [car |-> c, type |-> type] \in events \/ type = TypeOfEvent(c)
    BY <1>6, <2>3
  <2> QED
    BY <1>6, <1>9, <2>1, <2>2, <2>3 DEF CarIsLogged, Logged
<1>11. GateStage(c)'
  BY <1>2, <1>3 DEF GateStage
<1> QED
  BY <1>3, <1>7, <1>8, <1>10, <1>11, OneCar

\* ... or the request ends in an error, with what was stored of it or without.
LEMMA ErrorKeeps ==
  ASSUME GateInv, [GateNext]_allVars, NEW c \in Cars, SaveFails(c) \/ PublishThrows(c)
  PROVE  GateInv'
<1>1. gate[c] \in Thread /\ Move(c, "error") /\ UNCHANGED <<log, events>>
  BY AskedThread DEF SaveFails, PublishThrows, GateInv
<1>2. /\ gate' \in [Cars -> Thread \cup {NoThread}]
      /\ gate'[c].at = "error"
      /\ \A d \in Cars \ {c} : gate'[d] = gate[d]
  BY <1>1, MoveEffect DEF GateInv, GateTypeOK, Over
<1>3. log' \subseteq LogRow /\ events' \subseteq ParkingEvent
  BY <1>1 DEF GateInv, GateTypeOK
<1>4. CarIsLogged(c)' /\ GateStage(c)'
  BY <1>1, <1>2, <1>3, QuietCars, CarKeeps DEF GateInv, BarrierIsLogged
<1> QED
  BY <1>1, <1>2, <1>3, <1>4, QuietCars, OneCar

\* MS3 stops, or MS2 goes on by itself.
LEMMA NoCarKeeps ==
  ASSUME GateInv, [GateNext]_allVars, GateStops \/ UNCHANGED gateVars
  PROVE  GateInv'
<1>1. UNCHANGED <<log, events>>
  BY DEF GateStops, gateVars
<1>2. log' \subseteq LogRow /\ events' \subseteq ParkingEvent
  BY <1>1 DEF GateInv, GateTypeOK
<1>3. ASSUME NEW c \in Cars
      PROVE  /\ gate'[c] \in Thread \cup {NoThread}
             /\ gate'[c] = gate[c] \/ gate'[c].at = "error"
  <2>1. gate[c] \in Thread \cup {NoThread}
    BY DEF GateInv, GateTypeOK
  <2>2. \/ gate'[c] = gate[c]
        \/ gate[c].at \in Waits /\ gate'[c] = [gate[c] EXCEPT !.at = "error"]
    <3>1. CASE GateStops
      <4>1. gate' = [d \in Cars |-> IF gate[d].at \in Waits
                                    THEN [gate[d] EXCEPT !.at = "error"] ELSE gate[d]]
        BY <3>1 DEF GateStops
      <4> QED
        BY <4>1
    <3>2. CASE UNCHANGED gateVars
      BY <3>2 DEF gateVars
    <3> QED
      BY <3>1, <3>2
  <2>3. ASSUME gate[c].at \in Waits, gate'[c] = [gate[c] EXCEPT !.at = "error"]
        PROVE  gate'[c] \in Thread /\ gate'[c].at = "error"
    <3>1. gate[c] \in Thread
      BY <2>1, <2>3 DEF NoThread, Waits
    <3> QED
      BY <2>3, <3>1 DEF Thread, Over
  <2> QED
    BY <2>1, <2>2, <2>3
<1>4. gate' \in [Cars -> Thread \cup {NoThread}]
  <2>1. DOMAIN gate' = Cars /\ gate' = [c \in Cars |-> gate'[c]]
    <3>1. CASE GateStops
      BY <3>1 DEF GateStops
    <3>2. CASE UNCHANGED gateVars
      BY <3>2 DEF gateVars, GateInv, GateTypeOK
    <3> QED
      BY <3>1, <3>2
  <2> QED
    BY <1>3, <2>1
<1>5. IInv' /\ GateTypeOK'
  <2>1. IInv'
    BY GateStep, NextInv DEF GateInv
  <2> QED
    BY <1>2, <1>4, <2>1 DEF GateTypeOK, IInv
<1>6. ASSUME NEW c \in Cars PROVE CarIsLogged(c)' /\ GateStage(c)'
  BY <1>1, <1>2, <1>3, QuietCars, CarKeeps DEF GateInv, BarrierIsLogged
<1> QED
  BY <1>5, <1>6 DEF GateInv, BarrierIsLogged

LEMMA GateInitInv == GateInit => GateInv
<1> SUFFICES ASSUME GateInit PROVE GateInv
  OBVIOUS
<1>1. IInv /\ TypeOK
  BY InitInv DEF GateInit, IInv
<1>2. GateTypeOK
  BY <1>1 DEF GateInit, GateTypeOK
<1>3. ASSUME NEW c \in Cars PROVE CarIsLogged(c) /\ GateStage(c)
  BY DEF GateInit, CarIsLogged, GateStage, NoThread
<1> QED
  BY <1>1, <1>2, <1>3 DEF GateInv, BarrierIsLogged

LEMMA GateNextInv == GateInv /\ [GateNext]_allVars => GateInv'
<1> SUFFICES ASSUME GateInv, [GateNext]_allVars PROVE GateInv'
  OBVIOUS
<1>1. CASE UNCHANGED allVars
  BY <1>1, NoCarKeeps DEF allVars
<1> QED
  BY <1>1, EnterKeeps, ExitKeeps, AnswerKeeps, CallFailsKeeps, SaveKeeps, PublishKeeps3,
     ErrorKeeps, NoCarKeeps
  DEF GateNext, GoOn

\* Nothing is stored of a car before its outcome, then that outcome and no other, whatever
\* MS2 does meanwhile, which call fails and when MS3 stops.
THEOREM GateInvariance == GateSpec => []GateInv
  BY GateInitInv, GateNextInv, PTL DEF GateSpec

-------------------------------------------------------------------------------
\* The threads at the barrier, the log and the events, and all of MS2's state, always
\* have their types.
THEOREM GateTypeCorrect == GateSpec => []GateTypeOK
<1>1. GateInv => GateTypeOK
  BY DEF GateInv
<1> QED
  BY <1>1, GateInvariance, PTL

\* The barrier opens only on a stored grant, an event of the gate tells what is stored of
\* its car, and a car has one outcome, for any number of cars and any failure of a call,
\* of the database, of Kafka or of MS3 itself.
THEOREM BarrierIsLoggedHolds == GateSpec => []BarrierIsLogged
<1>1. GateInv => BarrierIsLogged
  BY DEF GateInv
<1> QED
  BY <1>1, GateInvariance, PTL

\* An answer is true: MS2 answers between two handlers, from a count or from an entry that
\* is one unless it is tainted.
LEMMA AnswerTrue ==
  ASSUME GateInv, NEW c \in Cars, Answer(c),
         ~(HasEntry(gate[c].lot) /\ gate[c].lot \in tainted)
  PROVE  gate'[c].granted <=> \E s \in Spots : FirstAvailable(gate[c].lot, s)
<1> DEFINE lot == gate[c].lot
<1>1. gate[c].at = "asked" /\ lot \in Lots
  BY AskedThread DEF Answer, GateInv
<1>2. gate'[c].granted <=> Offered(lot) > 0
  BY AnswerSets DEF GateInv
<1>3. ~Changing(lot)
  BY DEF Answer, CheckAvailability, Changing, Idle
<1>4. Offered(lot) = Calculate(lot).available
  <2>1. CASE HasEntry(lot)
    <3>1. cache[lot] # NoEntry /\ lot \notin tainted
      BY <2>1 DEF HasEntry
    <3>2. cache[lot] = Calculate(lot)
      BY <1>1, <1>3, <3>1 DEF GateInv, IInv, CacheTrue
    <3> QED
      BY <2>1, <3>2 DEF Offered
  <2> QED
    BY <2>1 DEF Offered
<1>5. Calculate(lot).available > 0 <=> \E s \in Spots : FirstAvailable(lot, s)
  BY <1>1, PlacesLeft
<1> QED
  BY <1>2, <1>4, <1>5

\* Nothing but an answer takes a car from its question to a decision.
LEMMA OnlyAnswers ==
  ASSUME GateInv, [GateNext]_allVars, NEW c \in Cars,
         gate[c].at = "asked", gate'[c].at = "answered"
  PROVE  Answer(c)
<1>1. gate'[c] # gate[c]
  OBVIOUS
<1>2. gate \in [Cars -> Thread \cup {NoThread}] /\ gate[c] \in Thread
  BY AskedThread DEF GateInv, GateTypeOK
<1>3. ~GateStops
  <2>1. [gate[c] EXCEPT !.at = "error"].at = "error"
    BY <1>2 DEF Thread
  <2> QED
    BY <2>1 DEF GateStops, Waits
<1>4. ASSUME NEW d \in Cars, NEW lot \in Lots PROVE ~Enter(d, lot) /\ ~Exit(d, lot)
  BY <1>1, <1>2 DEF Enter, Exit, NoThread
<1>5. ASSUME NEW d \in Cars, CallFails(d) PROVE FALSE
  <2>1. gate' = [gate EXCEPT ![d] = [gate[d] EXCEPT !.at = "unavailable"]]
    BY <1>5 DEF CallFails, Move
  <2>2. gate'[c] = [gate[c] EXCEPT !.at = "unavailable"]
    BY <1>1, <1>2, <2>1
  <2> QED
    BY <1>2, <2>2 DEF Thread
<1>6. ASSUME NEW d \in Cars, d # c, Answer(d) PROVE FALSE
  BY <1>1, <1>6, AnswerSets DEF GateInv
<1>7. ASSUME NEW d \in Cars, NEW at, Move(d, at), gate[d].at # "asked" PROVE FALSE
  <2>1. gate' = [gate EXCEPT ![d].at = at] /\ d # c
    BY <1>7 DEF Move
  <2> QED
    BY <1>1, <2>1
<1>8. ASSUME NEW d \in Cars, GoOn(d) PROVE Answer(c)
  <2>1. CASE Answer(d)
    BY <1>6, <2>1
  <2>2. CASE Save(d)
    BY <1>7, <2>2 DEF Save
  <2>3. CASE SaveFails(d) \/ PublishThrows(d)
    BY <1>7, <2>3 DEF SaveFails, PublishThrows
  <2>4. CASE Publish3(d)
    BY <1>7, <2>4 DEF Publish3
  <2> QED
    BY <1>8, <2>1, <2>2, <2>3, <2>4 DEF GoOn
<1>9. ~UNCHANGED gateVars /\ ~UNCHANGED allVars
  BY <1>1 DEF gateVars, allVars
<1> QED
  BY <1>3, <1>4, <1>5, <1>8, <1>9 DEF GateNext

\* Entry is granted if and only if a spot can be reserved at the instant of the answer,
\* hit or miss, unless a known gap has left the entry stale; for any number of cars, spots,
\* lots and statistics threads.
THEOREM GrantIsTrueHolds == GateSpec => GrantIsTrue
<1>1. ASSUME GateInv, [GateNext]_allVars, NEW c \in Cars,
             gate[c].at = "asked", gate'[c].at = "answered"
      PROVE  LET lot == gate[c].lot IN
               \/ HasEntry(lot) /\ lot \in tainted
               \/ gate'[c].granted <=> \E s \in Spots : FirstAvailable(lot, s)
  BY <1>1, OnlyAnswers, AnswerTrue
<1>2. GateInv /\ [GateNext]_allVars =>
        [\A c \in Cars :
           gate[c].at = "asked" /\ gate'[c].at = "answered" =>
             LET lot == gate[c].lot IN
               \/ HasEntry(lot) /\ lot \in tainted
               \/ gate'[c].granted <=> \E s \in Spots : FirstAvailable(lot, s)]_allVars
  BY <1>1
<1> QED
  BY <1>2, GateInvariance, PTL DEF GateSpec, GrantIsTrue

\* The barrier is a client like any other: whatever it does, MS2 behaves as it does alone,
\* so that what is proved of SpotAllocation holds of the composition.
THEOREM GateKeepsSpotAllocation == GateSpec => Spec
<1>1. GateInit => Init
  BY DEF GateInit
<1>2. GateInv /\ [GateNext]_allVars => [Next]_vars
  BY GateStep DEF GateInv
<1> QED
  BY <1>1, <1>2, GateInvariance, PTL DEF GateSpec, Spec
==============================================================================
