--------------------------------- MODULE Gate ---------------------------------
(***************************************************************************)
(* MS3 at the barrier, composed with MS2: a request for entry asks MS2 by    *)
(* gRPC for the availability of the lot, stores the outcome, publishes an    *)
(* event and answers; a request for exit stores, publishes and answers.      *)
(* The requests run in threads of their own and interleave with one another  *)
(* and with everything MS2 does.                                            *)
(***************************************************************************)
EXTENDS SpotAllocation

CONSTANT Cars  \* requests at the barrier, each made once

VARIABLES
  gate,   \* the threads serving the requests
  log,    \* table validation_logs
  events  \* the topic "parking-events"

gateVars == <<gate, log, events>>
allVars == <<vars, gateVars>>

Directions == {"ENTRY", "EXIT"}
Waits == {"asked", "answered", "unavailable", "saved"}
Over == {"open", "closed", "error"}

\* A thread: what it was asked, how far it is, and whether access is granted.
Thread == [direction : Directions, lot : Lots, at : Waits \cup Over, granted : BOOLEAN]
NoThread == [at |-> "none"]

LogRow == [car : Cars, direction : Directions, status : {"GRANTED", "DENIED"}]
ParkingEvent == [car : Cars, type : {"parking.started", "parking.violation", "parking.completed"}]

GateInit ==
  /\ Init
  /\ gate = [c \in Cars |-> NoThread]
  /\ log = {}
  /\ events = {}

Move(c, at) == gate' = [gate EXCEPT ![c].at = at]

-------------------------------------------------------------------------------
\* validateEntry calls MS2 ...
Enter(c, lot) ==
  /\ gate[c] = NoThread
  /\ gate' = [gate EXCEPT ![c] = [direction |-> "ENTRY", lot |-> lot, at |-> "asked",
                                  granted |-> FALSE]]
  /\ UNCHANGED <<vars, log, events>>

\* get_availability: the cached entry, or the count.
HasEntry(lot) == cacheOn /\ cache[lot] # NoEntry
Offered(lot) == IF HasEntry(lot) THEN cache[lot].available ELSE Calculate(lot).available

\* Faulty variant: an answer comes from the cache only.
AnswerFromCache(c) ==
  /\ gate[c].at = "asked" /\ HasEntry(gate[c].lot)
  /\ loop = Idle /\ UNCHANGED vars
  /\ gate' = [gate EXCEPT ![c].at = "answered", ![c].granted = Offered(gate[c].lot) > 0]
  /\ UNCHANGED <<log, events>>

\* Faulty variant: the lot's total decides, not what is left of it.
AnswerTotal(c) ==
  /\ gate[c].at = "asked"
  /\ loop = Idle /\ UNCHANGED vars
  /\ gate' = [gate EXCEPT ![c].at = "answered", ![c].granted = SpotsOf(gate[c].lot) # {}]
  /\ UNCHANGED <<log, events>>

\* ... whose event loop answers when no handler is running, and fills the cache ...
Answer(c) ==
  /\ gate[c].at = "asked"
  /\ \/ cacheOn /\ CheckAvailability(gate[c].lot)
     \/ /\ loop = Idle /\ (cacheOn => HasEntry(gate[c].lot))
        /\ UNCHANGED vars
  /\ gate' = [gate EXCEPT ![c].at = "answered", ![c].granted = Offered(gate[c].lot) > 0]
  /\ UNCHANGED <<log, events>>

\* ... or the call fails: a database or Redis error in MS2, a restart of MS2.
CallFails(c) ==
  /\ gate[c].at = "asked"
  /\ Move(c, "unavailable")
  /\ UNCHANGED <<vars, log, events>>

\* validateExit asks nobody: exit is granted, to a car that never entered as well.
Exit(c, lot) ==
  /\ gate[c] = NoThread
  /\ gate' = [gate EXCEPT ![c] = [direction |-> "EXIT", lot |-> lot, at |-> "answered",
                                  granted |-> TRUE]]
  /\ UNCHANGED <<vars, log, events>>

\* saveValidation commits the outcome.  Without an answer of MS2 entry is denied, and
\* that is the end: no event is sent.
Save(c) ==
  /\ gate[c].at \in {"answered", "unavailable"}
  /\ log' = log \cup {[car |-> c, direction |-> gate[c].direction,
                       status |-> IF gate[c].granted THEN "GRANTED" ELSE "DENIED"]}
  /\ Move(c, IF gate[c].at = "answered" THEN "saved" ELSE "closed")
  /\ UNCHANGED <<vars, events>>

\* Faulty variant: the event is sent although the outcome could not be stored.
SaveFailsQuietly(c) ==
  /\ gate[c].at \in {"answered", "unavailable"}
  /\ Move(c, "saved")
  /\ UNCHANGED <<vars, log, events>>

SaveFails(c) ==
  /\ gate[c].at \in {"answered", "unavailable"}
  /\ Move(c, "error")
  /\ UNCHANGED <<vars, log, events>>

TypeOfEvent(c) ==
  IF gate[c].direction = "EXIT" THEN "parking.completed"
  ELSE IF gate[c].granted THEN "parking.started" ELSE "parking.violation"

\* The event is handed to the producer, whose future nobody looks at: the car is
\* answered whether the event gets through or not ...
Publish3(c) ==
  /\ gate[c].at = "saved"
  /\ events' \in {events, events \cup {[car |-> c, type |-> TypeOfEvent(c)]}}
  /\ Move(c, IF gate[c].granted THEN "open" ELSE "closed")
  /\ UNCHANGED <<vars, log>>

\* ... unless the producer does not take it; then the request ends with an error.
PublishThrows(c) ==
  /\ gate[c].at = "saved"
  /\ Move(c, "error")
  /\ UNCHANGED <<vars, log, events>>

\* MS3 stops; its requests in flight are lost.
GateStops ==
  /\ \E c \in Cars : gate[c].at \in Waits
  /\ gate' = [c \in Cars |-> IF gate[c].at \in Waits THEN [gate[c] EXCEPT !.at = "error"]
                             ELSE gate[c]]
  /\ UNCHANGED <<vars, log, events>>

-------------------------------------------------------------------------------
GoOn(c) == Answer(c) \/ Save(c) \/ SaveFails(c) \/ Publish3(c) \/ PublishThrows(c)

GateNext ==
  \/ Next /\ UNCHANGED gateVars
  \/ GateStops
  \/ \E c \in Cars : GoOn(c) \/ CallFails(c) \/ \E lot \in Lots : Enter(c, lot) \/ Exit(c, lot)

GateSpec == GateInit /\ [][GateNext]_allVars

\* MS2's loop and threads run on, and Redis keeps to its time to live.  The loop serves
\* what is ready in the order in which it became so: a call gets its turn although
\* handlers keep coming.
GateFairSpec ==
  /\ GateSpec
  /\ WF_allVars(Finish /\ UNCHANGED gateVars)
  /\ \A t \in Threads : WF_allVars(Stats(t) /\ UNCHANGED gateVars)
  /\ \A lot \in Lots : WF_allVars(Expire(lot) /\ UNCHANGED gateVars)
  /\ \A c \in Cars : SF_allVars(GoOn(c))

-------------------------------------------------------------------------------
GateTypeOK ==
  /\ TypeOK
  /\ gate \in [Cars -> Thread \cup {NoThread}]
  /\ log \subseteq LogRow
  /\ events \subseteq ParkingEvent

Logged(c, direction, status) == [car |-> c, direction |-> direction, status |-> status] \in log

CarIsLogged(c) ==
  /\ gate[c].at = "open" => Logged(c, gate[c].direction, "GRANTED")
  /\ [car |-> c, type |-> "parking.started"] \in events => Logged(c, "ENTRY", "GRANTED")
  /\ [car |-> c, type |-> "parking.violation"] \in events => Logged(c, "ENTRY", "DENIED")
  /\ [car |-> c, type |-> "parking.completed"] \in events => Logged(c, "EXIT", "GRANTED")
  /\ \A row1, row2 \in log : row1.car = c /\ row2.car = c => row1 = row2

\* The barrier opens only on a stored grant, and an event of the gate only tells what
\* is stored of the same car; a car has one outcome.
BarrierIsLogged == \A c \in Cars : CarIsLogged(c)

\* The answer that the gate decides on is right at the instant it is given, hit or
\* miss, whatever handlers and statistics threads are at, unless one of the known gaps
\* has left the entry stale: entry is granted if and only if a spot can be reserved.
GrantIsTrue ==
  [][\A c \in Cars :
       gate[c].at = "asked" /\ gate'[c].at = "answered" =>
         LET lot == gate[c].lot IN
           \/ HasEntry(lot) /\ lot \in tainted
           \/ gate'[c].granted <=> \E s \in Spots : FirstAvailable(lot, s)]_allVars

\* Every request at the barrier is answered.  (The call has no deadline: that it ends
\* is MS2's doing.)
EveryCarIsAnswered ==
  \A c \in Cars : gate[c].at \in Waits ~> gate[c].at \in Over

-------------------------------------------------------------------------------
\* The inductive invariant: nothing is stored of a car before its outcome is, then the
\* outcome of its thread and nothing else; exit asks nobody and is never denied.
Outcome(c) == IF gate[c].granted THEN "GRANTED" ELSE "DENIED"

GateStage(c) ==
  /\ gate[c].at \in {"none", "asked", "answered", "unavailable"} =>
       \A row \in log : row.car # c
  /\ gate[c].at = "saved" => Logged(c, gate[c].direction, Outcome(c))
  /\ gate[c].at = "asked" => gate[c].direction = "ENTRY"
  /\ gate[c].at \in {"answered", "saved"} /\ gate[c].direction = "EXIT" => gate[c].granted

GateInv ==
  /\ IInv
  /\ GateTypeOK
  /\ BarrierIsLogged
  /\ \A c \in Cars : GateStage(c)
===============================================================================
