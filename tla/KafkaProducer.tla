----------------------------- MODULE KafkaProducer -----------------------------
(***************************************************************************)
(* The path of an event from MS1's use case to a spot of MS2: MS1's process, *)
(* its one Kafka producer, the calls of publishEvent that share it, and       *)
(* ReservationDelivery behind the topic.                                     *)
(*                                                                         *)
(* The producer is the client library's; of it the model has what the code  *)
(* relies on.  It takes a message only while its status is "connected", which *)
(* connect() sets when it succeeds and disconnect() takes back; it sends a    *)
(* message again when the answer of the broker is lost; every call of it ends.*)
(***************************************************************************)
EXTENDS ReservationDelivery

VARIABLES
  service,   \* MS1's process: "off", "up", or "leaving", which is gracefulShutdown
  producer,  \* KafkaConfig.producer: "none", or how far its connection is
  made,      \* the producers this process has made
  call,      \* how far publishEvent is with each event
  retried    \* history: the events that were appended again for want of an answer

process == <<service, producer, made>>
sender == <<process, call, retried>>
pathVars == <<vars, sender>>

\* A call has the producer and is about to use it ("held"), has sent its message, or
\* waits for the answer to a message that the topic has; it has succeeded or thrown.
InFlight == {"held", "sending", "unanswered"}
Ended == {"ok", "failed"}

PathInit ==
  /\ Init
  /\ service = "off" /\ producer = "none" /\ made = 0
  /\ call = [e \in Event |-> "none"]
  /\ retried = {}

Goes(e, to) == call' = [call EXCEPT ![e] = to]

-------------------------------------------------------------------------------
\* KafkaConfig.getProducer: whoever finds no producer makes one and has it connect; a
\* later caller gets it as it is.  Faulty variant: it is kept once it is connected.
GetProducerLate ==
  IF producer \in {"none", "connecting"}
  THEN producer' = "connecting" /\ made' = made + 1
  ELSE UNCHANGED <<producer, made>>

GetProducer ==
  IF producer = "none"
  THEN producer' = "connecting" /\ made' = made + 1
  ELSE UNCHANGED <<producer, made>>

\* startServer: the database is there; the producer is asked for and not waited for.
StartServer ==
  /\ service = "off" /\ service' = "up"
  /\ GetProducer
  /\ UNCHANGED <<vars, call, retried>>

\* connect() succeeds, or has used up its retries, which startServer logs.
ConnectEnds(how) ==
  /\ producer = "connecting" /\ producer' = how
  /\ UNCHANGED <<vars, service, made, call, retried>>

\* gracefulShutdown has the producer disconnect and will exit then.  The server is not
\* closed: requests are taken until the end.
Shutdown ==
  /\ service = "up" /\ service' = "leaving"
  /\ producer' = "disconnecting"
  /\ UNCHANGED <<vars, made, call, retried>>

\* The process is over, by process.exit or by a crash, and with it what it waits for.
Exit ==
  /\ service # "off" /\ service' = "off"
  /\ producer' = "none" /\ made' = 0
  /\ call' = [e \in Event |-> IF call[e] \in InFlight THEN "failed" ELSE call[e]]
  /\ UNCHANGED <<vars, retried>>

-------------------------------------------------------------------------------
\* publishEvent takes the producer.  Every event is published once; a second closure of a
\* reservation would be for MS2 what the first is.
Publish(e) ==
  /\ service # "off" /\ call[e] = "none"
  /\ GetProducer
  /\ Goes(e, "held")
  /\ UNCHANGED <<vars, service, retried>>

\* Faulty variants: an event waits until the producer is connected; a send is not
\* awaited.
HandOverWhenConnected(e) ==
  /\ call[e] = "held" /\ producer = "connected"
  /\ Goes(e, "sending")
  /\ UNCHANGED <<vars, process, retried>>

HandOverAtOnce(e) ==
  /\ call[e] = "held"
  /\ Goes(e, IF producer = "connected" THEN "ok" ELSE "failed")
  /\ UNCHANGED <<vars, process, retried>>

\* producer.send: it throws at once unless the producer is connected.
HandOver(e) ==
  /\ call[e] = "held"
  /\ Goes(e, IF producer = "connected" THEN "sending" ELSE "failed")
  /\ UNCHANGED <<vars, process, retried>>

\* The message reaches the topic.
Arrive(e) ==
  /\ call[e] = "sending"
  /\ Send(e)
  /\ Goes(e, "unanswered")
  /\ UNCHANGED <<process, retried>>

\* The answer is lost and the client, which is not idempotent, sends again.
Retry(e) ==
  /\ call[e] = "unanswered"
  /\ Send(e)
  /\ retried' = retried \cup {e}
  /\ UNCHANGED <<process, call>>

Acknowledged(e) ==
  /\ call[e] = "unanswered"
  /\ Goes(e, "ok")
  /\ UNCHANGED <<vars, process, retried>>

\* Faulty variant: publishEvent starts over when a send has failed.
SendFailsAndResends(e) ==
  /\ call[e] \in {"sending", "unanswered"}
  /\ Goes(e, "held")
  /\ UNCHANGED <<vars, process, retried>>

\* The client's retries are used up: publishEvent throws, and the use case logs it.
SendFails(e) ==
  /\ call[e] \in {"sending", "unanswered"}
  /\ Goes(e, "failed")
  /\ UNCHANGED <<vars, process, retried>>

-------------------------------------------------------------------------------
GoesOn(e) == HandOver(e) \/ Acknowledged(e) \/ SendFails(e)

PathNext ==
  \/ StartServer \/ (\E how \in {"connected", "failed"} : ConnectEnds(how)) \/ Shutdown \/ Exit
  \/ \E e \in Event : Publish(e) \/ Arrive(e) \/ Retry(e) \/ GoesOn(e)
  \/ Consume /\ UNCHANGED sender

PathSpec == PathInit /\ [][PathNext]_pathVars

\* The client ends every connect and every send, MS1's event loop hands over what it
\* holds, and MS2 is as fair as in ReservationDelivery.
PathFairSpec ==
  /\ PathSpec
  /\ WF_pathVars(\E how \in {"connected", "failed"} : ConnectEnds(how))
  /\ \A e \in Event : WF_pathVars(GoesOn(e))
  /\ WF_pathVars(Poll /\ UNCHANGED sender)
  /\ WF_pathVars((Run \/ RunFails) /\ UNCHANGED sender)

-------------------------------------------------------------------------------
Creation(i) == [type |-> "created", id |-> i, spotId |-> NoSpot]

PathTypeOK ==
  /\ TypeOK
  /\ service \in {"off", "up", "leaving"}
  /\ producer \in {"none", "connecting", "connected", "failed", "disconnecting"}
  /\ made \in Nat
  /\ call \in [Event -> {"none"} \cup InFlight \cup Ended]
  /\ retried \subseteq Event

\* A process connects one producer, however many events are published while startServer
\* is still waiting for it.
OneConnection == made <= 1

\* From end to end: a reservation holds two spots only if MS1's client has sent its
\* creation again, or MS2 has crashed or stopped without committing its position.  Neither
\* late answers, failed or concurrent calls, restarts of MS1 nor time-outs in MS2 do that.
TwoSpotsNeedARetry ==
  \A s1, s2 \in Spots :
    s1 # s2 /\ holder[s1] = holder[s2] /\ holder[s1] # Nobody =>
      Creation(holder[s1]) \in retried \/ restarts > 0

\* Every call of publishEvent ends, so that the request which waits for it is answered:
\* with a producer that is not connected, with one that never will be, in a shutdown.
EveryPublishEnds == \A e \in Event : call[e] \in InFlight ~> call[e] \in Ended

\* From end to end: an event that MS1 was told is published is handled by a running
\* consumer, or given up (GiveUp; not always with a word in the log, kafka.py:85), unless
\* the consumer stops.
AcknowledgedIsHandled ==
  \A e \in Event :
    (call[e] = "ok" /\ consumer = "on")
      ~> (consumer = "off" \/ \E n \in handled \cup abandoned : topic[n] = e)

-------------------------------------------------------------------------------
\* The inductive invariant: a process that runs has made its producer; and the creation of
\* a reservation is on the topic at most once, not before its call has sent it, unless
\* the client has sent it again.
ProducerMade ==
  /\ made = IF service = "off" THEN 0 ELSE 1
  /\ producer = "none" <=> service = "off"

SentOnce ==
  \A i \in Ids :
    /\ call[Creation(i)] \in {"none", "held", "sending"} =>
         \A n \in 1..Len(topic) : ~IsCreation(n, i)
    /\ Creation(i) \in retried \/ \A m, n \in 1..Len(topic) :
         IsCreation(m, i) /\ IsCreation(n, i) => m = n

PathIInv ==
  /\ PathTypeOK /\ IInv /\ OneConnection /\ TwoSpotsNeedARetry
  /\ ProducerMade /\ SentOnce

-------------------------------------------------------------------------------
\* What a log message says, and does not hold.

\* index.ts:95 logs "Kafka connection failed (will retry)".
ConnectionRetried ==
  producer = "failed" ~> (producer \in {"connecting", "connected"} \/ service # "up")
================================================================================
