------------------------- MODULE KafkaProducer_proofs -------------------------
(***************************************************************************)
(* Proofs about KafkaProducer, for any reservations, spots and bounds: the   *)
(* path is an implementation of ReservationDelivery, so that what is proved  *)
(* there holds here, and PathIInv is an invariant.                           *)
(***************************************************************************)
EXTENDS KafkaProducer, ReservationDelivery_proofs

-------------------------------------------------------------------------------
\* A step of the path is one of ReservationDelivery or leaves its variables alone: MS1
\* appends to the topic and does nothing else to it.
LEMMA StepImplements == [PathNext]_pathVars => [Next]_vars
<1> SUFFICES ASSUME [PathNext]_pathVars PROVE [Next]_vars
  OBVIOUS
<1>1. CASE UNCHANGED pathVars
  BY <1>1 DEF pathVars
<1>2. CASE \/ StartServer \/ Shutdown \/ Exit
           \/ \E how \in {"connected", "failed"} : ConnectEnds(how)
  BY <1>2 DEF StartServer, ConnectEnds, Shutdown, Exit
<1>3. ASSUME NEW e \in Event, Publish(e) \/ GoesOn(e)
      PROVE  UNCHANGED vars
  BY <1>3 DEF Publish, GoesOn, HandOver, Acknowledged, SendFails
<1>4. ASSUME NEW e \in Event, Arrive(e) \/ Retry(e)
      PROVE  Next
  BY <1>4 DEF Arrive, Retry, Next
<1>5. CASE Consume /\ UNCHANGED sender
  BY <1>5 DEF Next
<1> QED
  BY <1>1, <1>2, <1>3, <1>4, <1>5 DEF PathNext

\* The path from MS1's use cases to MS2's spots implements ReservationDelivery: whatever
\* MS1's process does with its producer is, to MS2, an event that arrives or nothing.
THEOREM ImplementsDelivery == PathSpec => Spec
<1>1. PathInit => Init
  BY DEF PathInit
<1> QED
  BY <1>1, StepImplements, PTL DEF PathSpec, Spec

-------------------------------------------------------------------------------
\* Nothing that has been put on the topic changes, and an arrival adds one event.
LEMMA TopicGrows ==
  ASSUME TypeOK, NEW e \in Event, Send(e)
  PROVE  /\ topic' \in Seq(Event) /\ Len(topic) \in Nat
         /\ Len(topic') = Len(topic) + 1
         /\ topic'[Len(topic) + 1] = e
         /\ \A n \in 1..Len(topic) : topic'[n] = topic[n]
  BY DEF TypeOK, Send

LEMMA CreationEvent == \A i \in Ids : Creation(i) \in Event
  BY DEF Creation, Event

LEMMA CreationOnly ==
  ASSUME NEW e \in Event, NEW i, e.type = "created", e.id = i
  PROVE  e = Creation(i)
  BY DEF Creation, Event

\* What MS2 does adds nothing to the topic.
LEMMA ConsumeLeavesTopic == Consume => UNCHANGED topic
  BY DEF Consume, Start, Poll, TimesOut, AutoCommit, Stop, StopUncommitted,
     StopsWaiting, Crash, Run, RunFails, Finish, Operate

-------------------------------------------------------------------------------
\* Two spots held by one reservation come from two creations on the topic or a handler
\* that ran twice, and neither is there without a retry, a crash or a failed
\* commit.
LEMMA SpotsFollow == IInv /\ SentOnce => TwoSpotsNeedARetry
<1> SUFFICES ASSUME IInv, SentOnce,
                    NEW s1 \in Spots, NEW s2 \in Spots,
                    s1 # s2, holder[s1] = holder[s2], holder[s1] # Nobody
             PROVE  Creation(holder[s1]) \in retried \/ restarts > 0
  BY DEF TwoSpotsNeedARetry
<1>1. holder[s1] \in Ids /\ restarts \in Nat /\ handled \subseteq 1..Len(topic)
  BY DeliveryAssumption DEF IInv, TypeOK
<1>2. CASE \E n \in repeated : IsCreation(n, holder[s1])
  BY <1>1, <1>2 DEF IInv, InOrder
<1>3. CASE \E m, n \in handled : m # n /\ IsCreation(m, holder[s1]) /\ IsCreation(n, holder[s1])
  BY <1>1, <1>3 DEF SentOnce
<1> QED
  BY <1>2, <1>3 DEF IInv, OneSpotEach

\* The process and its calls.
LEMMA SenderKeeps ==
  ASSUME PathIInv, [PathNext]_pathVars, TypeOK'
  PROVE  (PathTypeOK /\ ProducerMade)'
<1> USE DEF PathIInv, PathTypeOK, ProducerMade
<1>1. CASE UNCHANGED sender
  BY <1>1 DEF sender, process
<1>2. CASE StartServer
  BY <1>2 DEF StartServer, GetProducer
<1>3. ASSUME NEW how \in {"connected", "failed"}, ConnectEnds(how)
      PROVE  (PathTypeOK /\ ProducerMade)'
  BY <1>3 DEF ConnectEnds
<1>4. CASE Shutdown
  BY <1>4 DEF Shutdown
<1>5. CASE Exit
  BY <1>5 DEF Exit, InFlight, Ended
<1>6. ASSUME NEW e \in Event, Publish(e) PROVE (PathTypeOK /\ ProducerMade)'
  BY <1>6 DEF Publish, GetProducer, Goes, InFlight
<1>7. ASSUME NEW e \in Event, GoesOn(e) \/ Arrive(e) \/ Retry(e)
      PROVE  (PathTypeOK /\ ProducerMade)'
  BY <1>7 DEF GoesOn, HandOver, Acknowledged, SendFails, Arrive, Retry, Goes, process,
              InFlight, Ended
<1> QED
  BY <1>1, <1>2, <1>3, <1>4, <1>5, <1>6, <1>7 DEF PathNext, pathVars

-------------------------------------------------------------------------------
\* SentOnce.  A step that leaves the topic alone and brings no call of a creation back to where
\* it has not sent keeps it ...
LEMMA QuietSender ==
  ASSUME SentOnce, UNCHANGED <<topic, retried>>,
         \A i \in Ids : call'[Creation(i)] \in {"none", "held", "sending"} =>
                          call[Creation(i)] \in {"none", "held", "sending"}
  PROVE  SentOnce'
<1>1. \A n, i : IsCreation(n, i)' <=> IsCreation(n, i)
  BY DEF IsCreation
<1> QED
  BY <1>1 DEF SentOnce

\* ... as do an arrival, which finds no creation of its reservation on the topic, ...
LEMMA ArriveKeeps ==
  ASSUME PathIInv, NEW e \in Event, Arrive(e)
  PROVE  SentOnce'
<1>1. /\ Len(topic) \in Nat /\ Len(topic') = Len(topic) + 1
      /\ topic'[Len(topic) + 1] = e
      /\ \A n \in 1..Len(topic) : topic'[n] = topic[n]
  BY TopicGrows DEF PathIInv, PathTypeOK, Arrive
<1>2. \A n \in 1..Len(topic') :
        \/ n \in 1..Len(topic) /\ topic'[n] = topic[n]
        \/ n = Len(topic) + 1 /\ topic'[n] = e
  BY <1>1
<1>3. /\ call' = [call EXCEPT ![e] = "unanswered"]
      /\ call \in [Event -> {"none"} \cup InFlight \cup Ended]
  BY DEF Arrive, Goes, PathIInv, PathTypeOK
<1> SUFFICES ASSUME NEW i \in Ids
             PROVE  /\ call'[Creation(i)] \in {"none", "held", "sending"} =>
                         \A n \in 1..Len(topic') : ~IsCreation(n, i)'
                    /\ Creation(i) \in retried' \/ \A m, n \in 1..Len(topic') :
                         IsCreation(m, i)' /\ IsCreation(n, i)' => m = n
  BY DEF SentOnce
<1>5. CASE e = Creation(i)
  <2>1. \A n \in 1..Len(topic) : ~IsCreation(n, i)
    BY <1>5 DEF Arrive, PathIInv, SentOnce
  <2>2. call'[Creation(i)] = "unanswered"
    BY <1>3, <1>5, CreationEvent
  <2> QED
    BY <1>2, <2>1, <2>2 DEF IsCreation
<1>6. CASE e # Creation(i)
  <2>1. ~(e.type = "created" /\ e.id = i)
    BY <1>6, CreationOnly
  <2>2. call'[Creation(i)] = call[Creation(i)] /\ retried' = retried
    BY <1>3, <1>6, CreationEvent DEF Arrive
  <2> QED
    BY <1>2, <2>1, <2>2 DEF PathIInv, SentOnce, IsCreation
<1> QED
  BY <1>5, <1>6

\* ... and a retry, which is recorded.
LEMMA RetryKeeps ==
  ASSUME PathIInv, NEW e \in Event, Retry(e)
  PROVE  SentOnce'
<1>1. /\ Len(topic) \in Nat /\ Len(topic') = Len(topic) + 1
      /\ topic'[Len(topic) + 1] = e
      /\ \A n \in 1..Len(topic) : topic'[n] = topic[n]
  BY TopicGrows DEF PathIInv, PathTypeOK, Retry
<1>2. \A n \in 1..Len(topic') :
        \/ n \in 1..Len(topic) /\ topic'[n] = topic[n]
        \/ n = Len(topic) + 1 /\ topic'[n] = e
  BY <1>1
<1>3. call[e] = "unanswered" /\ call' = call /\ retried' = retried \cup {e}
  BY DEF Retry
<1> SUFFICES ASSUME NEW i \in Ids
             PROVE  /\ call'[Creation(i)] \in {"none", "held", "sending"} =>
                         \A n \in 1..Len(topic') : ~IsCreation(n, i)'
                    /\ Creation(i) \in retried' \/ \A m, n \in 1..Len(topic') :
                         IsCreation(m, i)' /\ IsCreation(n, i)' => m = n
  BY DEF SentOnce
<1>5. CASE e = Creation(i)
  BY <1>3, <1>5
<1>6. CASE e # Creation(i)
  <2>1. ~(e.type = "created" /\ e.id = i)
    BY <1>6, CreationOnly
  <2> QED
    BY <1>2, <1>3, <2>1 DEF PathIInv, SentOnce, IsCreation
<1> QED
  BY <1>5, <1>6

LEMMA SentOnceKeeps ==
  ASSUME PathIInv, [PathNext]_pathVars
  PROVE  SentOnce'
<1>1. SentOnce /\ call \in [Event -> {"none"} \cup InFlight \cup Ended]
  BY DEF PathIInv, PathTypeOK
<1>2. CASE UNCHANGED pathVars
  BY <1>1, <1>2, QuietSender DEF pathVars, vars, sender
<1>3. CASE \/ StartServer \/ Shutdown
           \/ \E how \in {"connected", "failed"} : ConnectEnds(how)
  BY <1>1, <1>3, QuietSender DEF StartServer, ConnectEnds, Shutdown, vars
<1>4. CASE Exit
  BY <1>1, <1>4, CreationEvent, QuietSender DEF Exit, vars
<1>5. ASSUME NEW e \in Event, Publish(e) \/ GoesOn(e)
      PROVE  SentOnce'
  <2>1. UNCHANGED <<topic, retried>>
    BY <1>5 DEF Publish, GoesOn, HandOver, Acknowledged, SendFails, vars
  <2>2. \E to : /\ call' = [call EXCEPT ![e] = to]
                /\ to \in {"none", "held", "sending"} => call[e] \in {"none", "held", "sending"}
    BY <1>5 DEF Publish, GoesOn, HandOver, Acknowledged, SendFails, Goes
  <2>3. \A i \in Ids : call'[Creation(i)] \in {"none", "held", "sending"} =>
                         call[Creation(i)] \in {"none", "held", "sending"}
    BY <1>1, <2>2, CreationEvent
  <2> QED
    BY <1>1, <2>1, <2>3, QuietSender
<1>6. CASE Consume /\ UNCHANGED sender
  BY <1>1, <1>6, ConsumeLeavesTopic, QuietSender DEF sender
<1> QED
  BY <1>2, <1>3, <1>4, <1>5, <1>6, ArriveKeeps, RetryKeeps DEF PathNext

-------------------------------------------------------------------------------
LEMMA PathInitInv == PathInit => PathIInv
<1> SUFFICES ASSUME PathInit PROVE PathIInv
  OBVIOUS
<1>1. IInv /\ TypeOK
  BY InitInv DEF PathInit, IInv
<1>2. SentOnce
  BY DEF PathInit, Init, SentOnce
<1>3. PathTypeOK /\ OneConnection /\ ProducerMade
  BY <1>1 DEF PathInit, PathTypeOK, OneConnection, ProducerMade
<1> QED
  BY <1>1, <1>2, <1>3, SpotsFollow DEF PathIInv

LEMMA PathNextInv == PathIInv /\ [PathNext]_pathVars => PathIInv'
<1> SUFFICES ASSUME PathIInv, [PathNext]_pathVars PROVE PathIInv'
  OBVIOUS
<1>1. IInv'
  BY StepImplements, NextInv DEF PathIInv
<1>2. PathTypeOK' /\ ProducerMade'
  BY <1>1, SenderKeeps DEF IInv
<1>3. OneConnection'
  BY <1>2 DEF ProducerMade, OneConnection
<1>4. SentOnce'
  BY SentOnceKeeps
<1>5. IInv' /\ SentOnce' => TwoSpotsNeedARetry'
  BY SpotsFollow, PTL
<1> QED
  BY <1>1, <1>2, <1>3, <1>4, <1>5 DEF PathIInv

\* A creation is on the topic once, and not before publishEvent has sent it, unless the
\* client has sent it again; and MS2 is as ReservationDelivery's invariant has it.
THEOREM PathInvariance == PathSpec => []PathIInv
  BY PathInitInv, PathNextInv, PTL DEF PathSpec

\* The state of MS1's process, of its producer and of the calls that share it keeps its
\* type, and with it that of ReservationDelivery.
THEOREM PathTypeCorrect == PathSpec => []PathTypeOK
<1>1. PathIInv => PathTypeOK
  BY DEF PathIInv
<1> QED
  BY <1>1, PathInvariance, PTL

\* getProducer assigns the producer before it waits for the connection, so that no number of
\* concurrent calls of publishEvent makes a process connect a second one.
THEOREM OneConnectionHolds == PathSpec => []OneConnection
<1>1. PathIInv => OneConnection
  BY DEF PathIInv
<1> QED
  BY <1>1, PathInvariance, PTL

\* From MS1's insert to MS2's spots: two spots for one reservation take a message that
\* MS1's client sent again, or a crash or a failed commit of MS2.
THEOREM TwoSpotsNeedARetryHolds == PathSpec => []TwoSpotsNeedARetry
<1>1. PathIInv => TwoSpotsNeedARetry
  BY DEF PathIInv
<1> QED
  BY <1>1, PathInvariance, PTL
===============================================================================
