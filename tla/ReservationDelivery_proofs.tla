----------------------- MODULE ReservationDelivery_proofs -----------------------
(***************************************************************************)
(* Proofs about ReservationDelivery, for any reservations, spots and bounds: *)
(* IInv is an invariant, and with it the parts that the runs check.          *)
(***************************************************************************)
EXTENDS ReservationDelivery, TLAPS

-------------------------------------------------------------------------------
\* The queue, after an event is scheduled ...
LEMMA AppendQueued ==
  ASSUME NEW S, queue \in Seq(S), NEW n \in S, queue' = Append(queue, n)
  PROVE  /\ queue' \in Seq(S)
         /\ Queued' = Queued \cup {n}
         /\ DOMAIN queue' = 1..(Len(queue) + 1) /\ DOMAIN queue = 1..Len(queue)
         /\ Len(queue) \in Nat
         /\ queue'[Len(queue) + 1] = n
         /\ \A k \in DOMAIN queue : queue'[k] = queue[k]
<1>1. /\ queue' \in Seq(S)
      /\ DOMAIN queue' = 1..(Len(queue) + 1) /\ DOMAIN queue = 1..Len(queue)
      /\ Len(queue) \in Nat
      /\ queue'[Len(queue) + 1] = n
      /\ \A k \in DOMAIN queue : queue'[k] = queue[k]
  OBVIOUS
<1>2. Queued' = {queue'[k] : k \in DOMAIN queue'}
  BY DEF Queued
<1>3. \A k \in DOMAIN queue' : k \in DOMAIN queue \/ k = Len(queue) + 1
  BY <1>1
<1>4. Len(queue) + 1 \in DOMAIN queue' /\ DOMAIN queue \subseteq DOMAIN queue'
  BY <1>1
<1>5. Queued' \subseteq Queued \cup {n}
  BY <1>1, <1>2, <1>3 DEF Queued
<1>6. Queued \cup {n} \subseteq Queued'
  BY <1>1, <1>2, <1>4 DEF Queued
<1> QED
  BY <1>1, <1>5, <1>6

\* ... and after the handler at its head is done.
LEMMA TailQueued ==
  ASSUME NEW S, queue \in Seq(S), queue # << >>, queue' = Tail(queue)
  PROVE  /\ queue' \in Seq(S)
         /\ Head(queue) = queue[1] /\ Head(queue) \in Queued
         /\ Queued \subseteq Queued' \cup {Head(queue)} /\ Queued' \subseteq Queued
         /\ DOMAIN queue' = 1..(Len(queue) - 1) /\ DOMAIN queue = 1..Len(queue)
         /\ Len(queue) \in Nat
         /\ \A k \in DOMAIN queue' : queue'[k] = queue[k + 1]
<1>1. /\ queue' \in Seq(S)
      /\ DOMAIN queue' = 1..(Len(queue) - 1) /\ DOMAIN queue = 1..Len(queue)
      /\ Len(queue) \in Nat /\ Len(queue) # 0
      /\ Head(queue) = queue[1]
      /\ \A k \in DOMAIN queue' : queue'[k] = queue[k + 1]
  OBVIOUS
<1>2. Queued' = {queue'[k] : k \in DOMAIN queue'}
  BY DEF Queued
<1>3. \A k \in DOMAIN queue' : k + 1 \in DOMAIN queue
  BY <1>1
<1>4. \A k \in DOMAIN queue : k # 1 => k - 1 \in DOMAIN queue' /\ queue'[k - 1] = queue[k]
  BY <1>1
<1>5. Queued' \subseteq Queued
  BY <1>1, <1>2, <1>3 DEF Queued
<1>6. Queued \subseteq Queued' \cup {Head(queue)}
  BY <1>1, <1>2, <1>4 DEF Queued
<1>7. 1 \in DOMAIN queue
  BY <1>1
<1> QED
  BY <1>1, <1>5, <1>6, <1>7 DEF Queued

\* Steps that leave spots, holders and the record of handlers alone, and only add to
\* the topic, leave what is said of the holders alone.
LEMMA SameHolders ==
  ASSUME IInv, UNCHANGED <<holder, handled, repeated>>,
         \A n \in handled : topic'[n] = topic[n]
  PROVE  OneSpotEach' /\ HoldersHandled'
<1>1. \A n \in handled : n \in handled' /\ \A i : IsCreation(n, i) => IsCreation(n, i)'
  BY DEF IsCreation
<1>2. repeated \subseteq handled
  BY DEF IInv, TypeOK
<1>3. OneSpotEach'
  BY <1>1, <1>2 DEF IInv, OneSpotEach
<1>4. HoldersHandled'
  BY <1>1 DEF IInv, HoldersHandled
<1> QED
  BY <1>3, <1>4

-------------------------------------------------------------------------------
LEMMA InitInv == Init => IInv
<1> SUFFICES ASSUME Init PROVE IInv
  OBVIOUS
<1>1. Queued = {}
  BY DEF Init, Queued
<1>2. TypeOK
  BY <1>1, DeliveryAssumption DEF Init, TypeOK
<1>3. OneSpotEach /\ HoldersHandled
  BY DEF Init, OneSpotEach, HoldersHandled
<1>4. CommittedIsAccounted /\ InOrder
  BY DEF Init, CommittedIsAccounted, InOrder
<1>5. PositionAccounted /\ NothingComesBack
  BY <1>1 DEF Init, PositionAccounted, NothingComesBack
<1>6. HandlersAhead
  BY DEF Init, HandlersAhead
<1> QED
  BY <1>2, <1>3, <1>4, <1>5, <1>6 DEF IInv

LEMMA SendKeeps == ASSUME IInv, NEW e \in Event, Send(e) PROVE IInv'
<1>1. /\ topic \in Seq(Event) /\ topic' \in Seq(Event)
      /\ Len(topic) \in Nat /\ Len(topic') = Len(topic) + 1
      /\ \A n \in 1..Len(topic) : topic'[n] = topic[n]
  BY DEF IInv, TypeOK, Send
<1>2. Queued' = Queued /\ 1..Len(topic) \subseteq 1..Len(topic')
  BY <1>1 DEF Send, delivery, Queued
<1>3. queue' \in Seq(1..Len(topic'))
  BY <1>1, <1>2 DEF IInv, TypeOK, Send, delivery
<1>4. TypeOK'
  BY <1>1, <1>2, <1>3 DEF IInv, TypeOK, Send, delivery, history
<1>5. OneSpotEach' /\ HoldersHandled'
  BY <1>1, SameHolders DEF IInv, TypeOK, Send, history
<1>6. CommittedIsAccounted' /\ InOrder' /\ PositionAccounted' /\ NothingComesBack'
  BY <1>2 DEF IInv, CommittedIsAccounted, InOrder, PositionAccounted, NothingComesBack,
              Send, delivery, history
<1>7. HandlersAhead'
  BY <1>2 DEF IInv, HandlersAhead, Send, delivery, history
<1> QED
  BY <1>4, <1>5, <1>6, <1>7 DEF IInv

LEMMA StartKeeps == ASSUME IInv, Start PROVE IInv'
<1>1. Queued' = {} /\ Len(topic) \in Nat
  BY DEF IInv, TypeOK, Start, Queued
<1>2. TypeOK'
  <2>1. position' \in 0..Len(topic) /\ committed \in -1..position'
    BY <1>1 DEF IInv, TypeOK, Start
  <2>2. abandoned' \subseteq 1..Len(topic)
    BY DEF IInv, TypeOK, Start, GiveUp
  <2>3. queue' = << >> /\ queue' \in Seq(1..Len(topic))
    BY DEF Start
  <2> QED
    BY <2>1, <2>2, <2>3 DEF IInv, TypeOK, Start
<1>3. OneSpotEach' /\ HoldersHandled'
  BY SameHolders DEF Start
<1>4. CommittedIsAccounted' /\ InOrder'
  BY DEF IInv, CommittedIsAccounted, InOrder, Start, GiveUp
<1>5. PositionAccounted'
  BY <1>1 DEF IInv, TypeOK, CommittedIsAccounted, PositionAccounted, Start, GiveUp
<1>6. NothingComesBack'
  BY <1>1 DEF IInv, TypeOK, NothingComesBack, Start
<1>7. HandlersAhead'
  BY <1>1 DEF HandlersAhead, Start
<1> QED
  BY <1>2, <1>3, <1>4, <1>5, <1>6, <1>7 DEF IInv

LEMMA PollKeeps == ASSUME IInv, Poll PROVE IInv'
<1> DEFINE n == position + 1
<1>1. n \in 1..Len(topic) /\ position \in Nat /\ queue \in Seq(1..Len(topic))
  BY DEF IInv, TypeOK, Poll
<1>2. queue' = Append(queue, n) /\ waiting' = n /\ position' = n
  BY DEF Poll
<1>3. /\ queue' \in Seq(1..Len(topic))
      /\ Queued' = Queued \cup {n}
      /\ DOMAIN queue' = 1..(Len(queue) + 1) /\ DOMAIN queue = 1..Len(queue)
      /\ Len(queue) \in Nat
      /\ queue'[Len(queue) + 1] = n
      /\ \A k \in DOMAIN queue : queue'[k] = queue[k]
  BY <1>1, <1>2, AppendQueued
<1>4. \A m \in Queued : m <= position
  BY DEF IInv, PositionAccounted
<1>5. TypeOK'
  BY <1>1, <1>2, <1>3 DEF IInv, TypeOK, Poll, history
<1>6. OneSpotEach' /\ HoldersHandled'
  BY SameHolders DEF Poll, history
<1>7. CommittedIsAccounted'
  BY DEF IInv, CommittedIsAccounted, Poll, history
<1>8. InOrder'
  <2>1. \A j \in DOMAIN queue : queue[j] < n
    <3>1. \A j \in DOMAIN queue : queue[j] \in Queued /\ queue[j] \in Nat
      BY <1>1 DEF Queued
    <3> QED
      BY <1>1, <1>4, <3>1
  <2>2. ASSUME NEW j \in DOMAIN queue', NEW k \in DOMAIN queue', j < k
        PROVE  queue'[j] < queue'[k]
    <3>1. CASE k \in DOMAIN queue
      BY <3>1, <2>2, <1>3 DEF IInv, InOrder
    <3>2. CASE k = Len(queue) + 1
      BY <3>2, <2>1, <2>2, <1>3
    <3> QED
      BY <3>1, <3>2, <1>3
  <2> QED
    BY <2>2 DEF IInv, InOrder, Poll, history
<1>9. PositionAccounted'
  <2>1. \A m \in Queued : m = waiting \/ m \in abandoned
    BY DEF IInv, PositionAccounted
  <2>2. \A m \in Queued : m \in abandoned
    <3>1. \A m \in Queued : m \in 1..Len(topic)
      BY <1>1 DEF Queued
    <3> QED
      BY <2>1, <3>1 DEF Poll
  <2>3. \A m \in 1..n : m = n \/ m \in 1..position
    BY <1>1
  <2>4. \A m \in 1..position : m \in handled \cup abandoned \cup Queued
    BY DEF IInv, PositionAccounted, Poll
  <2>5. \A m \in Queued : m \in Nat /\ m <= n
    <3>1. \A m \in Queued : m \in Nat
      BY <1>1 DEF Queued
    <3> QED
      BY <1>1, <1>4, <3>1
  <2>6. UNCHANGED <<consumer, handled, abandoned>>
    BY DEF Poll, history
  <2>7. \A m \in 1..n : m \in handled \cup abandoned \cup Queued'
    BY <1>3, <2>3, <2>4
  <2>8. \A m \in Queued' : m <= n /\ (m = n \/ m \in abandoned)
    BY <1>1, <1>3, <2>2, <2>5
  <2> QED
    BY <1>2, <2>6, <2>7, <2>8 DEF PositionAccounted
<1>10. NothingComesBack'
  <2>1. restarts = 0 => \A m \in handled : m <= position /\ m \notin Queued
    BY DEF IInv, NothingComesBack
  <2>2. \A m \in handled : m \in Nat
    BY DEF IInv, TypeOK
  <2>3. restarts = 0 => \A m \in handled : m <= n /\ m \notin Queued'
    BY <1>1, <1>3, <2>1, <2>2
  <2> QED
    BY <1>2, <2>3 DEF NothingComesBack, Poll, history
<1>11. HandlersAhead'
  <2>1. committed <= position /\ committed \in Int
    BY DEF IInv, TypeOK
  <2>2. committed < n
    BY <1>1, <2>1
  <2>3. restarts = 0 => \A m \in handled : m \in Nat /\ m < n /\ \A k \in Queued : m < k
    BY <1>1 DEF IInv, TypeOK, NothingComesBack, HandlersAhead
  <2>4. UNCHANGED <<committed, restarts, handled>>
    BY DEF Poll, history
  <2> QED
    BY <1>2, <1>3, <2>2, <2>3, <2>4 DEF HandlersAhead
<1> QED
  BY <1>5, <1>6, <1>7, <1>8, <1>9, <1>10, <1>11 DEF IInv

LEMMA TimesOutKeeps == ASSUME IInv, TimesOut PROVE IInv'
<1>1. Queued' = Queued /\ waiting \in Queued
  BY DEF IInv, TypeOK, TimesOut, Queued
<1>2. waiting \in 1..Len(topic)
  BY <1>1 DEF IInv, TypeOK, Queued
<1>3. TypeOK'
  BY <1>1, <1>2 DEF IInv, TypeOK, TimesOut, GiveUp
<1>4. OneSpotEach' /\ HoldersHandled'
  BY SameHolders DEF TimesOut
<1>5. CommittedIsAccounted' /\ InOrder' /\ PositionAccounted' /\ NothingComesBack'
  BY <1>1 DEF IInv, CommittedIsAccounted, InOrder, PositionAccounted, NothingComesBack,
              TimesOut, GiveUp
<1>6. HandlersAhead'
  BY <1>1 DEF IInv, HandlersAhead, TimesOut
<1> QED
  BY <1>3, <1>4, <1>5, <1>6 DEF IInv

\* When nothing is waited for, all that the consumer has taken is accounted for.
LEMMA TakenIsAccounted ==
  ASSUME IInv, consumer = "on"
  PROVE  /\ \A n \in 1..position : n \in handled \cup abandoned \cup ({waiting} \ {0})
         /\ Queued \subseteq abandoned \cup ({waiting} \ {0})
<1>1. \A n \in Queued : n # 0
  BY DEF IInv, TypeOK, Queued
<1> QED
  BY <1>1 DEF IInv, PositionAccounted

LEMMA AutoCommitKeeps == ASSUME IInv, AutoCommit PROVE IInv'
<1>1. Queued' = Queued
  BY DEF AutoCommit, Queued
<1>2. TypeOK'
  BY <1>1 DEF IInv, TypeOK, AutoCommit, history
<1>3. OneSpotEach' /\ HoldersHandled'
  BY SameHolders DEF AutoCommit, history
<1>4. CommittedIsAccounted'
  BY TakenIsAccounted DEF CommittedIsAccounted, AutoCommit, history
<1>5. InOrder' /\ PositionAccounted' /\ NothingComesBack'
  BY <1>1 DEF IInv, InOrder, PositionAccounted, NothingComesBack, AutoCommit, history
<1>6. HandlersAhead'
  BY <1>1 DEF IInv, HandlersAhead, AutoCommit, history
<1> QED
  BY <1>2, <1>3, <1>4, <1>5, <1>6 DEF IInv

LEMMA StopKeeps == ASSUME IInv, Stop PROVE IInv'
<1>1. Queued' = Queued /\ {waiting} \ {0} \subseteq 1..Len(topic)
  BY DEF IInv, TypeOK, Stop, StopsWaiting, Queued
<1>2. TypeOK'
  BY <1>1 DEF IInv, TypeOK, Stop, StopsWaiting, GiveUp
<1>3. OneSpotEach' /\ HoldersHandled'
  BY SameHolders DEF Stop, StopsWaiting
<1>4. CommittedIsAccounted'
  BY TakenIsAccounted DEF CommittedIsAccounted, Stop, StopsWaiting, GiveUp
<1>5. InOrder' /\ NothingComesBack'
  BY <1>1 DEF IInv, InOrder, NothingComesBack, Stop, StopsWaiting
<1>6. PositionAccounted'
  BY <1>1, TakenIsAccounted DEF IInv, PositionAccounted, Stop, StopsWaiting, GiveUp
<1>7. HandlersAhead'
  BY <1>1 DEF IInv, HandlersAhead, Stop, StopsWaiting
<1> QED
  BY <1>2, <1>3, <1>4, <1>5, <1>6, <1>7 DEF IInv

LEMMA StopUncommittedKeeps == ASSUME IInv, StopUncommitted PROVE IInv'
<1>1. Queued' = Queued /\ {waiting} \ {0} \subseteq 1..Len(topic)
  BY DEF IInv, TypeOK, StopUncommitted, StopsWaiting, Queued
<1>8. restarts' \in 1..MaxRestarts
  BY DeliveryAssumption DEF IInv, TypeOK, StopUncommitted
<1>2. TypeOK'
  BY <1>1, <1>8 DEF IInv, TypeOK, StopUncommitted, StopsWaiting, GiveUp
<1>3. OneSpotEach' /\ HoldersHandled'
  BY SameHolders DEF StopUncommitted, StopsWaiting
<1>4. CommittedIsAccounted'
  BY TakenIsAccounted DEF IInv, CommittedIsAccounted, StopUncommitted, StopsWaiting, GiveUp
<1>5. InOrder' /\ NothingComesBack'
  BY <1>1, <1>8 DEF IInv, InOrder, NothingComesBack, StopUncommitted, StopsWaiting
<1>6. PositionAccounted'
  BY <1>1, TakenIsAccounted DEF IInv, PositionAccounted, StopUncommitted, StopsWaiting, GiveUp
<1>7. HandlersAhead'
  BY <1>1, <1>8 DEF IInv, HandlersAhead, StopUncommitted, StopsWaiting
<1> QED
  BY <1>2, <1>3, <1>4, <1>5, <1>6, <1>7 DEF IInv

LEMMA CrashKeeps == ASSUME IInv, Crash PROVE IInv'
<1>1. Queued' = {}
  BY DEF Crash, Queued
<1>2. TypeOK'
  BY <1>1, DeliveryAssumption DEF IInv, TypeOK, Crash, history
<1>3. OneSpotEach' /\ HoldersHandled'
  BY SameHolders DEF Crash, history
<1>4. CommittedIsAccounted' /\ PositionAccounted'
  BY <1>1 DEF IInv, CommittedIsAccounted, PositionAccounted, Crash, history
<1>5. InOrder' /\ NothingComesBack'
  BY DEF IInv, TypeOK, InOrder, NothingComesBack, Crash
<1>6. HandlersAhead'
  BY DEF IInv, TypeOK, HandlersAhead, Crash
<1> QED
  BY <1>2, <1>3, <1>4, <1>5, <1>6 DEF IInv

-------------------------------------------------------------------------------
\* What the end of a handler does to the queue, whatever the handler did.
LEMMA FinishQueue ==
  ASSUME IInv, Finish
  PROVE  /\ Head(queue) \in 1..Len(topic) /\ Head(queue) \in Queued
         /\ queue' \in Seq(1..Len(topic))
         /\ Queued' \subseteq Queued \ {Head(queue)}
         /\ Queued \subseteq Queued' \cup {Head(queue)}
         /\ waiting' \in {0} \cup Queued'
         /\ \A k \in Queued' : Head(queue) < k
         /\ \A j, k \in DOMAIN queue' : j < k => queue'[j] < queue'[k]
         /\ queue' = << >> \/ consumer = "on" \/ committed # -1 \/ restarts # 0
<1>1. queue \in Seq(1..Len(topic)) /\ queue # << >> /\ queue' = Tail(queue)
  BY DEF IInv, TypeOK, Finish
<1>2. /\ queue' \in Seq(1..Len(topic))
      /\ Head(queue) = queue[1] /\ Head(queue) \in Queued
      /\ Queued \subseteq Queued' \cup {Head(queue)} /\ Queued' \subseteq Queued
      /\ DOMAIN queue' = 1..(Len(queue) - 1) /\ DOMAIN queue = 1..Len(queue)
      /\ Len(queue) \in Nat
      /\ \A k \in DOMAIN queue' : queue'[k] = queue[k + 1]
  BY <1>1, TailQueued
<1>3. Head(queue) \in 1..Len(topic)
  BY <1>1
<1>4. \A j, k \in DOMAIN queue : j < k => queue[j] < queue[k]
  BY DEF IInv, InOrder
<1>5. \A j, k \in DOMAIN queue' : j < k => queue'[j] < queue'[k]
  <2>1. \A j \in DOMAIN queue' : j + 1 \in DOMAIN queue
    BY <1>2
  <2> QED
    BY <1>2, <1>4, <2>1
<1>6. Head(queue) \notin Queued' /\ \A k \in Queued' : Head(queue) < k
  <2>1. \A k \in DOMAIN queue' : queue[1] < queue'[k]
    BY <1>2, <1>4
  <2>2. Queued' = {queue'[k] : k \in DOMAIN queue'}
    BY DEF Queued
  <2> QED
    BY <1>1, <1>2, <1>3, <2>1, <2>2
<1>7. waiting' \in {0} \cup Queued'
  BY <1>2 DEF IInv, TypeOK, Finish
<1>8. consumer = "on" \/ committed # -1 \/ restarts # 0
  <2>1. restarts = 0 /\ consumer = "off" => committed = position \/ queue = << >>
    BY DEF IInv, NothingComesBack
  <2> QED
    BY <1>1, <2>1 DEF IInv, TypeOK
<1> QED
  BY <1>2, <1>3, <1>5, <1>6, <1>7, <1>8

\* A handler reserves a spot for the event it was given, or leaves the spots alone.
LEMMA RunHolders ==
  ASSUME IInv, Run
  PROVE  /\ spot' \in [Spots -> {"free", "reserved", "occupied"}]
         /\ holder' \in [Spots -> Ids \cup {Nobody}]
         /\ OneSpotEach' /\ HoldersHandled'
<1> DEFINE n == Head(queue)
           e == topic[n]
<1>1. n \in 1..Len(topic) /\ e \in Event /\ UNCHANGED topic
  BY FinishQueue DEF IInv, TypeOK, Run, Finish
<1>2. handled' = handled \cup {n} /\ repeated' = repeated \cup (handled \cap {n})
  BY DEF Run
<1>3. \A m, i : IsCreation(m, i)' <=> IsCreation(m, i)
  BY <1>1 DEF IsCreation
<1>4. CASE UNCHANGED <<spot, holder>>
  BY <1>2, <1>3, <1>4 DEF IInv, TypeOK, OneSpotEach, HoldersHandled
<1>5. CASE e.type = "created" /\ \E s \in Spots : FirstFree(s) /\ Assign(s, "reserved", e.id)
  <2>1. PICK s \in Spots : Assign(s, "reserved", e.id)
    BY <1>5
  <2>2. e.id \in Ids /\ e.id # Nobody /\ IsCreation(n, e.id)
    BY <1>1, <1>5, DeliveryAssumption DEF Event, IsCreation
  <2>3. /\ spot' \in [Spots -> {"free", "reserved", "occupied"}]
        /\ holder' \in [Spots -> Ids \cup {Nobody}]
        /\ holder'[s] = e.id /\ \A t \in Spots \ {s} : holder'[t] = holder[t]
    BY <2>1, <2>2 DEF IInv, TypeOK, Assign
  <2>4. HoldersHandled'
    BY <1>2, <1>3, <2>2, <2>3 DEF IInv, HoldersHandled
  <2>5. ASSUME NEW t \in Spots \ {s}, holder[t] = e.id
        PROVE  \/ n \in repeated'
               \/ \E m \in handled' : m # n /\ IsCreation(m, e.id)
    <3>1. PICK m \in handled : IsCreation(m, e.id)
      BY <2>2, <2>5 DEF IInv, HoldersHandled
    <3> QED
      BY <1>2, <3>1
  <2>6. ASSUME NEW s1 \in Spots, NEW s2 \in Spots,
               s1 # s2, holder'[s1] = holder'[s2], holder'[s1] # Nobody
        PROVE  \/ \E k \in repeated' : IsCreation(k, holder'[s1])
               \/ \E m, k \in handled' : /\ m # k /\ IsCreation(m, holder'[s1])
                                         /\ IsCreation(k, holder'[s1])
    <3>1. CASE s1 = s \/ s2 = s
      <4>1. \E t \in Spots \ {s} : holder[t] = e.id /\ holder'[s1] = e.id
        BY <2>3, <2>6, <3>1
      <4> QED
        BY <1>2, <2>2, <2>5, <4>1
    <3>2. CASE s1 # s /\ s2 # s
      BY <1>2, <2>3, <2>6, <3>2 DEF IInv, OneSpotEach
    <3> QED
      BY <3>1, <3>2
  <2>7. OneSpotEach'
    BY <1>3, <2>6 DEF OneSpotEach
  <2> QED
    BY <2>3, <2>4, <2>7
<1> QED
  BY <1>4, <1>5 DEF Run, HandleEvent

LEMMA RunKeeps == ASSUME IInv, Run PROVE IInv'
<1> DEFINE n == Head(queue)
<1>1. Finish /\ handled' = handled \cup {n} /\ repeated' = repeated \cup (handled \cap {n})
      /\ UNCHANGED abandoned
  BY DEF Run
<1>2. /\ n \in 1..Len(topic) /\ n \in Queued
      /\ queue' \in Seq(1..Len(topic))
      /\ Queued' \subseteq Queued \ {n} /\ Queued \subseteq Queued' \cup {n}
      /\ waiting' \in {0} \cup Queued'
      /\ \A k \in Queued' : n < k
      /\ \A j, k \in DOMAIN queue' : j < k => queue'[j] < queue'[k]
      /\ queue' = << >> \/ consumer = "on" \/ committed # -1 \/ restarts # 0
  BY <1>1, FinishQueue
<1>3. UNCHANGED <<topic, consumer, position, committed, restarts>>
  BY <1>1 DEF Finish
<1>4. TypeOK'
  BY <1>1, <1>2, <1>3, RunHolders DEF IInv, TypeOK
<1>5. CommittedIsAccounted'
  BY <1>1, <1>3 DEF IInv, CommittedIsAccounted
<1>6. InOrder'
  <2>1. restarts = 0 => n \notin handled
    BY <1>2 DEF IInv, NothingComesBack
  <2> QED
    BY <1>1, <1>2, <1>3, <2>1 DEF IInv, InOrder
<1>7. PositionAccounted'
  BY <1>1, <1>2, <1>3 DEF IInv, PositionAccounted, Finish
<1>8. NothingComesBack'
  <2>1. n <= position
    BY <1>2 DEF IInv, PositionAccounted
  <2>2. restarts = 0 => \A m \in handled' : m <= position /\ m \notin Queued'
    BY <1>1, <1>2, <2>1 DEF IInv, NothingComesBack
  <2>3. restarts = 0 /\ consumer = "off" => committed = position
    <3>1. Queued # {} /\ (queue = << >> => Queued = {})
      BY <1>2 DEF Queued
    <3> QED
      BY <3>1 DEF IInv, NothingComesBack
  <2> QED
    BY <1>3, <2>2, <2>3 DEF NothingComesBack
<1>9. HandlersAhead'
  <2>1. restarts = 0 => \A m \in handled' : \A k \in Queued' : m < k
    BY <1>1, <1>2 DEF IInv, HandlersAhead
  <2> QED
    BY <1>1, <1>3, <2>1 DEF IInv, HandlersAhead, Finish
<1> QED
  BY <1>4, <1>5, <1>6, <1>7, <1>8, RunHolders, <1>9 DEF IInv

LEMMA RunFailsKeeps == ASSUME IInv, RunFails PROVE IInv'
<1> DEFINE n == Head(queue)
<1>1. Finish /\ abandoned' = abandoned \cup {n} /\ UNCHANGED <<spot, holder, handled, repeated>>
  BY DEF RunFails, GiveUp
<1>2. /\ n \in 1..Len(topic) /\ n \in Queued
      /\ queue' \in Seq(1..Len(topic))
      /\ Queued' \subseteq Queued \ {n} /\ Queued \subseteq Queued' \cup {n}
      /\ waiting' \in {0} \cup Queued'
      /\ \A j, k \in DOMAIN queue' : j < k => queue'[j] < queue'[k]
  BY <1>1, FinishQueue
<1>3. UNCHANGED <<topic, consumer, position, committed, restarts>>
  BY <1>1 DEF Finish
<1>4. TypeOK'
  BY <1>1, <1>2, <1>3 DEF IInv, TypeOK
<1>5. OneSpotEach' /\ HoldersHandled'
  BY <1>1, <1>3, SameHolders
<1>6. CommittedIsAccounted' /\ InOrder'
  BY <1>1, <1>2, <1>3 DEF IInv, CommittedIsAccounted, InOrder
<1>7. PositionAccounted'
  BY <1>1, <1>2, <1>3 DEF IInv, PositionAccounted, Finish
<1>8. NothingComesBack'
  BY <1>1, <1>2, <1>3 DEF IInv, NothingComesBack, Finish
<1>9. HandlersAhead'
  BY <1>1, <1>2, <1>3 DEF IInv, HandlersAhead, Finish
<1> QED
  BY <1>4, <1>5, <1>6, <1>7, <1>8, <1>9 DEF IInv

\* Occupying or releasing a spot takes it from its reservation.
LEMMA OperateKeeps == ASSUME IInv, Operate PROVE IInv'
<1>1. PICK s \in Spots, new \in {"free", "occupied"} : Assign(s, new, Nobody)
  BY DEF Operate
<1>2. /\ spot' \in [Spots -> {"free", "reserved", "occupied"}]
      /\ holder' \in [Spots -> Ids \cup {Nobody}]
      /\ holder'[s] = Nobody /\ \A t \in Spots \ {s} : holder'[t] = holder[t]
  BY <1>1 DEF IInv, TypeOK, Assign
<1>3. UNCHANGED <<topic, delivery, history>> /\ Queued' = Queued
  BY DEF Operate, delivery, Queued
<1>4. TypeOK'
  BY <1>2, <1>3 DEF IInv, TypeOK, delivery, history
<1>5. \A m, i : IsCreation(m, i)' <=> IsCreation(m, i)
  BY <1>3 DEF IsCreation
<1>6. HoldersHandled'
  BY <1>2, <1>3, <1>5 DEF IInv, HoldersHandled, history
<1>7. OneSpotEach'
  <2>1. ASSUME NEW s1 \in Spots, NEW s2 \in Spots,
               s1 # s2, holder'[s1] = holder'[s2], holder'[s1] # Nobody
        PROVE  s1 # s /\ s2 # s /\ holder[s1] = holder'[s1] /\ holder[s2] = holder'[s2]
    BY <1>2, <2>1
  <2> QED
    BY <1>3, <1>5, <2>1 DEF IInv, OneSpotEach, history
<1>8. CommittedIsAccounted' /\ InOrder' /\ PositionAccounted' /\ NothingComesBack'
  BY <1>3 DEF IInv, CommittedIsAccounted, InOrder, PositionAccounted, NothingComesBack,
              delivery, history
<1>9. HandlersAhead'
  BY <1>3 DEF IInv, HandlersAhead, delivery, history
<1> QED
  BY <1>4, <1>6, <1>7, <1>8, <1>9 DEF IInv

-------------------------------------------------------------------------------
LEMMA NextInv == IInv /\ [Next]_vars => IInv'
<1> SUFFICES ASSUME IInv, [Next]_vars PROVE IInv'
  OBVIOUS
<1>1. CASE UNCHANGED vars
  <2>1. UNCHANGED <<topic, consumer, position, committed, waiting, queue, spot, restarts,
                    holder, handled, repeated, abandoned>>
    BY <1>1 DEF vars
  <2>2. Queued' = Queued /\ \A m, i : IsCreation(m, i)' <=> IsCreation(m, i)
    BY <2>1 DEF Queued, IsCreation
  <2> QED
    BY <2>1, <2>2 DEF IInv, TypeOK, OneSpotEach, CommittedIsAccounted, InOrder,
                      PositionAccounted, HoldersHandled, NothingComesBack, HandlersAhead
<1>2. CASE Next
  BY <1>2, SendKeeps, StartKeeps, PollKeeps, TimesOutKeeps, AutoCommitKeeps, StopKeeps,
     StopUncommittedKeeps, CrashKeeps, RunKeeps, RunFailsKeeps, OperateKeeps DEF Next, Consume
<1> QED
  BY <1>1, <1>2

LEMMA Invariance == Spec => []IInv
  BY InitInv, NextInv, PTL DEF Spec

\* A reservation gets a second spot only from a creation that MS1's client sent twice
\* or that MS2's handler ran twice.
THEOREM OneSpotEachHolds == Spec => []OneSpotEach
<1>1. IInv => OneSpotEach
  BY DEF IInv
<1> QED
  BY <1>1, Invariance, PTL

\* What MS2's consumer group has committed has been handled or knowingly given up: the
\* offset cannot overtake a handler that is still waited for.
THEOREM CommittedIsAccountedHolds == Spec => []CommittedIsAccounted
<1>1. IInv => CommittedIsAccounted
  BY DEF IInv
<1> QED
  BY <1>1, Invariance, PTL

\* Time-outs of the consumer do not reorder the handlers, and without a crash or a failed
\* commit nothing is handled twice.
THEOREM InOrderHolds == Spec => []InOrder
<1>1. IInv => InOrder
  BY DEF IInv
<1> QED
  BY <1>1, Invariance, PTL

-------------------------------------------------------------------------------
\* Giving events up, and committing, settles them as the contract has it.
LEMMA SettleKept ==
  ASSUME IInv, IInv', UNCHANGED <<topic, handled, restarts>>,
         committed <= committed', abandoned \subseteq abandoned'
  PROVE  Contract!Settle
<1>1. abandoned' \subseteq 1..Len(topic) /\ committed' <= Len(topic)
  BY DEF IInv, TypeOK
<1>2. \A n \in 1..committed' : n \in handled \cup abandoned'
  BY DEF IInv, CommittedIsAccounted
<1>3. UNCHANGED <<Len(topic), handled, restarts > 0>>
  OBVIOUS
<1> QED
  BY <1>1, <1>2, <1>3 DEF Contract!Settle

\* A handler that runs is one that the contract lets run.
LEMMA RunKept == ASSUME IInv, Run PROVE \E n \in 1..Len(topic) : Contract!Handle(n)
<1> DEFINE n == Head(queue)
<1>1. Finish /\ handled' = handled \cup {n} /\ UNCHANGED <<topic, committed, abandoned, restarts>>
  BY DEF Run, Finish
<1>2. n \in 1..Len(topic) /\ n \in Queued
  BY <1>1, FinishQueue
<1>3. n > committed \/ n \in abandoned
  BY <1>2 DEF IInv, TypeOK, PositionAccounted, HandlersAhead
<1>4. restarts > 0 \/ \A m \in handled : m < n
  BY <1>2 DEF IInv, TypeOK, HandlersAhead
<1>5. Contract!Handle(n)
  BY <1>1, <1>2, <1>3, <1>4 DEF Contract!Handle
<1> QED
  BY <1>2, <1>5

LEMMA StepKeepsContract == IInv /\ IInv' /\ [Next]_vars => [Contract!Next]_Contract!contract
<1> SUFFICES ASSUME IInv, IInv', [Next]_vars
             PROVE  Contract!Next \/ UNCHANGED Contract!contract
  OBVIOUS
<1>1. CASE UNCHANGED vars
  BY <1>1 DEF vars, Contract!contract
<1>2. ASSUME NEW e \in Event, Send(e) PROVE Contract!Arrive
  <2>1. Len(topic') = Len(topic) + 1
    BY <1>2 DEF IInv, TypeOK, Send
  <2> QED
    BY <1>2, <2>1 DEF Send, delivery, history, Contract!Arrive
<1>3. CASE Start \/ TimesOut \/ RunFails \/ AutoCommit \/ Stop
  <2>1. position \in Int /\ committed \in Int /\ committed <= position
    BY DEF IInv, TypeOK
  <2>2. UNCHANGED <<topic, handled, restarts>>
    BY <1>3 DEF Start, TimesOut, RunFails, Finish, AutoCommit, Stop, StopsWaiting, history
  <2>3. committed <= committed'
    BY <1>3, <2>1 DEF Start, TimesOut, RunFails, Finish, AutoCommit, Stop, StopsWaiting
  <2>4. abandoned \subseteq abandoned'
    BY <1>3 DEF Start, TimesOut, RunFails, AutoCommit, Stop, StopsWaiting, GiveUp, history
  <2> QED
    BY <2>2, <2>3, <2>4, SettleKept DEF Contract!Next
<1>4. CASE Poll \/ Operate
  BY <1>4 DEF Poll, Operate, delivery, history, Contract!contract
<1>5. CASE Crash \/ StopUncommitted
  <2>1. restarts \in Nat /\ restarts' = restarts + 1 /\ UNCHANGED <<topic, committed, handled>>
    BY <1>5, DeliveryAssumption
       DEF IInv, TypeOK, Crash, StopUncommitted, StopsWaiting, history
  <2>2. abandoned \subseteq abandoned' /\ abandoned' \subseteq abandoned \cup ({waiting} \ {0})
    BY <1>5 DEF Crash, StopUncommitted, StopsWaiting, GiveUp, history
  <2>3. {waiting} \ {0} \subseteq (committed + 1)..Len(topic)
    <3>1. waiting \in {0} \cup 1..Len(topic) /\ committed \in Int /\ Len(topic) \in Nat
      BY DEF IInv, TypeOK, Queued
    <3> QED
      BY <3>1 DEF IInv, HandlersAhead
  <2>4. UNCHANGED Len(topic) /\ (restarts > 0)' = TRUE
    BY <2>1
  <2> QED
    BY <2>1, <2>2, <2>3, <2>4 DEF Contract!SetBack, Contract!Next
<1>6. CASE Run
  BY <1>6, RunKept DEF Contract!Next
<1> QED
  BY <1>1, <1>2, <1>3, <1>4, <1>5, <1>6 DEF Next, Consume, Contract!Next

\* MS2's consumer implements its contract, whatever times out, stops or crashes: handlers
\* run in order and, until a crash or a failed commit, once; never for an event that the
\* committed offset has passed, but for those given up while scheduled; and no offset
\* covers an event whose handler is still owed.
THEOREM ImplementsContractHolds == Spec => ImplementsContract
<1>1. Init => Contract!Init
  BY DEF Init, Contract!Init
<1> QED
  BY <1>1, StepKeepsContract, Invariance, PTL DEF Spec, ImplementsContract, Contract!Spec
================================================================================
