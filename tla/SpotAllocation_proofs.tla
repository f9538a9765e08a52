------------------------ MODULE SpotAllocation_proofs ------------------------
(***************************************************************************)
(* Proofs about SpotAllocation, for any finite set of spots, any lots, any   *)
(* number of statistics threads and of events left with the producer.       *)
(***************************************************************************)
EXTENDS SpotAllocation, FiniteSetTheorems, WellFoundedInduction, TLAPS

-------------------------------------------------------------------------------
\* The counts of a lot are natural numbers: the occupied spots and the reserved
\* ones that are not occupied are disjoint parts of it.  The places left are the
\* free spots.
LEMMA CalculateType ==
  ASSUME NEW lot \in Lots
  PROVE  /\ Calculate(lot) \in Availability
         /\ Calculate(lot).available = Cardinality({s \in SpotsOf(lot) : Free(s)})
<1> DEFINE O == {s \in SpotsOf(lot) : spot[s].occupied}
           R == {s \in SpotsOf(lot) : spot[s].reserved /\ ~spot[s].occupied}
           F == {s \in SpotsOf(lot) : Free(s)}
<1>1. IsFiniteSet(SpotsOf(lot))
  BY SpotsAssumption, FS_Subset DEF SpotsOf
<1>2. IsFiniteSet(O) /\ IsFiniteSet(R)
  BY <1>1, FS_Subset
<1>3. Cardinality(O) \in Nat /\ Cardinality(R) \in Nat /\ Cardinality(SpotsOf(lot)) \in Nat
  BY <1>1, <1>2, FS_CardinalityType
<1>4. Cardinality(O \cup R) = Cardinality(O) + Cardinality(R)
  <2>1. O \cap R = {}
    OBVIOUS
  <2> HIDE DEF O, R
  <2>2. Cardinality(O \cap R) = 0
    BY <2>1, FS_EmptySet
  <2>3. Cardinality(O \cup R) = Cardinality(O) + Cardinality(R) - Cardinality(O \cap R)
    BY <1>2, FS_Union
  <2> QED
    BY <1>3, <2>2, <2>3
<1>5. IsFiniteSet(F) /\ Cardinality(F) = Cardinality(SpotsOf(lot)) - Cardinality(O \cup R)
  <2>1. F = SpotsOf(lot) \ (O \cup R) /\ SpotsOf(lot) \cap (O \cup R) = O \cup R
    BY DEF Free
  <2>2. /\ IsFiniteSet(SpotsOf(lot) \ (O \cup R))
        /\ Cardinality(SpotsOf(lot) \ (O \cup R))
             = Cardinality(SpotsOf(lot)) - Cardinality(SpotsOf(lot) \cap (O \cup R))
    BY <1>1, FS_Difference
  <2> QED
    BY <2>1, <2>2
<1>6. Cardinality(F) \in Nat
  BY <1>5, FS_CardinalityType
<1>7. Calculate(lot) = [available |-> Cardinality(SpotsOf(lot)) - Cardinality(O) - Cardinality(R),
                        occupied |-> Cardinality(O), reserved |-> Cardinality(R)]
  BY DEF Calculate
<1> HIDE DEF O, R, F
<1>8. Cardinality(SpotsOf(lot)) - Cardinality(O) - Cardinality(R) = Cardinality(F)
  BY <1>3, <1>4, <1>5
<1>9. Calculate(lot) \in Availability /\ Calculate(lot).available = Cardinality(F)
  BY <1>3, <1>6, <1>7, <1>8 DEF Availability
<1> QED
  BY <1>9 DEF F

\* A change of one spot leaves the counts of the other lots, and the status of the
\* other spots, as they were.
LEMMA OtherLots ==
  ASSUME NEW s \in Spots, NEW row, spot' = [spot EXCEPT ![s] = row],
         spot \in [Spots -> [reserved : BOOLEAN, occupied : BOOLEAN]]
  PROVE  /\ \A lot \in Lots : lot # LotOf[s] => Calculate(lot)' = Calculate(lot)
         /\ \A other \in Spots : other # s => Status(other)' = Status(other)
<1>1. \A other \in Spots : other # s => spot'[other] = spot[other]
  OBVIOUS
<1>2. ASSUME NEW lot \in Lots, lot # LotOf[s]
      PROVE  Calculate(lot)' = Calculate(lot)
  <2>1. \A other \in SpotsOf(lot) : spot'[other] = spot[other]
    BY <1>1, <1>2 DEF SpotsOf
  <2>2. /\ {x \in SpotsOf(lot) : spot'[x].occupied} = {x \in SpotsOf(lot) : spot[x].occupied}
        /\ {x \in SpotsOf(lot) : spot'[x].reserved /\ ~spot'[x].occupied}
             = {x \in SpotsOf(lot) : spot[x].reserved /\ ~spot[x].occupied}
    BY <2>1
  <2>3. SpotsOf(lot)' = SpotsOf(lot)
    BY DEF SpotsOf
  <2> QED
    BY <2>2, <2>3 DEF Calculate
<1> QED
  BY <1>1, <1>2 DEF Status

\* Steps that leave the spots alone leave counts and statuses alone.
LEMMA SameSpots ==
  ASSUME UNCHANGED spot
  PROVE  /\ \A lot : Calculate(lot)' = Calculate(lot)
         /\ \A s : Status(s)' = Status(s)
  BY DEF Calculate, SpotsOf, Status

LEMMA InitInv == Init => IInv
<1> SUFFICES ASSUME Init PROVE IInv
  OBVIOUS
<1>1. TypeOK
  BY DEF Init, TypeOK, Statuses
<1>2. FillsTrue /\ HandlerTells /\ WaitingTells /\ CacheTrue
  BY DEF Init, FillsTrue, HandlerTells, WaitingTells, CacheTrue, Idle
<1>3. UpdatesTrue
  BY DEF Init, UpdatesTrue, Status
<1> QED
  BY <1>1, <1>2, <1>3 DEF IInv

\* A handler's change of a spot: its lot is now being changed, the spot is in work.
LEMMA CommitKeeps ==
  ASSUME NEW s \in Spots, NEW row \in [reserved : BOOLEAN, occupied : BOOLEAN],
         NEW status \in Statuses, Commit(s, row, status), IInv,
         status = IF row.occupied THEN "occupied"
                  ELSE IF row.reserved THEN "reserved" ELSE "free"
  PROVE  IInv'
<1> USE DEF IInv
<1>1. spot \in [Spots -> [reserved : BOOLEAN, occupied : BOOLEAN]] /\ LotOf[s] \in Lots
  BY SpotsAssumption DEF TypeOK
<1>2. /\ spot' = [spot EXCEPT ![s] = row] /\ spot'[s] = row
      /\ loop = Idle
      /\ loop' = [at |-> "invalidate", spot |-> s, status |-> status]
      /\ UNCHANGED <<cache, cacheOn, busOn, told, tainted, missed>>
  BY <1>1 DEF Commit
<1>3. /\ \A lot \in Lots : lot # LotOf[s] => Calculate(lot)' = Calculate(lot)
      /\ \A other \in Spots : other # s => Status(other)' = Status(other)
  BY <1>1, <1>2, OtherLots
<1>4. \A t \in Threads :
        \/ stats'[t] = stats[t] /\ ~(stats[t].at = "set" /\ stats[t].lot = LotOf[s])
        \/ stats[t] \in Filling /\ stats'[t] = Dirty(stats[t])
  <2>1. \A t \in Threads : stats[t] \in Missing \cup Filling \cup {Idle}
    BY DEF TypeOK
  <2>2. \A t \in Threads : stats[t].at = "set" => stats[t] \in Filling
    BY <2>1 DEF Missing, Idle
  <2>3. \A t \in Threads : stats'[t] = IF stats[t].at = "set" /\ stats[t].lot = LotOf[s]
                                       THEN Dirty(stats[t]) ELSE stats[t]
    BY DEF Commit
  <2> QED
    BY <2>2, <2>3
<1>5. \A t \in Threads : stats[t] \in Filling =>
        Dirty(stats[t]) \in Filling /\ Dirty(stats[t]).dirty
  BY DEF Dirty, Filling
<1>11. \A event \in late' : \/ event \in late /\ event.spot # s
                            \/ event \in Waiting /\ event.age = "overtaken"
  <2>1. \A event \in late : Overtaken(event) \in Waiting /\ Overtaken(event).age = "overtaken"
    BY DEF Overtaken, Waiting, TypeOK
  <2> SUFFICES ASSUME NEW event \in late'
               PROVE  \/ event \in late /\ event.spot # s
                      \/ event \in Waiting /\ event.age = "overtaken"
    OBVIOUS
  <2>2. PICK old \in late : event = IF old.spot = s THEN Overtaken(old) ELSE old
    BY Zenon DEF Commit
  <2> QED
    BY <2>1, <2>2
<1>12. WaitingTells'
  <2> SUFFICES ASSUME NEW event \in late', event.age = "latest"
               PROVE  event.status = Status(event.spot)'
    BY DEF WaitingTells
  <2>1. event \in late /\ event.spot # s
    BY <1>11
  <2>2. event.spot \in Spots
    BY <2>1 DEF TypeOK, Waiting
  <2> QED
    BY <1>3, <2>1, <2>2 DEF WaitingTells
<1>6. TypeOK'
  <2>1. spot' \in [Spots -> [reserved : BOOLEAN, occupied : BOOLEAN]]
    BY <1>1, <1>2
  <2>2. loop' \in Running \cup {Idle}
    BY <1>2 DEF Running
  <2>3. stats' \in [Threads -> Missing \cup Filling \cup {Idle}]
    <3>1. \A t \in Threads : stats[t] \in Missing \cup Filling \cup {Idle}
      BY DEF TypeOK
    <3>2. \A t \in Threads : stats'[t] \in Missing \cup Filling \cup {Idle}
      BY <1>4, <1>5, <3>1
    <3>3. stats' = [t \in Threads |-> stats'[t]]
      BY DEF Commit
    <3> QED
      BY <3>2, <3>3
  <2>4. late' \subseteq Waiting
    BY <1>11 DEF TypeOK
  <2> QED
    BY <1>2, <2>1, <2>2, <2>3, <2>4 DEF TypeOK
<1>7. FillsTrue'
  <2> SUFFICES ASSUME NEW t \in Threads, NEW lot \in Lots,
                      stats'[t].at = "set", stats'[t].lot = lot, ~stats'[t].dirty
               PROVE  stats'[t].value = Calculate(lot)'
    BY DEF FillsTrue
  <2>1. stats'[t] = stats[t] /\ lot # LotOf[s]
    BY <1>4, <1>5
  <2>2. stats[t].value = Calculate(lot)
    BY <2>1 DEF FillsTrue
  <2> QED
    BY <1>3, <2>1, <2>2
<1>8. HandlerTells'
  BY <1>1, <1>2 DEF HandlerTells, Status
<1>9. CacheTrue'
  <2> SUFFICES ASSUME NEW lot \in Lots, cache'[lot] # NoEntry, lot \notin tainted',
                      ~Changing(lot)'
               PROVE  cache'[lot] = Calculate(lot)'
    BY DEF CacheTrue, NoEntry
  <2>1. lot # LotOf[s]
    BY <1>2 DEF Changing
  <2>2. ~Changing(lot)
    BY <1>2 DEF Changing, Idle
  <2>3. cache[lot] = Calculate(lot)
    BY <1>2, <2>2 DEF CacheTrue
  <2> QED
    BY <1>2, <1>3, <2>1, <2>3
<1>10. UpdatesTrue'
  <2>1. loop'.spot = s /\ loop' # Idle
    BY <1>2 DEF Idle
  <2>2. loop = Idle
    BY <1>2
  <2> SUFFICES ASSUME NEW other \in Spots, other \notin missed',
                      ~(loop' # Idle /\ loop'.spot = other)
               PROVE  told'[other] = Status(other)'
    BY DEF UpdatesTrue, Idle
  <2>3. other # s
    BY <2>1
  <2>4. told[other] = Status(other)
    BY <1>2, <2>2 DEF UpdatesTrue
  <2> QED
    BY <1>2, <1>3, <2>3, <2>4
<1> QED
  BY <1>6, <1>7, <1>8, <1>9, <1>10, <1>12

\* The other steps leave the spots alone.  What they have to do for each part of
\* the invariant:
Working(s) == loop # Idle /\ loop.spot = s

LEMMA LoopKeeps ==
  ASSUME IInv, UNCHANGED spot,
         \/ loop' = Idle
         \/ loop # Idle /\ loop'.spot = loop.spot /\ loop'.status = loop.status
  PROVE  HandlerTells'
<1>1. \A s : Status(s)' = Status(s)
  BY SameSpots
<1> QED
  BY <1>1 DEF IInv, HandlerTells, Idle

LEMMA StatsKeep ==
  ASSUME IInv, UNCHANGED spot,
         \A t \in Threads : \/ stats'[t] = stats[t]
                           \/ stats'[t].at # "set"
                           \/ \A lot \in Lots : stats'[t].lot = lot =>
                                                stats'[t].value = Calculate(lot)
  PROVE  FillsTrue'
<1>1. \A lot : Calculate(lot)' = Calculate(lot)
  BY SameSpots
<1> QED
  BY <1>1 DEF IInv, FillsTrue

LEMMA CacheKeeps ==
  ASSUME IInv, UNCHANGED spot,
         \A lot \in Lots :
           \/ cache'[lot] = NoEntry \/ lot \in tainted' \/ Changing(lot)'
           \/ cache'[lot] = Calculate(lot)
           \/ cache'[lot] = cache[lot] /\ lot \notin tainted /\ ~Changing(lot)
  PROVE  CacheTrue'
<1>1. \A lot : Calculate(lot)' = Calculate(lot)
  BY SameSpots
<1>2. NoEntry' = NoEntry
  BY DEF NoEntry
<1> QED
  BY <1>1, <1>2 DEF IInv, CacheTrue

LEMMA TopicKeeps ==
  ASSUME IInv, UNCHANGED spot,
         \A s \in Spots :
           \/ s \in missed' \/ Working(s)'
           \/ told'[s] = Status(s)
           \/ told'[s] = told[s] /\ s \notin missed /\ ~Working(s)
  PROVE  UpdatesTrue'
<1>1. \A s : Status(s)' = Status(s)
  BY SameSpots
<1> QED
  BY <1>1 DEF IInv, UpdatesTrue, Working

LEMMA WaitingKeep ==
  ASSUME IInv, UNCHANGED spot, late' \subseteq late
  PROVE  WaitingTells'
<1>1. \A s : Status(s)' = Status(s)
  BY SameSpots
<1> QED
  BY <1>1 DEF IInv, WaitingTells

LEMMA HandleKeeps == ASSUME IInv, Handle PROVE IInv'
<1>1. ASSUME NEW s \in Spots, Occupy(s) PROVE IInv'
  <2>1. [reserved |-> FALSE, occupied |-> TRUE] \in [reserved : BOOLEAN, occupied : BOOLEAN]
    OBVIOUS
  <2> QED
    BY <1>1, <2>1, CommitKeeps DEF Occupy, Statuses
<1>2. ASSUME NEW s \in Spots, Release(s) PROVE IInv'
  <2>1. [reserved |-> FALSE, occupied |-> FALSE] \in [reserved : BOOLEAN, occupied : BOOLEAN]
    OBVIOUS
  <2> QED
    BY <1>2, <2>1, CommitKeeps DEF Release, Statuses
<1>3. ASSUME NEW s \in Spots, Commit(s, [reserved |-> TRUE, occupied |-> FALSE], "reserved")
      PROVE  IInv'
  <2>1. [reserved |-> TRUE, occupied |-> FALSE] \in [reserved : BOOLEAN, occupied : BOOLEAN]
    OBVIOUS
  <2> QED
    BY <1>3, <2>1, CommitKeeps DEF Statuses
<1> QED
  BY <1>1, <1>2, <1>3 DEF Handle, Reserve

-------------------------------------------------------------------------------
LEMMA InvalidateKeeps == ASSUME IInv, Invalidate PROVE IInv'
<1> DEFINE next == [loop EXCEPT !.at = "publish"]
<1>1. loop \in Running /\ LotOf[loop.spot] \in Lots /\ loop # Idle
  BY SpotsAssumption DEF IInv, TypeOK, Invalidate, Running, Idle
<1>2. next = [at |-> "publish", spot |-> loop.spot, status |-> loop.status]
  BY <1>1 DEF Running
<1>3. /\ loop.at = "invalidate" /\ loop' = next
      /\ next \in Running /\ next # Idle
      /\ next.spot = loop.spot /\ next.status = loop.status /\ next.at = "publish"
  BY <1>1, <1>2 DEF Invalidate, Running, Idle
<1> HIDE DEF next
<1>4. TypeOK'
  BY <1>1, <1>3 DEF IInv, TypeOK, Invalidate
<1>5. FillsTrue'
  BY StatsKeep DEF Invalidate
<1>6. HandlerTells'
  BY <1>1, <1>3, LoopKeeps DEF Invalidate
<1>7. CacheTrue'
  <2>1. ASSUME NEW lot \in Lots, lot # LotOf[loop.spot], lot \notin tainted
        PROVE  cache'[lot] = cache[lot] /\ lot \notin tainted /\ ~Changing(lot)
    BY <1>1, <2>1 DEF Invalidate, Changing, IInv, TypeOK
  <2>2. cache'[LotOf[loop.spot]] = NoEntry \/ LotOf[loop.spot] \in tainted'
    BY <1>1 DEF Invalidate, IInv, TypeOK
  <2>3. \A lot \in Lots : lot \in tainted /\ lot # LotOf[loop.spot] => lot \in tainted'
    BY DEF Invalidate
  <2> QED
    BY <2>1, <2>2, <2>3, CacheKeeps DEF Invalidate
<1>8. UpdatesTrue'
  BY <1>1, <1>3, TopicKeeps DEF Invalidate, Working, IInv, UpdatesTrue
<1>20. WaitingTells'
  BY WaitingKeep DEF Invalidate
<1> QED
  BY <1>4, <1>5, <1>6, <1>7, <1>8, <1>20 DEF IInv

LEMMA InvalidateFailsKeeps == ASSUME IInv, InvalidateFails PROVE IInv'
<1>1. loop \in Running /\ LotOf[loop.spot] \in Lots /\ loop # Idle
  <2>1. loop \in Running \cup {Idle} /\ loop.at = "invalidate"
    BY DEF IInv, TypeOK, InvalidateFails
  <2>2. loop # Idle
    BY <2>1 DEF Idle
  <2>3. loop.spot \in Spots
    BY <2>1, <2>2 DEF Running
  <2> QED
    BY <2>1, <2>2, <2>3, SpotsAssumption
<1>2. TypeOK'
  <2>1. loop.spot \in Spots
    BY <1>1 DEF Running
  <2>2. tainted' \subseteq Lots /\ missed' \subseteq Spots /\ loop' = Idle
    BY <1>1, <2>1 DEF IInv, TypeOK, InvalidateFails, GiveUp
  <2> QED
    BY <2>2 DEF IInv, TypeOK, InvalidateFails
<1>3. FillsTrue' /\ HandlerTells'
  BY StatsKeep, LoopKeeps DEF InvalidateFails, GiveUp
<1>4. CacheTrue'
  <2>1. \A lot \in Lots : lot # LotOf[loop.spot] => ~Changing(lot)
    BY DEF Changing
  <2> QED
    BY <1>1, <2>1, CacheKeeps DEF InvalidateFails
<1>5. UpdatesTrue'
  BY <1>1, TopicKeeps DEF InvalidateFails, GiveUp, Working, IInv, UpdatesTrue
<1>20. WaitingTells'
  BY WaitingKeep DEF InvalidateFails
<1> QED
  BY <1>2, <1>3, <1>4, <1>5, <1>20 DEF IInv

LEMMA PublishKeeps == ASSUME IInv, Publish PROVE IInv'
<1>1. loop \in Running /\ loop # Idle /\ loop.status = Status(loop.spot)
  BY DEF IInv, TypeOK, HandlerTells, Publish, Running, Idle
<1>2. TypeOK'
  BY <1>1 DEF IInv, TypeOK, Publish, Running
<1>3. FillsTrue' /\ HandlerTells'
  BY StatsKeep, LoopKeeps DEF Publish
<1>4. CacheTrue'
  BY CacheKeeps DEF Publish, Changing, Idle, IInv, CacheTrue
<1>5. UpdatesTrue'
  BY <1>1, TopicKeeps DEF Publish, Working, IInv, TypeOK
<1>20. WaitingTells'
  BY WaitingKeep DEF Publish
<1> QED
  BY <1>2, <1>3, <1>4, <1>5, <1>20 DEF IInv

LEMMA PublishFailsKeeps == ASSUME IInv, PublishFails PROVE IInv'
<1>1. loop \in Running /\ loop # Idle
  BY DEF IInv, TypeOK, PublishFails, Running, Idle
<1> DEFINE event == [spot |-> loop.spot, status |-> loop.status, age |-> "latest"]
<1>2. event \in Waiting /\ event.status = Status(event.spot)
  BY <1>1 DEF Running, Waiting, IInv, HandlerTells
<1>7. late' \in {late, late \cup {event}} /\ UNCHANGED spot
  BY DEF PublishFails
<1> HIDE DEF event
<1>8. WaitingTells'
  BY <1>2, <1>7, SameSpots DEF IInv, WaitingTells
<1>3. TypeOK'
  BY <1>1, <1>2, <1>7 DEF IInv, TypeOK, PublishFails, GiveUp, Running
<1>4. FillsTrue' /\ HandlerTells'
  BY StatsKeep, LoopKeeps DEF PublishFails, GiveUp
<1>5. CacheTrue'
  BY CacheKeeps DEF PublishFails, GiveUp, Changing, Idle, IInv, CacheTrue
<1>6. UpdatesTrue'
  BY <1>1, TopicKeeps DEF PublishFails, GiveUp, Working, IInv
<1> QED
  BY <1>3, <1>4, <1>5, <1>6, <1>8 DEF IInv

LEMMA DeliverLateKeeps ==
  ASSUME IInv, NEW event \in late, DeliverLate(event) PROVE IInv'
<1>1. /\ event.spot \in Spots /\ event.status \in Statuses
      /\ event.age = "latest" => event.status = Status(event.spot)
  BY DEF IInv, TypeOK, Waiting, WaitingTells
<1>2. TypeOK'
  BY <1>1 DEF IInv, TypeOK, DeliverLate
<1>3. FillsTrue' /\ HandlerTells' /\ CacheTrue'
  <2>1. FillsTrue'
    BY StatsKeep DEF DeliverLate
  <2>2. HandlerTells'
    BY LoopKeeps DEF DeliverLate, Idle
  <2>3. CacheTrue'
    BY CacheKeeps DEF DeliverLate, Changing, IInv, CacheTrue
  <2> QED
    BY <2>1, <2>2, <2>3
<1>4. UpdatesTrue'
  BY <1>1, TopicKeeps DEF DeliverLate, Working, IInv, TypeOK
<1>20. WaitingTells'
  BY WaitingKeep DEF DeliverLate
<1> QED
  BY <1>2, <1>3, <1>4, <1>20 DEF IInv


LEMMA CheckAvailabilityKeeps ==
  ASSUME IInv, NEW lot \in Lots, CheckAvailability(lot) PROVE IInv'
<1>1. TypeOK'
  BY CalculateType DEF IInv, TypeOK, CheckAvailability
<1>2. FillsTrue' /\ HandlerTells'
  BY StatsKeep, LoopKeeps DEF CheckAvailability
<1>3. CacheTrue'
  <2>1. \A other \in Lots : other # lot => cache'[other] = cache[other]
    BY DEF CheckAvailability
  <2>2. cache'[lot] = Calculate(lot)
    BY DEF CheckAvailability, IInv, TypeOK
  <2> QED
    BY <2>1, <2>2, CacheKeeps DEF CheckAvailability, Changing, Idle
<1>4. UpdatesTrue'
  BY TopicKeeps DEF CheckAvailability, Working
<1>20. WaitingTells'
  BY WaitingKeep DEF CheckAvailability
<1> QED
  BY <1>1, <1>2, <1>3, <1>4, <1>20 DEF IInv

\* Steps of the statistics threads that do not store anything.
LEMMA ThreadKeeps ==
  ASSUME IInv, NEW t \in Threads, NEW h, stats' = [stats EXCEPT ![t] = h],
         \/ h \in Missing \cup {Idle}
         \/ h \in Filling /\ h.value = Calculate(h.lot),
         UNCHANGED <<spot, cache, cacheOn, busOn, loop, told, late, tainted, missed>>
  PROVE  IInv'
<1>1. TypeOK'
  BY DEF IInv, TypeOK
<1>2. FillsTrue'
  <2>1. stats'[t] = h /\ \A other \in Threads : other # t => stats'[other] = stats[other]
    BY DEF IInv, TypeOK
  <2>2. h \in Missing \cup {Idle} => h.at # "set"
    BY DEF Missing, Idle
  <2> QED
    BY <2>1, <2>2, StatsKeep
<1>3. HandlerTells'
  BY DEF IInv, HandlerTells, Status
<1>4. CacheTrue'
  BY CacheKeeps DEF Changing, IInv, CacheTrue
<1>5. UpdatesTrue'
  BY TopicKeeps DEF Working, IInv, UpdatesTrue
<1>20. WaitingTells'
  BY WaitingKeep
<1> QED
  BY <1>1, <1>2, <1>3, <1>4, <1>5, <1>20 DEF IInv

LEMMA StatsReadKeeps == ASSUME IInv, NEW t \in Threads, StatsRead(t) PROVE IInv'
<1> DEFINE lot == stats[t].lot
           h == [at |-> "set", lot |-> lot, value |-> Calculate(lot), dirty |-> FALSE]
<1>1. lot \in Lots
  <2>1. stats[t] \in Missing \cup Filling \cup {Idle} /\ stats[t].at = "read"
    BY DEF IInv, TypeOK, StatsRead
  <2> QED
    BY <2>1 DEF Missing, Filling, Idle
<1>2. Calculate(lot) \in Availability
  BY <1>1, CalculateType
<1>3. h \in Filling /\ h.value = Calculate(h.lot)
  BY <1>1, <1>2 DEF Filling
<1>4. /\ stats' = [stats EXCEPT ![t] = h]
      /\ UNCHANGED <<spot, cache, cacheOn, busOn, loop, told, late, tainted, missed>>
  BY DEF StatsRead
<1> QED
  BY <1>3, <1>4, ThreadKeeps

LEMMA StatsSetKeeps == ASSUME IInv, NEW t \in Threads, StatsSet(t) PROVE IInv'
<1> DEFINE lot == stats[t].lot
<1>1. stats[t] \in Filling
  BY DEF IInv, TypeOK, StatsSet, Missing, Filling, Idle
<1>2. lot \in Lots /\ stats[t].value \in Availability
  BY <1>1 DEF Filling
<1>3. TypeOK'
  BY <1>2 DEF IInv, TypeOK, StatsSet
<1>4. FillsTrue'
  <2>1. stats'[t] = Idle /\ \A other \in Threads : other # t => stats'[other] = stats[other]
    BY DEF IInv, TypeOK, StatsSet
  <2> QED
    BY <2>1, StatsKeep DEF StatsSet, Idle
<1>5. HandlerTells'
  BY DEF StatsSet, IInv, HandlerTells, Status
<1>6. CacheTrue'
  <2>1. \A other \in Lots \ {lot} : /\ cache'[other] = cache[other]
                                  /\ other \in tainted => other \in tainted'
    BY DEF StatsSet, IInv, TypeOK
  <2>2. cache'[lot] = stats[t].value
    BY <1>2 DEF StatsSet, IInv, TypeOK
  <2>3. lot \in tainted' \/ stats[t].value = Calculate(lot)
    BY <1>2 DEF StatsSet, IInv, FillsTrue
  <2>4. \A other \in Lots : Changing(other) => Changing(other)'
    BY DEF StatsSet, Changing
  <2> QED
    BY <2>1, <2>2, <2>3, <2>4, CacheKeeps DEF StatsSet
<1>7. UpdatesTrue'
  BY TopicKeeps DEF StatsSet, Working, IInv, UpdatesTrue
<1>20. WaitingTells'
  BY WaitingKeep DEF StatsSet
<1> QED
  BY <1>3, <1>4, <1>5, <1>6, <1>7, <1>20 DEF IInv

LEMMA ExpireKeeps == ASSUME IInv, NEW lot \in Lots, Expire(lot) PROVE IInv'
<1>1. TypeOK'
  BY DEF IInv, TypeOK, Expire
<1>2. FillsTrue' /\ HandlerTells'
  <2>1. FillsTrue'
    BY StatsKeep DEF Expire
  <2>2. HandlerTells'
    BY DEF Expire, IInv, HandlerTells, Status
  <2> QED
    BY <2>1, <2>2
<1>3. CacheTrue'
  <2>1. \A other \in Lots \ {lot} : /\ cache'[other] = cache[other]
                                  /\ other \in tainted => other \in tainted'
    BY DEF Expire
  <2>2. cache'[lot] = NoEntry
    BY DEF Expire, IInv, TypeOK
  <2>3. \A other \in Lots : Changing(other) => Changing(other)'
    BY DEF Expire, Changing
  <2> QED
    BY <2>1, <2>2, <2>3, CacheKeeps DEF Expire
<1>4. UpdatesTrue'
  BY TopicKeeps DEF Expire, Working, IInv, UpdatesTrue
<1>20. WaitingTells'
  BY WaitingKeep DEF Expire
<1> QED
  BY <1>1, <1>2, <1>3, <1>4, <1>20 DEF IInv

LEMMA RestartKeeps == ASSUME IInv, Restart PROVE IInv'
<1>1. loop = Idle \/ loop \in Running
  BY DEF IInv, TypeOK
<1>2. TypeOK'
  BY <1>1, SpotsAssumption DEF IInv, TypeOK, Restart, Running, Idle
<1>3. FillsTrue' /\ HandlerTells'
  BY StatsKeep, LoopKeeps DEF Restart, Idle
<1>4. CacheTrue'
  <2>1. \A lot \in Lots : lot \in tainted => lot \in tainted'
    BY DEF Restart
  <2>2. \A lot \in Lots : Changing(lot) /\ cache[lot] # NoEntry => lot \in tainted'
    BY DEF Restart, Changing
  <2> QED
    BY <2>1, <2>2, CacheKeeps DEF Restart
<1>5. UpdatesTrue'
  BY TopicKeeps DEF Restart, Working, IInv, UpdatesTrue
<1>20. WaitingTells'
  BY WaitingKeep DEF Restart
<1> QED
  BY <1>2, <1>3, <1>4, <1>5, <1>20 DEF IInv

LEMMA NextInv == IInv /\ [Next]_vars => IInv'
<1> SUFFICES ASSUME IInv, [Next]_vars PROVE IInv'
  OBVIOUS
<1>1. ASSUME NEW t \in Threads, Stats(t) PROVE IInv'
  <2>1. CASE StatsFails(t)
    BY <2>1, ThreadKeeps DEF StatsFails
  <2> QED
    BY <1>1, <2>1, StatsReadKeeps, StatsSetKeeps DEF Stats
<1>2. ASSUME NEW t \in Threads, NEW lot \in Lots, StatsMiss(t, lot) PROVE IInv'
  <2>1. [at |-> "read", lot |-> lot] \in Missing
    BY DEF Missing
  <2> QED
    BY <1>2, <2>1, ThreadKeeps DEF StatsMiss
<1>3. CASE UNCHANGED vars
  <2>1. TypeOK' /\ HandlerTells'
    BY <1>3 DEF vars, IInv, TypeOK, HandlerTells, Status
  <2>2. FillsTrue'
    BY <1>3, StatsKeep DEF vars
  <2>3. CacheTrue'
    BY <1>3, CacheKeeps DEF vars, Changing, IInv, CacheTrue
  <2>4. UpdatesTrue'
    BY <1>3, TopicKeeps DEF vars, Working, IInv, UpdatesTrue
  <2>5. WaitingTells'
    BY <1>3, WaitingKeep DEF vars
  <2> QED
    BY <2>1, <2>2, <2>3, <2>4, <2>5 DEF IInv
<1>4. CASE Finish
  BY <1>4, InvalidateKeeps, InvalidateFailsKeeps, PublishKeeps, PublishFailsKeeps DEF Finish
<1> QED
  BY <1>1, <1>2, <1>3, <1>4, HandleKeeps, RestartKeeps, DeliverLateKeeps,
     CheckAvailabilityKeeps, ExpireKeeps DEF Next

\* What a handler is about to tell the cache and the topic agrees with what it has committed,
\* and both agree with the tables but for the gaps that CacheTrue and UpdatesTrue name.
THEOREM Invariance == Spec => []IInv
  BY InitInv, NextInv, PTL DEF Spec

-------------------------------------------------------------------------------
\* The tables, the cached counts and the handlers' variables have their types; the
\* counts never go below zero.
THEOREM TypeCorrect == Spec => []TypeOK
<1>1. IInv => TypeOK
  BY DEF IInv
<1> QED
  BY <1>1, Invariance, PTL

\* The cached availability of a lot is the one in the database, but for the gaps
\* CacheTrue names, however many spots, lots, threads and restarts there are.
THEOREM CacheTrueHolds == Spec => []CacheTrue
<1>1. IInv => CacheTrue
  BY DEF IInv
<1> QED
  BY <1>1, Invariance, PTL

\* The topic tells the status of every spot whose last change reached it and was not
\* followed there by an event that had been overtaken.
THEOREM UpdatesTrueHolds == Spec => []UpdatesTrue
<1>1. IInv => UpdatesTrue
  BY DEF IInv
<1> QED
  BY <1>1, Invariance, PTL


\* A set of numbers that is not empty has a least one.
LEMMA Least ==
  ASSUME NEW S, S \subseteq Nat, S # {}
  PROVE  \E m \in S : \A n \in S : m <= n
<1> DEFINE Less == OpToRel(<, Nat)
<1>1. IsWellFoundedOn(Less, Nat)
  BY NatLessThanWellFounded
<1>2. \A m, n \in Nat : m < n => <<m, n>> \in Less
  BY DEF OpToRel
<1> HIDE DEF Less
<1>3. PICK m \in S : \A n \in S : <<n, m>> \notin Less
  BY <1>1, WFMin
<1>4. ASSUME NEW n \in S PROVE m <= n
  <2>1. m \in Nat /\ n \in Nat
    BY <1>3
  <2>2. ~(n < m)
    BY <1>2, <1>3, <2>1
  <2> QED
    BY <2>1, <2>2
<1> QED
  BY <1>4

\* The count of the places left and the query for the first of them agree.
LEMMA PlacesLeft ==
  ASSUME NEW lot \in Lots
  PROVE  Calculate(lot).available > 0 <=> \E s \in Spots : FirstAvailable(lot, s)
<1> DEFINE F == {s \in SpotsOf(lot) : Free(s)}
<1>1. Calculate(lot).available = Cardinality(F)
  BY CalculateType
<1>2. F \subseteq Spots /\ F \subseteq Nat /\ IsFiniteSet(F)
  BY SpotsAssumption, FS_Subset DEF SpotsOf
<1>3. Cardinality(F) \in Nat /\ (Cardinality(F) = 0 <=> F = {})
  BY <1>2, FS_CardinalityType, FS_EmptySet
<1>4. F # {} => \E s \in F : \A other \in F : s <= other
  BY <1>2, Least
<1>5. (\E s \in F : \A other \in F : s <= other)
        <=> \E s \in Spots : FirstAvailable(lot, s)
  BY <1>2 DEF FirstAvailable
<1> HIDE DEF F
<1>6. Cardinality(F) > 0 <=> F # {}
  BY <1>3
<1>7. (\E s \in F : \A other \in F : s <= other) => F # {}
  OBVIOUS
<1> QED
  BY <1>1, <1>4, <1>5, <1>6, <1>7

\* Where the cached entry can be trusted, it promises a place exactly when the query
\* of reserve_first_available finds a spot.
THEOREM OfferIsRealHolds == Spec => []OfferIsReal
<1>1. IInv => OfferIsReal
  <2> SUFFICES ASSUME IInv, NEW lot \in Lots, cache[lot] # NoEntry,
                      lot \notin tainted, ~Changing(lot)
               PROVE  cache[lot].available > 0 <=> \E s \in Spots : FirstAvailable(lot, s)
    BY DEF OfferIsReal
  <2>1. cache[lot] = Calculate(lot)
    BY DEF IInv, CacheTrue
  <2> QED
    BY <2>1, PlacesLeft
<1> QED
  BY <1>1, Invariance, PTL

==============================================================================
