------------------------- MODULE ReservationIntervals -------------------------
(***************************************************************************)
(* The pure part of MS1's reservations: the tests a new or extended        *)
(* reservation has to pass, the WHERE clause of the overlap query and the   *)
(* price.  Times are integers; Hour is the number of time units per hour   *)
(* (3 600 000 in the code, which counts milliseconds).                     *)
(***************************************************************************)
EXTENDS Integers

\* validateReservationTimes: neither of its two errors is thrown.
ReservationTimesOK(start, end, now) == start >= now /\ end > start

\* The schema createReservation, which the body has to pass before: min('now') and
\* greater(startTime).
CreateBodyOK(start, end, now) == now <= start /\ start < end

\* validateExtensionTime: its error is not thrown.
ExtensionTimeOK(currentEnd, newEnd) == newEnd > currentEnd

\* Faulty variants of the query: one that misses reservations inside the slot,
\* one that only looks at the two starts.
OverlapClauseNoInside(rowStart, rowEnd, start, end) ==
  \/ rowStart <= start /\ rowEnd >= start
  \/ rowStart <= end   /\ rowEnd >= end

OverlapClauseStart(rowStart, rowEnd, start, end) ==
  rowStart <= start /\ rowEnd >= start

\* The OR of the overlap query, for a stored reservation [rowStart, rowEnd]
\* and the slot [start, end] that is asked for.
OverlapClause(rowStart, rowEnd, start, end) ==
  \/ rowStart <= start /\ rowEnd >= start
  \/ rowStart <= end   /\ rowEnd >= end
  \/ rowStart >= start /\ rowEnd <= end

\* Faulty variant: one hour more than the full ones, always.
TotalCostFloor(start, end, hour) == ((end - start) \div hour + 1) * 2

\* Math.ceil(hours) * 2, on integers.
TotalCost(start, end, hour) == ((end - start + hour - 1) \div hour) * 2

-------------------------------------------------------------------------------
\* Reference definition: two closed intervals have a point in common.
Meets(s1, e1, s2, e2) == s1 <= e2 /\ s2 <= e1
===============================================================================
