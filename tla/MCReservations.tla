---------------------------- MODULE MCReservations ----------------------------
(***************************************************************************)
(* Instances of Reservations for TLC.  Requests are interchangeable: nothing *)
(* tells one from another but what it asks for; and so are users.           *)
(***************************************************************************)
EXTENDS Reservations, TLC

CONSTANTS r1, r2, r3, u1, u2, lot1, lot2, upperPlate, lowerPlate

Symmetry == Permutations({r1, r2, r3})

\* A symmetry set does not go with liveness.  Instead, requests that can trade places
\* are told apart by what they may ask for: r1 creates, for u1; r2 creates as well, or
\* changes a reservation; r3 changes one.
Change(r) ==
  \/ \E user \in Users, i \in Requests, newEnd \in Time : BeginExtend(r, user, i, newEnd)
  \/ \E user \in Users, i \in Requests : BeginCancel(r, user, i)
  \/ \E i \in Requests : BeginComplete(r, i) \/ BeginActivate(r, i)

NextTwoCreate ==
  \/ Tick
  \/ Cleanup
  \/ Stop
  \/ \E lot \in Lots, plate \in Plates, start, end \in Time :
       \/ BeginCreate(r1, u1, lot, plate, start, end)
       \/ \E user \in Users : BeginCreate(r2, user, lot, plate, start, end)
  \/ Change(r2)
  \/ Change(r3)
  \/ \E r \in Requests : Answer(r) \/ DatabaseFails(r)

SpecTwoCreate == Init /\ [][NextTwoCreate]_vars /\ \A r \in Requests : WF_vars(Answer(r))

SameCase == [p \in Plates |-> p]
UpperCase == [p \in Plates |-> upperPlate]
===============================================================================
