--------------------------- MODULE ReservationLedger ---------------------------
(***************************************************************************)
(* What MS1 promises about the slots of a parking lot, without its handlers *)
(* and their interleaving.  An entry is opened for one lot and one start,   *)
(* may have its end moved, and is closed once and for all.  Two open        *)
(* entries of a lot share an instant only if the pair is excused, and a     *)
(* pair has to be excused by the time the step that makes them clash is     *)
(* taken: a clash is never discovered later.                                *)
(***************************************************************************)
EXTENDS ReservationIntervals

CONSTANTS Ids, Lots, MaxTime

VARIABLES
  entries,  \* id -> [lot, start, end, open], for the reservations made so far
  excused   \* pairs of ids that are allowed to clash

ledger == <<entries, excused>>

Entry == [lot : Lots, start : 0..MaxTime, end : 0..MaxTime, open : BOOLEAN]

LedgerTypeOK ==
  /\ DOMAIN entries \subseteq Ids
  /\ \A i \in DOMAIN entries : entries[i] \in Entry
  /\ excused \subseteq Ids \X Ids

Clash(e, f) ==
  e.open /\ f.open /\ e.lot = f.lot /\ Meets(e.start, e.end, f.start, f.end)

Excused(i, j, ex) == <<i, j>> \in ex \/ <<j, i>> \in ex

Fits(i, e) ==
  \A j \in DOMAIN entries \ {i} : Clash(e, entries[j]) => Excused(i, j, excused')

Init == entries = << >> /\ excused = {}

Set(i, e) ==
  entries' = [j \in DOMAIN entries \cup {i} |-> IF j = i THEN e ELSE entries[j]]

Excuse == excused \subseteq excused' /\ excused' \subseteq Ids \X Ids

Put(i, e) == Fits(i, e) /\ Set(i, e) /\ Excuse

Open(i) ==
  /\ i \notin DOMAIN entries
  /\ \E e \in Entry : e.open /\ e.start < e.end /\ Put(i, e)

MoveEnd(i) ==
  /\ i \in DOMAIN entries
  /\ \E end \in 0..MaxTime :
       entries[i].start < end /\ Put(i, [entries[i] EXCEPT !.end = end])

\* Closing may take several entries at once: the clean-up is one statement.
Close ==
  \E S \in SUBSET DOMAIN entries :
    /\ entries' = [i \in DOMAIN entries |->
                     IF i \in S THEN [entries[i] EXCEPT !.open = FALSE] ELSE entries[i]]
    /\ UNCHANGED excused

Next == (\E i \in Ids : Open(i) \/ MoveEnd(i)) \/ Close

Spec == Init /\ [][Next]_ledger

\* Two open entries of a lot never share an instant unexcused.
NoUnexcusedClash ==
  \A i, j \in DOMAIN entries :
    i # j /\ Clash(entries[i], entries[j]) => Excused(i, j, excused)
================================================================================
