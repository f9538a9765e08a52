----------------------- MODULE ReservationLedger_proofs -----------------------
(***************************************************************************)
(* What the ledger's steps add up to, for any ids, lots and bound on time:  *)
(* the promise that MS1 keeps by implementing it.                           *)
(***************************************************************************)
EXTENDS ReservationLedger, TLAPS

\* An entry that is put in fits, and the entries that are there clash only if they are
\* excused: so they do afterwards.
LEMMA PutKeeps ==
  ASSUME LedgerTypeOK, NoUnexcusedClash, NEW i \in Ids, NEW e \in Entry, Put(i, e)
  PROVE  LedgerTypeOK' /\ NoUnexcusedClash'
<1>1. /\ DOMAIN entries' = DOMAIN entries \cup {i} /\ entries'[i] = e
      /\ \A j \in DOMAIN entries \ {i} : entries'[j] = entries[j]
      /\ excused \subseteq excused' /\ excused' \subseteq Ids \X Ids
  BY DEF Put, Set, Excuse
<1>2. LedgerTypeOK'
  BY <1>1 DEF LedgerTypeOK
<1>3. ASSUME NEW j \in DOMAIN entries \ {i}, Clash(e, entries[j]) \/ Clash(entries[j], e)
      PROVE  Excused(i, j, excused')
  <2>1. Clash(e, entries[j])
    BY <1>3 DEF Clash, Meets
  <2> QED
    BY <2>1 DEF Put, Fits
<1>4. ASSUME NEW j \in DOMAIN entries \ {i}, NEW k \in DOMAIN entries \ {i}, j # k,
             Clash(entries[j], entries[k])
      PROVE  Excused(j, k, excused')
  BY <1>1, <1>4 DEF NoUnexcusedClash, Excused
<1>5. ASSUME NEW j \in DOMAIN entries', NEW k \in DOMAIN entries', j # k,
             Clash(entries'[j], entries'[k])
      PROVE  Excused(j, k, excused')
  <2>1. CASE j = i
    BY <1>1, <1>3, <1>5, <2>1
  <2>2. CASE k = i
    <3>1. Excused(i, j, excused')
      BY <1>1, <1>3, <1>5, <2>2
    <3> QED
      BY <2>2, <3>1 DEF Excused
  <2>3. CASE j # i /\ k # i
    BY <1>1, <1>4, <1>5, <2>3
  <2> QED
    BY <2>1, <2>2, <2>3
<1>6. NoUnexcusedClash'
  BY <1>5 DEF NoUnexcusedClash, Excused, Clash
<1> QED
  BY <1>2, <1>6

LEMMA CloseKeeps ==
  ASSUME LedgerTypeOK, NoUnexcusedClash, Close
  PROVE  LedgerTypeOK' /\ NoUnexcusedClash'
<1>1. /\ DOMAIN entries' = DOMAIN entries /\ UNCHANGED excused
      /\ \A i \in DOMAIN entries :
           entries'[i] = entries[i] \/ entries'[i] = [entries[i] EXCEPT !.open = FALSE]
  BY DEF Close
<1>2. ASSUME NEW i \in DOMAIN entries
      PROVE  /\ entries'[i] \in Entry
             /\ entries'[i].open => entries'[i] = entries[i]
  <2>1. entries[i] \in Entry
    BY DEF LedgerTypeOK
  <2> QED
    BY <1>1, <2>1 DEF Entry
<1>3. LedgerTypeOK'
  BY <1>1, <1>2 DEF LedgerTypeOK
<1>4. NoUnexcusedClash'
  <2>1. ASSUME NEW i \in DOMAIN entries, NEW j \in DOMAIN entries, i # j,
               Clash(entries'[i], entries'[j])
        PROVE  Excused(i, j, excused)
    <3>1. entries'[i] = entries[i] /\ entries'[j] = entries[j]
      BY <1>2, <2>1 DEF Clash
    <3> QED
      BY <2>1, <3>1 DEF NoUnexcusedClash
  <2> QED
    BY <1>1, <2>1 DEF NoUnexcusedClash, Excused, Clash
<1> QED
  BY <1>3, <1>4

\* The ledger keeps its promise: two open entries of a lot never share an instant unexcused.
THEOREM LedgerKeepsItsPromise == Spec => [](LedgerTypeOK /\ NoUnexcusedClash)
<1>1. Init => LedgerTypeOK /\ NoUnexcusedClash
  BY DEF Init, LedgerTypeOK, NoUnexcusedClash
<1>2. LedgerTypeOK /\ NoUnexcusedClash /\ [Next]_ledger => (LedgerTypeOK /\ NoUnexcusedClash)'
  <2> SUFFICES ASSUME LedgerTypeOK, NoUnexcusedClash, [Next]_ledger
               PROVE  LedgerTypeOK' /\ NoUnexcusedClash'
    OBVIOUS
  <2>1. ASSUME NEW i \in Ids, Open(i) PROVE LedgerTypeOK' /\ NoUnexcusedClash'
    BY <2>1, PutKeeps DEF Open
  <2>2. ASSUME NEW i \in Ids, MoveEnd(i) PROVE LedgerTypeOK' /\ NoUnexcusedClash'
    <3>1. PICK end \in 0..MaxTime : Put(i, [entries[i] EXCEPT !.end = end])
      BY <2>2 DEF MoveEnd
    <3>2. entries[i] \in Entry
      BY <2>2 DEF MoveEnd, LedgerTypeOK
    <3>3. [entries[i] EXCEPT !.end = end] \in Entry
      BY <3>2 DEF Entry
    <3> QED
      BY <3>1, <3>3, PutKeeps
  <2>3. CASE UNCHANGED ledger
    BY <2>3 DEF ledger, LedgerTypeOK, NoUnexcusedClash, Excused, Clash
  <2> QED
    BY <2>1, <2>2, <2>3, CloseKeeps DEF Next
<1> QED
  BY <1>1, <1>2, PTL DEF Spec
===============================================================================
