--------------------------- MODULE ConsumerContract ---------------------------
(***************************************************************************)
(* What MS2 promises of the events on the topic "reservations", without its  *)
(* thread, its event loop and its processes: which handlers may run, and     *)
(* what the committed offset stands for.                                     *)
(***************************************************************************)
EXTENDS Integers

VARIABLES
  sent,       \* how many events the topic has
  committed,  \* the offset that a restart goes on from, -1 if there is none
  done,       \* the events whose handler has run
  dropped,    \* the events that were given up
  setBack     \* whether MS2 has crashed, or stopped without committing its position

contract == <<sent, committed, done, dropped, setBack>>

Init == sent = 0 /\ committed = -1 /\ done = {} /\ dropped = {} /\ setBack = FALSE

Arrive == sent' = sent + 1 /\ UNCHANGED <<committed, done, dropped, setBack>>

\* Handlers run in the order of the topic and once each, until a setback brings events back;
\* even then, none that the offset has passed, but for those whose handler was still to
\* run when they were given up.
Handle(n) ==
  /\ n \in 1..sent
  /\ n > committed \/ n \in dropped
  /\ setBack \/ \A m \in done : m < n
  /\ done' = done \cup {n}
  /\ UNCHANGED <<sent, committed, dropped, setBack>>

\* Events are given up, or the offset goes on, over events that are handled or given up.
Settle ==
  /\ dropped \subseteq dropped' /\ dropped' \subseteq 1..sent
  /\ committed <= committed' /\ committed' <= sent
  /\ \A n \in 1..committed' : n \in done \cup dropped'
  /\ UNCHANGED <<sent, done, setBack>>

\* A crash, or a stop that does not commit; what such a stop gives up, because it does not
\* wait for it, no offset has passed.
SetBack ==
  /\ setBack' = TRUE
  /\ dropped \subseteq dropped' /\ dropped' \subseteq dropped \cup (committed + 1)..sent
  /\ UNCHANGED <<sent, committed, done>>

Next == Arrive \/ (\E n \in 1..sent : Handle(n)) \/ Settle \/ SetBack

Spec == Init /\ [][Next]_contract
===============================================================================
