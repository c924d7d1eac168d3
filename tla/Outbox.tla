------------------------------- MODULE Outbox -------------------------------
(* What the upload path promises its collectors and its operator, with no  *)
(* word about rings, files, batches or restarts: every offered event is    *)
(* pending until it is delivered or lost, both are final, and losses are   *)
(* never more than the number that is accounted for.                       *)
EXTENDS Integers, FiniteSets

VARIABLES
  offered,     \* number of events offered so far
  delivered,   \* the ones the API has taken
  lost,        \* the ones it will never get
  accounted    \* losses a reader of the counters and of the log knows of

vars == <<offered, delivered, lost, accounted>>

Pending == (1 .. offered) \ (delivered \cup lost)

Init == offered = 0 /\ delivered = {} /\ lost = {} /\ accounted = 0

(* Pending events, the one just offered included, may be given up. *)
GiveUp ==
  /\ accounted' \in Nat /\ accounted' >= accounted
  /\ lost \subseteq lost' /\ lost' \subseteq (1 .. offered') \ delivered
  /\ Cardinality(lost') <= accounted'

Offer   == offered' = offered + 1 /\ UNCHANGED delivered /\ GiveUp
Lose    == UNCHANGED <<offered, delivered>> /\ GiveUp
Deliver == \E S \in SUBSET Pending :
             delivered' = delivered \cup S /\ UNCHANGED <<offered, lost, accounted>>

Next == Offer \/ Lose \/ Deliver
Spec == Init /\ [][Next]_vars
=============================================================================
