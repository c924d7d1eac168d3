------------------------- MODULE EventBatcherOutbox -------------------------
(* EventBatcher implements Outbox.  An event is out of reach, and so lost, *)
(* once it is in no copy of the ring that can still be posted: the ring in *)
(* memory, its file, and the batch in flight.  An event overwritten in     *)
(* memory is not lost yet when the file still has it: a restart may find   *)
(* it there and deliver it.                                                *)
EXTENDS EventBatcher

Reachable == Held(disk) \cup (IF Up THEN Held(ring) \cup Range(batch) ELSE {})

Promise == INSTANCE Outbox WITH
  offered   <- pushed,
  delivered <- accepted,
  lost      <- (1 .. pushed) \ (accepted \cup Reachable),
  accounted <- disk.dropped + persistFails

(* The batcher, the ring and its file keep the promise of Outbox: no lost  *)
(* event is delivered later, none comes back, and all are accounted for.   *)
ImplementsOutbox == Promise!Spec
=============================================================================
