----------------------------- MODULE EventRing -----------------------------
(* internal/agent/ring.go: the bounded FIFO of pending telemetry events.   *)
(* A ring is the record the code keeps in memory and in events.queue.json: *)
(* the pending events, oldest first, and the count of overwritten ones.    *)
(* Every method below runs under r.mu, so it is one atomic operator here;  *)
(* writing the file is left to the module that owns the disk.              *)
EXTENDS Integers, Sequences, Functions

Least(a, b) == IF a <= b THEN a ELSE b

EmptyRing == [events |-> << >>, dropped |-> 0]

(* Definitions named ...Bug are what a mistake would make of the one that   *)
(* follows; the properties are tried against them.                         *)
PushUncountedBug(r, capacity, ev) ==
  [events |-> Append(IF Len(r.events) >= capacity THEN Tail(r.events) ELSE r.events, ev),
   dropped |-> r.dropped]
PushNewestBug(r, capacity, ev) ==   \* overwrites the newest event
  IF Len(r.events) >= capacity
    THEN [events |-> [r.events EXCEPT ![Len(r.events)] = ev], dropped |-> r.dropped + 1]
    ELSE [events |-> Append(r.events, ev), dropped |-> r.dropped]
PushFrontBug(r, capacity, ev) ==    \* writes at the head
  IF Len(r.events) >= capacity
    THEN [events |-> <<ev>> \o Tail(r.events), dropped |-> r.dropped + 1]
    ELSE [events |-> <<ev>> \o r.events, dropped |-> r.dropped]

(* Push: append, or overwrite the oldest event of a full ring. *)
Push(r, capacity, ev) ==
  IF Len(r.events) >= capacity
    THEN [events |-> Append(Tail(r.events), ev), dropped |-> r.dropped + 1]
    ELSE [events |-> Append(r.events, ev), dropped |-> r.dropped]

(* Peek: a copy of up to n events from the front. *)
Peek(r, n) == SubSeq(r.events, 1, Least(n, Len(r.events)))
(* Ack: forget the first n events (all of them when there are fewer). *)
Ack(r, n) ==
  [events |-> SubSeq(r.events, Least(n, Len(r.events)) + 1, Len(r.events)),
   dropped |-> r.dropped]

LoadUncountedBug(file, capacity) ==
  LET overflow == Len(file.events) - capacity IN
  IF overflow > 0
    THEN [file EXCEPT !.events = SubSeq(@, overflow + 1, Len(@))]
    ELSE file

(* load: what OpenEventRing keeps of the file when it holds more events    *)
(* than the capacity configured now: the newest, the rest being counted.   *)
Load(file, capacity) ==
  LET overflow == Len(file.events) - capacity IN
  IF overflow > 0
    THEN [events |-> SubSeq(file.events, overflow + 1, Len(file.events)),
          dropped |-> file.dropped + overflow]
    ELSE file

(* The events a ring holds. *)
Held(r) == Range(r.events)
=============================================================================
