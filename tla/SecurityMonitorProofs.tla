------------------------ MODULE SecurityMonitorProofs ------------------------
(* The one race that a send on the closed wake channel of SecurityMonitor  *)
(* needs, and when it may tell an artifact again, for any host, timers,    *)
(* channel and bounds.                                                     *)
EXTENDS SecurityMonitor, TLAPS

TimerStates == {"free", "armed", "flush", "send"}
TimersTyped == ts \in [Timers -> TimerStates]

(* Why: the loop leaves the timer it remembers stopped, and arms none once *)
(* it has left, so what is not stray when it closes the channel is free.   *)
StoppedLast == loop \in {"closing", "closed"} => \A t \in Timers : ts[t] = "armed" => timer # t
AllFree == \A t \in Timers : ts[t] = "free"
ClosedLast == outClosed => loop = "closed" /\ (stray \/ AllFree)
NoStrayPanic == TimersTyped /\ StoppedLast /\ ClosedLast /\ PanicNeedsStrayFlush

(* Stopping a timer frees it if it had not fired, and no other. *)
LEMMA StoppedFrees ==
  ASSUME TimersTyped, NEW t
  PROVE  /\ Stopped(t) \in [Timers -> TimerStates]
         /\ \A x \in Timers : Stopped(t)[x] = "armed" => ts[x] = "armed" /\ x # t
BY DEF Stopped, TimersTyped, TimerStates

(* The debounce loop keeps it. *)
LEMMA DebounceStep == NoStrayPanic /\ ~panicked /\ Debounce => NoStrayPanic'
<1> SUFFICES ASSUME TimersTyped, StoppedLast, ClosedLast, PanicNeedsStrayFlush, ~panicked, Debounce
             PROVE  NoStrayPanic'
  BY DEF NoStrayPanic
<1>1. ~panicked'
  BY DEF Debounce, Receive, ReceiveClosed, ReceiveDone, CloseOut, Close, PanicNeedsStrayFlush
<1>2. CASE Receive
  <2>1. PICK t : timer' = t /\ ts' = [Stopped(timer) EXCEPT ![t] = "armed"]
    BY <1>2 DEF Receive
  <2>2. TimersTyped'
    BY <2>1, StoppedFrees DEF TimersTyped, TimerStates
  <2>3. loop' = "run" /\ ~outClosed'
    BY <1>2 DEF Receive, ClosedLast
  <2> QED
    BY <1>1, <2>2, <2>3 DEF NoStrayPanic, StoppedLast, ClosedLast, PanicNeedsStrayFlush
<1>3. CASE ReceiveClosed \/ ReceiveDone
  <2>1. ts' = Stopped(timer) /\ timer' \in {timer, Nil}
    BY <1>3 DEF ReceiveClosed, ReceiveDone
  <2>2. TimersTyped' /\ StoppedLast'
    BY <2>1, StoppedFrees, SecurityAssumption DEF TimersTyped, StoppedLast
  <2>3. ~outClosed'
    BY <1>3 DEF ReceiveClosed, ReceiveDone, Close, ClosedLast
  <2> QED
    BY <1>1, <2>2, <2>3 DEF NoStrayPanic, ClosedLast, PanicNeedsStrayFlush
<1>4. CASE CloseOut
  <2>1. loop = "closing" /\ loop' = "closed" /\ UNCHANGED <<ts, timer>>
    BY <1>4 DEF CloseOut
  <2>2. \A t \in Timers : ts[t] = "armed" => timer # t
    BY <2>1 DEF StoppedLast
  <2>3. TimersTyped' /\ StoppedLast'
    BY <2>1, <2>2 DEF TimersTyped, StoppedLast
  <2>4. stray' \/ AllFree'
    BY <1>4, <2>1, <2>2 DEF CloseOut, AllFree, TimersTyped, TimerStates
  <2> QED
    BY <1>1, <2>1, <2>3, <2>4 DEF NoStrayPanic, ClosedLast, PanicNeedsStrayFlush
<1> QED
  BY <1>2, <1>3, <1>4 DEF Debounce

(* So does a timer's goroutine, which panics only if it was stray. *)
LEMMA FlushStep == ASSUME NEW t \in Timers PROVE NoStrayPanic /\ ~panicked /\ Flushes(t) => NoStrayPanic'
<1> SUFFICES ASSUME TimersTyped, StoppedLast, ClosedLast, PanicNeedsStrayFlush, ~panicked, Flushes(t)
             PROVE  NoStrayPanic'
  BY DEF NoStrayPanic
<1>1. UNCHANGED <<loop, outClosed, stray>> /\ timer' \in {timer, Nil} /\ ts[t] # "free"
  BY DEF Flushes, Fire, Flush, Send
<1>2. PICK s \in TimerStates \ {"armed"} : ts' = [ts EXCEPT ![t] = s]
  BY DEF Flushes, Fire, Flush, Send, TimerStates
<1>3. TimersTyped' /\ StoppedLast'
  BY <1>1, <1>2, SecurityAssumption DEF TimersTyped, StoppedLast
<1>4. outClosed => stray
  BY <1>1 DEF ClosedLast, AllFree
<1>5. ClosedLast'
  BY <1>1, <1>4 DEF ClosedLast
<1>6. panicked' => outClosed
  BY DEF Flushes, Fire, Flush, Send
<1>7. PanicNeedsStrayFlush'
  BY <1>1, <1>4, <1>6 DEF PanicNeedsStrayFlush
<1> QED
  BY <1>3, <1>5, <1>7 DEF NoStrayPanic

(* The other steps touch none of it. *)
LEMMA PanicStep == NoStrayPanic /\ [Next]_vars => NoStrayPanic'
<1> SUFFICES ASSUME NoStrayPanic, [Next]_vars PROVE NoStrayPanic'
  OBVIOUS
<1>1. ASSUME UNCHANGED <<loop, timer, ts, outClosed, stray, panicked>> PROVE NoStrayPanic'
  BY <1>1 DEF NoStrayPanic, TimersTyped, StoppedLast, ClosedLast, AllFree, PanicNeedsStrayFlush
<1>2. CASE HostChange \/ WatcherEnds \/ Cancel \/ TakeWake \/ WakesEnd \/ Tick \/ UNCHANGED vars
  BY <1>1, <1>2 DEF HostChange, WatcherEnds, Cancel, TakeWake, WakesEnd, Tick, vars, debounce
<1>3. ASSUME NEW p \in Pollers, Poll(p) PROVE NoStrayPanic'
  BY <1>1, <1>3 DEF Poll, List, Compare, Enqueue, debounce
<1> QED
  BY <1>2, <1>3, DebounceStep, FlushStep DEF Next

(* A send on the closed wake channel is left to one race: a flush that had *)
(* begun, or whose timer another flush had forgotten, when it was closed   *)
(* (security_watch.go:37-47, 50-54, 59-62).                                *)
THEOREM OneRacePanics == Spec => []PanicNeedsStrayFlush
<1>1. Init => NoStrayPanic
  BY DEF Init, NoStrayPanic, TimersTyped, TimerStates, StoppedLast, ClosedLast, PanicNeedsStrayFlush
<1>2. NoStrayPanic => PanicNeedsStrayFlush
  BY DEF NoStrayPanic
<1> QED
  BY <1>1, <1>2, PanicStep, PTL DEF Spec

-----------------------------------------------------------------------------
(* When an artifact may be told again.  While no listing missed something  *)
(* and no two polls overlapped, what was told and has not left since is    *)
(* still there, so that the table has it and every listing that is waiting *)
(* to be compared; and what a poll has yet to tell is none of it.          *)
PlacesOf == {"idle", "list", "compare", "enqueue", "ended"}
PollsTyped ==
  /\ pc \in [Pollers -> PlacesOf] /\ DOMAIN listing = Pollers
  /\ DOMAIN changes = Pollers /\ DOMAIN away = Pollers
Quiet == \A p \in Pollers : pc[p] # "enqueue" => changes[p] = {}
Kept == {b \in told : b.id \notin gone}
InTable == Kept \subseteq full /\ (ready => Kept \subseteq seen)
Listed(p) == Kept \subseteq listing[p] /\ \A a \in listing[p] : a \in full \/ a.id \in away[p]
Telling(p) ==
  /\ ready /\ changes[p] \subseteq seen /\ changes[p] \cap Kept = {}
  /\ \A a \in changes[p] : a \in full \/ a.id \in away[p]
Behind(p, q) == \A a \in changes[q] : a \in listing[p] \/ a.id \in away[q]
Order ==
  /\ \A p, q \in Pollers : pc[p] = "enqueue" /\ pc[q] = "enqueue" => p = q
  /\ \A p \in Pollers : pc[p] = "compare" => Listed(p)
  /\ \A p \in Pollers : pc[p] = "enqueue" => Telling(p)
  /\ \A p, q \in Pollers : pc[p] = "compare" /\ pc[q] = "enqueue" => Behind(p, q)
Clear == ~blurred /\ ~crossed
RepeatInv == PollsTyped /\ Quiet /\ (Clear => InTable /\ Order)

(* What leaves the host is not kept. *)
LEMMA HostKeepsRepeats == RepeatInv /\ HostChange => RepeatInv'
<1> SUFFICES ASSUME RepeatInv, HostChange PROVE RepeatInv'
  OBVIOUS
<1>1. PICK lost : lost = {a.id : a \in full \ full'}
  OBVIOUS
<1>2. /\ UNCHANGED <<pc, listing, changes, seen, ready, told, blurred, crossed>>
      /\ gone' = gone \cup lost
      /\ away' = [p \in Pollers |-> IF pc[p] \in {"compare", "enqueue"} THEN away[p] \cup lost ELSE away[p]]
  BY <1>1 DEF HostChange
<1>3. \A a \in full : a \in full' \/ a.id \in lost
  BY <1>1
<1>4. PollsTyped' /\ Quiet'
  BY <1>2 DEF RepeatInv, PollsTyped, Quiet
<1>5. Kept' \subseteq Kept /\ \A a \in Kept' : a.id \notin lost
  BY <1>2 DEF Kept
<1>6. ASSUME Clear' PROVE InTable' /\ Order'
  <2>1. InTable /\ Order
    BY <1>2, <1>6 DEF RepeatInv, Clear
  <2>2. InTable'
    BY <1>2, <1>3, <1>5, <2>1 DEF InTable
  <2>3. \A p \in Pollers : pc[p] = "compare" => Listed(p)'
    BY <1>2, <1>3, <1>5, <2>1 DEF Order, Listed
  <2>4. \A p \in Pollers : pc[p] = "enqueue" => Telling(p)'
    BY <1>2, <1>3, <1>5, <2>1 DEF Order, Telling
  <2>5. \A p, q \in Pollers : pc[p] = "compare" /\ pc[q] = "enqueue" => Behind(p, q)'
    BY <1>2, <2>1 DEF Order, Behind
  <2> QED
    BY <1>2, <2>1, <2>2, <2>3, <2>4, <2>5 DEF Order
<1> QED
  BY <1>4, <1>6 DEF RepeatInv

(* A listing that misses nothing has all that is kept. *)
LEMMA ListKeepsRepeats == ASSUME NEW p \in Pollers PROVE RepeatInv /\ List(p) => RepeatInv'
<1> SUFFICES ASSUME RepeatInv, List(p) PROVE RepeatInv'
  OBVIOUS
<1>1. UNCHANGED <<full, changes, seen, ready, told, away, gone, crossed>> /\ pc[p] = "list"
  BY DEF List, machine
<1>2. (\E place \in {"compare", "idle"} : pc' = [pc EXCEPT ![p] = place]) /\ DOMAIN listing' = Pollers
  BY DEF List, RepeatInv, PollsTyped
<1>3. PollsTyped' /\ Quiet'
  BY <1>1, <1>2 DEF RepeatInv, PollsTyped, PlacesOf, Quiet
<1>4. UNCHANGED Kept
  BY <1>1 DEF Kept
<1>5. ASSUME Clear' PROVE InTable' /\ Order'
  <2>1. Clear
    BY <1>1, <1>5 DEF List, Clear
  <2>2. InTable /\ Order
    BY <2>1 DEF RepeatInv
  <2>3. \/ pc' = [pc EXCEPT ![p] = "compare"] /\ listing' = [listing EXCEPT ![p] = full]
        \/ pc' = [pc EXCEPT ![p] = "idle"] /\ UNCHANGED listing
    BY <1>5 DEF List, Clear
  <2>4. \A q \in Pollers \ {p} : pc'[q] = pc[q] /\ listing'[q] = listing[q]
    BY <2>3 DEF RepeatInv, PollsTyped
  <2>5. pc'[p] # "enqueue" /\ (pc'[p] = "compare" => listing'[p] = full)
    BY <2>3 DEF RepeatInv, PollsTyped
  <2>6. InTable'
    BY <1>1, <1>4, <2>2 DEF InTable
  <2>7. \A q \in Pollers : pc'[q] = "compare" => Listed(q)'
    BY <1>1, <1>4, <2>2, <2>4, <2>5 DEF Order, Listed, InTable
  <2>8. \A q \in Pollers : pc'[q] = "enqueue" => Telling(q)'
    BY <1>1, <1>4, <2>2, <2>4, <2>5 DEF Order, Telling
  <2>9. \A q, r \in Pollers : pc'[q] = "compare" /\ pc'[r] = "enqueue" => Behind(q, r)'
    BY <1>1, <2>2, <2>4, <2>5 DEF Order, Behind, Telling
  <2> QED
    BY <2>2, <2>4, <2>5, <2>6, <2>7, <2>8, <2>9 DEF Order
<1> QED
  BY <1>3, <1>5 DEF RepeatInv

(* A comparison takes the table from a listing that has what is kept; it   *)
(* is alone, or the polls overlap.                                         *)
LEMMA CompareKeepsRepeats == ASSUME NEW p \in Pollers PROVE RepeatInv /\ Compare(p) => RepeatInv'
<1> SUFFICES ASSUME RepeatInv, Compare(p) PROVE RepeatInv'
  OBVIOUS
<1>1. /\ pc[p] = "compare" /\ pc' = [pc EXCEPT ![p] = "enqueue"]
      /\ seen' = listing[p] /\ ready' = TRUE
      /\ changes' = [changes EXCEPT ![p] = IF ready THEN listing[p] \ seen ELSE {}]
      /\ listing' = [listing EXCEPT ![p] = {}]
      /\ UNCHANGED <<full, away, blurred>>
  BY DEF Compare, machine
<1>2. PollsTyped' /\ Quiet'
  BY <1>1 DEF RepeatInv, PollsTyped, PlacesOf, Quiet
<1>3. ASSUME Clear' PROVE InTable' /\ Order'
  <2>1. Clear /\ \A q \in Pollers \ {p} : pc[q] \notin {"compare", "enqueue"}
    <3>1. crossed' = (crossed \/ \E q \in Pollers \ {p} : pc[q] \in {"compare", "enqueue"})
      BY DEF Compare, Others
    <3>2. ~crossed' /\ ~blurred
      BY <1>1, <1>3 DEF Clear
    <3>3. ~crossed /\ ~(\E q \in Pollers \ {p} : pc[q] \in {"compare", "enqueue"})
      BY <3>1, <3>2, Zenon
    <3> QED
      BY <3>2, <3>3 DEF Clear
  <2>2. InTable /\ Listed(p)
    BY <1>1, <2>1 DEF RepeatInv, Order
  <2>3. \A q \in Pollers \ {p} : pc'[q] \notin {"compare", "enqueue"}
    BY <1>1, <2>1 DEF RepeatInv, PollsTyped
  <2>4. pc'[p] = "enqueue" /\ changes'[p] = IF ready THEN listing[p] \ seen ELSE {}
    BY <1>1 DEF RepeatInv, PollsTyped
  <2>5. Kept' \subseteq listing[p] /\ Kept' \subseteq full
    <3>1. CASE ready
      <4>1. UNCHANGED <<told, gone>>
        BY <3>1 DEF Compare
      <4> QED
        BY <2>2, <4>1 DEF Kept, InTable, Listed
    <3>2. CASE ~ready
      <4>1. told' = listing[p] /\ gone' = away[p]
        BY <3>2 DEF Compare
      <4> QED
        BY <2>2, <4>1 DEF Kept, Listed
    <3> QED
      BY <3>1, <3>2
  <2>6. changes'[p] \cap Kept' = {}
    <3>1. CASE ready
      <4>1. UNCHANGED Kept
        BY <3>1 DEF Compare, Kept
      <4> QED
        BY <2>2, <2>4, <3>1, <4>1 DEF InTable
    <3>2. CASE ~ready
      BY <2>4, <3>2
    <3> QED
      BY <3>1, <3>2
  <2>7. Telling(p)'
    BY <1>1, <2>2, <2>4, <2>6 DEF Telling, Listed
  <2>8. InTable'
    BY <1>1, <2>5 DEF InTable
  <2> QED
    BY <2>3, <2>4, <2>7, <2>8 DEF Order
<1> QED
  BY <1>2, <1>3 DEF RepeatInv

(* What a poll tells is in the table, and kept unless it has left since it *)
(* was listed.                                                             *)
LEMMA EnqueueKeepsRepeats == ASSUME NEW p \in Pollers PROVE RepeatInv /\ Enqueue(p) => RepeatInv'
<1> SUFFICES ASSUME RepeatInv, Enqueue(p) PROVE RepeatInv'
  OBVIOUS
<1>1. pc[p] = "enqueue" /\ UNCHANGED <<full, listing, seen, ready, blurred, crossed>>
  BY DEF Enqueue, machine
<1>2. CASE changes[p] = {}
  <2>1. pc' = [pc EXCEPT ![p] = "idle"] /\ away' = [away EXCEPT ![p] = {}] /\ UNCHANGED <<changes, told, gone>>
    BY <1>2 DEF Enqueue
  <2>2. /\ pc'[p] = "idle" /\ \A q \in Pollers \ {p} : pc'[q] = pc[q] /\ away'[q] = away[q]
        /\ PollsTyped' /\ Quiet'
    BY <1>1, <1>2, <2>1 DEF RepeatInv, PollsTyped, PlacesOf, Quiet
  <2>3. UNCHANGED Kept
    BY <2>1 DEF Kept
  <2>4. ASSUME Clear' PROVE InTable' /\ Order'
    <3>1. InTable /\ Order
      BY <1>1, <2>4 DEF RepeatInv, Clear
    <3>2. InTable'
      BY <1>1, <2>3, <3>1 DEF InTable
    <3>3. \A q \in Pollers : pc'[q] = "compare" => Listed(q)'
      BY <1>1, <2>2, <2>3, <3>1 DEF Order, Listed
    <3>4. \A q \in Pollers : pc'[q] = "enqueue" => Telling(q)'
      BY <1>1, <2>1, <2>2, <2>3, <3>1 DEF Order, Telling
    <3>5. \A q, r \in Pollers : pc'[q] = "compare" /\ pc'[r] = "enqueue" => Behind(q, r)'
      BY <1>1, <2>1, <2>2, <3>1 DEF Order, Behind
    <3> QED
      BY <2>2, <3>1, <3>2, <3>3, <3>4, <3>5 DEF Order
  <2> QED
    BY <2>2, <2>4 DEF RepeatInv
<1>3. CASE changes[p] # {}
  <2>1. PICK a \in changes[p] :
          /\ changes' = [changes EXCEPT ![p] = @ \ {a}]
          /\ told' = {b \in told : b.id # a.id} \cup {a}
          /\ gone' = (gone \ {a.id}) \cup (away[p] \cap {a.id})
          /\ UNCHANGED <<pc, away>>
    BY <1>3 DEF Enqueue
  <2>2. /\ changes'[p] = changes[p] \ {a} /\ \A q \in Pollers \ {p} : changes'[q] = changes[q]
        /\ PollsTyped' /\ Quiet'
    BY <1>1, <2>1 DEF RepeatInv, PollsTyped, Quiet
  <2>3. Kept' \subseteq Kept \cup {a} /\ (a \in Kept' => a.id \notin away[p])
    BY <2>1 DEF Kept
  <2>4. ASSUME Clear' PROVE InTable' /\ Order'
    <3>1. InTable /\ Order /\ Telling(p) /\ a \in changes[p]
      BY <1>1, <2>1, <2>4 DEF RepeatInv, Clear, Order
    <3>2. InTable'
      BY <1>1, <2>3, <3>1 DEF InTable, Telling
    <3>3. ASSUME NEW q \in Pollers, pc[q] = "compare" PROVE Listed(q)'
      <4>1. Listed(q) /\ Behind(q, p)
        BY <1>1, <3>1, <3>3 DEF Order
      <4> QED
        BY <1>1, <2>1, <2>3, <4>1 DEF Listed, Behind
    <3>4. Telling(p)'
      BY <1>1, <2>1, <2>2, <2>3, <3>1 DEF Telling
    <3>5. \A q \in Pollers : pc[q] = "enqueue" => q = p
      BY <1>1, <3>1 DEF Order
    <3>6. \A q \in Pollers : pc[q] = "compare" => Behind(q, p)'
      BY <1>1, <2>1, <2>2, <3>1 DEF Order, Behind
    <3> QED
      BY <2>1, <3>2, <3>3, <3>4, <3>5, <3>6 DEF Order
  <2> QED
    BY <2>2, <2>4 DEF RepeatInv
<1> QED
  BY <1>2, <1>3

(* The other steps touch none of it. *)
LEMMA RepeatStep == RepeatInv /\ [Next]_vars => RepeatInv'
<1> SUFFICES ASSUME RepeatInv, [Next]_vars PROVE RepeatInv'
  OBVIOUS
<1>1. ASSUME UNCHANGED <<full, listing, changes, seen, ready, told, away, gone, blurred, crossed>>,
             \/ UNCHANGED pc
             \/ \E p \in Pollers, place \in {"list", "ended"} : pc[p] = "idle" /\ pc' = [pc EXCEPT ![p] = place]
      PROVE  RepeatInv'
  <2>1. PollsTyped' /\ Quiet'
    BY <1>1 DEF RepeatInv, PollsTyped, PlacesOf, Quiet
  <2>2. UNCHANGED <<Kept, InTable>>
    BY <1>1 DEF Kept, InTable
  <2>3. \A p \in Pollers : pc'[p] \in {"compare", "enqueue"} => pc'[p] = pc[p]
    BY <1>1 DEF RepeatInv, PollsTyped
  <2>4. \A p \in Pollers : UNCHANGED <<Listed(p), Telling(p)>> /\ \A q \in Pollers : UNCHANGED Behind(p, q)
    BY <1>1, <2>2 DEF Listed, Telling, Behind
  <2>5. Order => Order'
    BY <2>3, <2>4 DEF Order
  <2> QED
    BY <1>1, <2>1, <2>2, <2>5 DEF RepeatInv, Clear
<1>2. CASE WatcherEnds \/ Cancel \/ TakeWake \/ WakesEnd \/ Tick \/ UNCHANGED vars
  BY <1>1, <1>2 DEF WatcherEnds, Cancel, TakeWake, WakesEnd, Tick, vars, polls, machine, Pollers
<1>3. CASE Debounce
  BY <1>1, <1>3 DEF Debounce, Receive, ReceiveClosed, ReceiveDone, CloseOut, Close, polls, machine
<1>4. ASSUME NEW t \in Timers, Flushes(t) PROVE RepeatInv'
  BY <1>1, <1>4 DEF Flushes, Fire, Flush, Send, polls, machine
<1> QED
  BY <1>2, <1>3, <1>4, HostKeepsRepeats, ListKeepsRepeats, CompareKeepsRepeats, EnqueueKeepsRepeats DEF Next, Poll

(* An artifact is told again with the fingerprint it was told with only if *)
(* it left the host after the listing it was told from, a listing missed   *)
(* something, or two polls overlapped (security_monitor.go:57-67).         *)
THEOREM RepeatsHaveAReason == Spec => RepeatsAreExplained
<1>1. Init => RepeatInv
  BY DEF Init, RepeatInv, PollsTyped, PlacesOf, Quiet, Kept, InTable, Order
<1>2. ASSUME RepeatInv
      PROVE  \A p \in Pollers : \A a \in changes[p] \ changes'[p] : a \in told => a.id \in gone \/ blurred \/ crossed
  <2>1. ASSUME NEW p \in Pollers, NEW a \in changes[p], a \in told, Clear PROVE a.id \in gone
    <3>1. Telling(p)
      BY <1>2, <2>1 DEF RepeatInv, Quiet, Order
    <3> QED
      BY <2>1, <3>1 DEF Telling, Kept
  <2> QED
    BY <2>1 DEF Clear
<1> QED
  BY <1>1, <1>2, RepeatStep, PTL DEF Spec, RepeatsAreExplained
=============================================================================
