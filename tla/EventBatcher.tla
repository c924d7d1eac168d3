---------------------------- MODULE EventBatcher ----------------------------
(* internal/agent/batcher.go with the ring of ring.go: collectors Enqueue, *)
(* one goroutine (Run) flushes.  An event is named by its place in the     *)
(* order of pushes, counted over all starts of the agent.  The ring's file *)
(* survives the process; a write of it may fail.  The ingest API may take  *)
(* a request whose answer the agent never sees.                            *)
EXTENDS EventRing, FiniteSets

CONSTANTS
  Producers,        \* the goroutines that call Enqueue
  Capacities,       \* the EventQueueCapacity values a start may be given
  MaxSize,          \* opts.MaxSize: events per batch
  FlushEvery,       \* opts.FlushEvery, in some unit of time
  MaxBackoff,       \* opts.MaxBackoff, in the same unit
  Batch,            \* client.Batch: one request per batch, or one per event
  MaxEvents,        \* bound: events pushed
  MaxPersistFails,  \* bound: failed writes of the ring file
  MaxPostFails,     \* bound: uploads that fail while the agent is running
  MaxStarts         \* bound: starts of the process

ASSUME BatcherAssumption ==
  /\ Capacities \subseteq Nat \ {0}
  /\ MaxSize \in Nat \ {0}
  /\ FlushEvery \in Nat \ {0} /\ MaxBackoff \in Nat \ {0}
  /\ Batch \in BOOLEAN
  /\ {MaxEvents, MaxPersistFails, MaxPostFails, MaxStarts} \subseteq Nat

VARIABLES
  ring, capacity,   \* b.queue: the ring in memory and its capacity
  disk,             \* the ring file
  pc,               \* where Run is; "down": there is no process
  cancelled,        \* ctx.Done() is closed
  batch, sent,      \* Flush: the peeked batch, how much the API took of it
  retried,          \* Flush: the post is repeated with a renewed token
  flushErr,         \* the last Flush returned an error
  shutdown,         \* this Flush is the final one
  wake,             \* the one-slot channel b.wake holds a token
  timer, backoff,   \* Run: its timer and the delay it is reset to
  enq,              \* where each Enqueue is
  pushed,           \* history: number of events pushed
  pushedAtStart,    \* history: the same, when this process started
  accepted,         \* history: events the API has taken
  cutOff,           \* history: events a start had no room for and left in the file
  droppedAtPeek,    \* history: the drop count when the batch was peeked
  streak,           \* history: failed flushes in a row that made the delay grow
  persistFails, postFails, starts   \* counters of the bounds

ringVars  == <<ring, capacity, disk>>
flushVars == <<batch, sent, retried, flushErr, shutdown, droppedAtPeek>>
loopVars  == <<timer, backoff, streak>>
history   == <<pushed, pushedAtStart, accepted, cutOff>>
bounds    == <<persistFails, postFails, starts>>
vars == <<ringVars, pc, cancelled, flushVars, wake, loopVars, enq, history, bounds>>

Up == pc # "down"

Init ==
  /\ ring = EmptyRing /\ disk = EmptyRing /\ capacity \in Capacities
  /\ pc = "down" /\ cancelled = FALSE
  /\ batch = << >> /\ sent = 0 /\ retried = FALSE /\ flushErr = FALSE /\ shutdown = FALSE
  /\ droppedAtPeek = 0
  /\ wake = FALSE /\ timer = "stopped" /\ backoff = FlushEvery /\ streak = 0
  /\ enq = [p \in Producers |-> "idle"]
  /\ pushed = 0 /\ pushedAtStart = 0 /\ accepted = {} /\ cutOff = {}
  /\ persistFails = 0 /\ postFails = 0 /\ starts = 0

PersistFirstBug(ok) ==   \* writes the ring as it was before the change
  IF ok THEN disk' = ring /\ UNCHANGED persistFails
        ELSE /\ persistFails < MaxPersistFails
             /\ persistFails' = persistFails + 1
             /\ UNCHANGED disk

(* persistLocked, called under the ring's lock: the file is replaced by a  *)
(* rename, so a failure leaves the previous file whole.                    *)
PersistLocked(ok) ==
  IF ok THEN disk' = ring' /\ UNCHANGED persistFails
        ELSE /\ persistFails < MaxPersistFails
             /\ persistFails' = persistFails + 1
             /\ UNCHANGED disk

(* The process: a start opens the ring and arms Run's timer; a signal      *)
(* cancels the context; the process ends by a crash, or because main       *)
(* returns once the context is cancelled, without waiting for Run.         *)
Start ==
  /\ pc = "down" /\ starts < MaxStarts
  /\ \E c \in Capacities : capacity' = c /\ ring' = Load(disk, c)
  /\ starts' = starts + 1 /\ pushedAtStart' = pushed
  /\ cutOff' = cutOff \cup (Held(disk) \ Held(ring'))
  /\ pc' = "select"
  /\ timer' = "running" /\ backoff' = FlushEvery /\ streak' = 0
  /\ UNCHANGED <<disk, cancelled, flushVars, wake, enq, pushed, accepted, persistFails, postFails>>

Cancel ==
  /\ Up /\ ~cancelled
  /\ cancelled' = TRUE
  /\ UNCHANGED <<ringVars, pc, flushVars, wake, loopVars, enq, history, bounds>>

ProcessEnds ==
  /\ Up
  /\ pc' = "down" /\ cancelled' = FALSE
  /\ ring' = EmptyRing
  /\ batch' = << >> /\ sent' = 0 /\ retried' = FALSE /\ flushErr' = FALSE /\ shutdown' = FALSE
  /\ droppedAtPeek' = 0
  /\ wake' = FALSE /\ timer' = "stopped" /\ backoff' = FlushEvery /\ streak' = 0
  /\ enq' = [p \in Producers |-> "idle"]
  /\ UNCHANGED <<capacity, disk, history, bounds>>

(* Enqueue: Push takes and releases the ring's lock; the length test takes *)
(* it again; then comes the non-blocking signal.  Others run in between.   *)
EnqueuePush(p) ==
  /\ Up /\ enq[p] = "idle" /\ pushed < MaxEvents
  /\ pushed' = pushed + 1
  /\ ring' = Push(ring, capacity, pushed + 1)
  /\ \E ok \in BOOLEAN : PersistLocked(ok)
  /\ enq' = [enq EXCEPT ![p] = "pushed"]
  /\ UNCHANGED <<capacity, pc, cancelled, flushVars, wake, loopVars, pushedAtStart, accepted, cutOff, postFails, starts>>

EnqueueTestBug(p) ==   \* signals one event too late
  /\ Up /\ enq[p] = "pushed"
  /\ enq' = [enq EXCEPT ![p] = IF Len(ring.events) > MaxSize THEN "full" ELSE "idle"]
  /\ UNCHANGED <<ringVars, pc, cancelled, flushVars, wake, loopVars, history, bounds>>

EnqueueTest(p) ==
  /\ Up /\ enq[p] = "pushed"
  /\ enq' = [enq EXCEPT ![p] = IF Len(ring.events) >= MaxSize THEN "full" ELSE "idle"]
  /\ UNCHANGED <<ringVars, pc, cancelled, flushVars, wake, loopVars, history, bounds>>

EnqueueSignal(p) ==
  /\ Up /\ enq[p] = "full"
  /\ wake' = TRUE
  /\ enq' = [enq EXCEPT ![p] = "idle"]
  /\ UNCHANGED <<ringVars, pc, cancelled, flushVars, loopVars, history, bounds>>

(* Run: the timer, and the three cases of its select. *)
TimerFires ==
  /\ timer = "running"
  /\ timer' = "fired"
  /\ UNCHANGED <<ringVars, pc, cancelled, flushVars, wake, backoff, streak, enq, history, bounds>>

SelectDoneBug ==   \* the final flush is not followed by a return
  /\ pc = "select" /\ cancelled
  /\ pc' = "peek"
  /\ UNCHANGED <<ringVars, cancelled, flushVars, wake, loopVars, enq, history, bounds>>

SelectDone ==
  /\ pc = "select" /\ cancelled
  /\ pc' = "peek" /\ shutdown' = TRUE
  /\ UNCHANGED <<ringVars, cancelled, batch, sent, retried, flushErr, droppedAtPeek, wake, loopVars, enq, history, bounds>>

SelectTimer ==
  /\ pc = "select" /\ timer = "fired"
  /\ pc' = "peek" /\ timer' = "stopped"
  /\ UNCHANGED <<ringVars, cancelled, flushVars, wake, backoff, streak, enq, history, bounds>>

SelectWake ==
  /\ pc = "select" /\ wake
  /\ pc' = "peek" /\ wake' = FALSE /\ timer' = "stopped"
  /\ UNCHANGED <<ringVars, cancelled, flushVars, backoff, streak, enq, history, bounds>>

(* Flush: peek, post, ack. *)
FlushPeek ==
  /\ pc = "peek"
  /\ batch' = Peek(ring, MaxSize)
  /\ sent' = 0 /\ retried' = FALSE /\ flushErr' = FALSE /\ droppedAtPeek' = ring.dropped
  /\ pc' = IF batch' = << >> THEN "finish" ELSE "post"
  /\ UNCHANGED <<ringVars, cancelled, shutdown, wake, loopVars, enq, history, bounds>>

(* An upload may fail; the bound counts the failures of a running agent.   *)
UploadFailure ==
  IF cancelled THEN UNCHANGED postFails
               ELSE postFails < MaxPostFails /\ postFails' = postFails + 1

(* The API takes the next request of the post: the whole batch, or with    *)
(* Batch off one event.  An answer may still be lost.                      *)
PostTaken ==
  /\ pc = "post" /\ sent < Len(batch)
  /\ sent' = IF Batch THEN Len(batch) ELSE sent + 1
  /\ accepted' = accepted \cup {batch[i] : i \in 1 .. sent'}
  /\ UNCHANGED <<ringVars, pc, cancelled, batch, retried, flushErr, shutdown, droppedAtPeek, wake, loopVars, enq, pushed, pushedAtStart, cutOff, bounds>>

PostSucceeds ==
  /\ pc = "post" /\ sent = Len(batch)
  /\ pc' = "ack"
  /\ UNCHANGED <<ringVars, cancelled, flushVars, wake, loopVars, enq, history, bounds>>

(* The next request is refused with 401: the token is renewed, once in a   *)
(* call (AuthRecovery.tla), and the post starts over: with Batch off, from *)
(* the first event.                                                        *)
PostUnauthorized ==
  /\ pc = "post" /\ sent < Len(batch) /\ ~retried
  /\ retried' = TRUE /\ sent' = 0
  /\ UploadFailure
  /\ UNCHANGED <<ringVars, pc, cancelled, batch, flushErr, shutdown, droppedAtPeek, wake, loopVars, enq, history, persistFails, starts>>

(* A refused, lost or timed out request; once ctx is cancelled a post may  *)
(* always fail (ctx itself, or the 3 s of the shutdown flush).             *)
PostFails ==
  /\ pc = "post"
  /\ UploadFailure
  /\ pc' = "finish" /\ flushErr' = TRUE
  /\ UNCHANGED <<ringVars, cancelled, batch, sent, retried, shutdown, droppedAtPeek, wake, loopVars, enq, history, persistFails, starts>>

FlushAck ==
  /\ pc = "ack"
  /\ ring' = Ack(ring, Len(batch))
  /\ \E ok \in BOOLEAN : PersistLocked(ok) /\ flushErr' = ~ok
  /\ pc' = "finish"
  /\ UNCHANGED <<capacity, cancelled, batch, sent, retried, shutdown, droppedAtPeek, wake, loopVars, enq, history, postFails, starts>>

NextBackoffBug(current) == IF 2 * current < FlushEvery THEN FlushEvery ELSE 2 * current

(* What Run does with Flush's result: return after the final flush, else   *)
(* choose the next delay, signal itself when events are left, re-arm.      *)
NextBackoff(current) ==
  LET next == IF 2 * current < FlushEvery THEN FlushEvery ELSE 2 * current
  IN  IF next > MaxBackoff THEN MaxBackoff ELSE next

FlushReturnsBug ==   \* the timer is not re-armed after a failed flush
  /\ pc = "finish"
  /\ batch' = << >> /\ sent' = 0 /\ retried' = FALSE /\ droppedAtPeek' = 0
  /\ pc' = IF shutdown THEN "exited" ELSE "select"
  /\ timer' = IF shutdown \/ flushErr THEN "stopped" ELSE "running"
  /\ wake' = (wake \/ (~flushErr /\ ~shutdown /\ ring.events # << >>))
  /\ UNCHANGED <<ringVars, cancelled, flushErr, shutdown, backoff, streak, enq, history, bounds>>

FlushReturns ==
  /\ pc = "finish"
  /\ batch' = << >> /\ sent' = 0 /\ retried' = FALSE /\ droppedAtPeek' = 0
  /\ IF shutdown
       THEN /\ pc' = "exited"
            /\ timer' = "stopped"
            /\ UNCHANGED <<backoff, streak, wake>>
       ELSE /\ pc' = "select"
            /\ timer' = "running"
            /\ backoff' = IF flushErr THEN NextBackoff(backoff) ELSE FlushEvery
            /\ streak'  = IF ~flushErr THEN 0
                          ELSE IF backoff < MaxBackoff THEN streak + 1 ELSE streak
            /\ wake'    = (wake \/ (~flushErr /\ ring.events # << >>))
  /\ UNCHANGED <<ringVars, cancelled, flushErr, shutdown, enq, history, bounds>>

Flush == FlushPeek \/ PostTaken \/ PostSucceeds \/ PostUnauthorized \/ PostFails \/ FlushAck \/ FlushReturns
Run   == TimerFires \/ SelectDone \/ SelectTimer \/ SelectWake \/ Flush
Enqueue(p) == EnqueuePush(p) \/ EnqueueTest(p) \/ EnqueueSignal(p)

Next ==
  \/ Start \/ Cancel \/ ProcessEnds
  \/ \E p \in Producers : Enqueue(p)
  \/ Run

Spec == Init /\ [][Next]_vars

(* The runtime keeps every goroutine going; a select whose context is done *)
(* picks that case in the end, since Go chooses at random among the ready  *)
(* ones.  Nothing obliges a process to start, to be cancelled or to end.   *)
Fairness ==
  /\ WF_vars(Run) /\ WF_vars(TimerFires)
  /\ SF_vars(SelectDone)
  /\ \A p \in Producers : WF_vars(EnqueueTest(p) \/ EnqueueSignal(p))

FairSpec == Spec /\ Fairness

-----------------------------------------------------------------------------
(* What the ring and the batcher promise. *)

(* The types of the state. *)
RingType == [events : Seq(1 .. MaxEvents), dropped : Nat]
TypeOK ==
  /\ ring \in RingType /\ disk \in RingType /\ capacity \in Capacities
  /\ pc \in {"down", "select", "peek", "post", "ack", "finish", "exited"}
  /\ cancelled \in BOOLEAN
  /\ batch \in Seq(1 .. MaxEvents) /\ sent \in 0 .. Len(batch)
  /\ retried \in BOOLEAN /\ flushErr \in BOOLEAN /\ shutdown \in BOOLEAN /\ wake \in BOOLEAN
  /\ timer \in {"stopped", "running", "fired"}
  /\ backoff \in Nat \ {0} /\ streak \in Nat
  /\ enq \in [Producers -> {"idle", "pushed", "full"}]
  /\ pushed \in 0 .. MaxEvents /\ pushedAtStart \in 0 .. pushed
  /\ accepted \subseteq 1 .. MaxEvents /\ cutOff \subseteq 1 .. MaxEvents
  /\ droppedAtPeek \in Nat
  /\ persistFails \in 0 .. MaxPersistFails
  /\ postFails \in 0 .. MaxPostFails /\ starts \in 0 .. MaxStarts

(* The pushed events that neither the API nor this copy of the ring has. *)
LostFrom(r) == (1 .. pushed) \ (accepted \cup Held(r))

(* An event can only be lost with a trace of it: at any moment, whatever   *)
(* Enqueue overwrote while a batch was in flight, whatever Ack then took   *)
(* away and whatever a crash undid, the lost events are no more than the   *)
(* persisted drop counter plus the failed writes of the file (logged).     *)
(* Batcher.Dropped(), ring.go Push and Ack.                                *)
EveryLossCounted ==
  /\ Cardinality(LostFrom(disk)) <= disk.dropped + persistFails
  /\ Up => Cardinality(LostFrom(ring)) <= ring.dropped + persistFails

(* What a batch in flight still is in the ring: its first events were      *)
(* overwritten, one per drop since the peek, the rest are the ring's       *)
(* front; of the events outside it none is lost but those the counter had  *)
(* at the peek and the drops beyond the batch; what was posted was taken.  *)
(* Flush works on a copy (ring.go Peek) that Enqueue does not know of.     *)
Overwritten == ring.dropped - droppedAtPeek
BatchInFlight ==
  pc \in {"post", "ack"} =>
    /\ droppedAtPeek <= ring.dropped
    /\ \A i \in Overwritten + 1 .. Len(batch) :
         /\ i - Overwritten <= Len(ring.events)
         /\ batch[i] = ring.events[i - Overwritten]
    /\ Cardinality(LostFrom(ring) \ Range(batch)) <=
         droppedAtPeek + persistFails +
           (IF Overwritten > Len(batch) THEN Overwritten - Len(batch) ELSE 0)
    /\ \A i \in 1 .. sent : batch[i] \in accepted
    /\ pc = "ack" => sent = Len(batch)

(* While no write of the file has failed, nothing that is pending is only  *)
(* in memory: a process that ends here loses none of it.  ring.go Push     *)
(* and Ack, docs/architecture.md:127.                                      *)
PendingIsDurable ==
  (Up /\ persistFails = 0) =>
    /\ Held(ring) \subseteq Held(disk)
    /\ ring.dropped >= disk.dropped

(* A queue of a batch or more is flushed without waiting for the timer:    *)
(* when the loop waits in its select with that many events and nobody is   *)
(* about to signal, the wake token is there, unless the last flush failed  *)
(* (the loop backs off) or nothing was pushed on top of a restored queue.  *)
(* No interleaving of Enqueue's length test with Flush loses the wake-up.  *)
NoLostWakeup ==
  (pc = "select" /\ Len(ring.events) >= MaxSize) =>
    \/ wake
    \/ \E p \in Producers : enq[p] # "idle"
    \/ flushErr
    \/ pushed = pushedAtStart

(* With every write of the file succeeding, the API first sees the events  *)
(* in the order they were pushed, through overwrites, retries, partial     *)
(* posts and restarts.  The exceptions are events a start with a smaller   *)
(* capacity had no room for: OpenEventRing does not write the file, so a   *)
(* later start with more room can find them there and deliver them after   *)
(* newer ones.  ring.go:14 (a FIFO) and :116 (load).                       *)
FirstDeliveryInOrder ==
  [][persistFails = 0 =>
       \A e \in (accepted' \ accepted) \ cutOff : \A d \in accepted : d < e]_vars

(* FlushEvery doubled n times. *)
Doubled[n \in Nat] == IF n = 0 THEN FlushEvery ELSE 2 * Doubled[n - 1]

(* The delay of the retry loop is FlushEvery doubled once per failure in a *)
(* row, capped by MaxBackoff, and any good flush starts it over.           *)
BackoffFollowsFailures ==
  FlushEvery <= MaxBackoff =>
    backoff = IF Doubled[streak] < MaxBackoff THEN Doubled[streak] ELSE MaxBackoff

(* Once uploads stop failing, a running agent empties its queue: no wake   *)
(* token, timer or backoff state leaves events behind.                     *)
Drains == []<>(ring.events = << >> \/ cancelled \/ ~Up)

(* A cancelled agent gets through its final flush, or ends before it.      *)
ShutdownFlushEnds == cancelled ~> (pc = "exited" \/ ~Up)
=============================================================================
