-------------------------- MODULE SecurityMonitor --------------------------
(* The security monitor (internal/collect/security: security_monitor.go,   *)
(* security_watch.go) and its two callers in the agent: the goroutine that *)
(* polls on each debounced wake of the platform watcher, and the ticker.   *)
(* A poll lists without the lock, compares under it, and its caller        *)
(* enqueues after it.                                                      *)
EXTENDS SecurityArtifacts

CONSTANTS
  Hosts,        \* the states the host can be in
  Reading,      \* Reading[h]: what there is to list of h
  Near,         \* Near[h]: the states h can change to
  Timers,       \* bound: debounce timers that exist at a time
  RawCap,       \* make(chan struct{}, 8) of the platform watcher
  MaxEvents     \* bound: changes of the host, and listings that fail or miss something

Watcher == "watcher"   \* range watcher.Run
Ticker == "ticker"     \* a.loop(SecurityInterval)
Pollers == {Watcher, Ticker}
Nil == "nil"           \* no timer

FullList == [h \in Hosts |-> Complete(Reading[h])]
PartList == [h \in Hosts |-> Incomplete(Reading[h])]

ASSUME SecurityAssumption ==
  /\ Near \in [Hosts -> SUBSET Hosts] /\ Nil \notin Timers
  /\ RawCap \in Nat \ {0} /\ MaxEvents \in Nat

VARIABLES
  host, full, partial,   \* the host, what a listing of it gives, and what it may give instead
  watching, raw,    \* the platform watcher; its channel, closed when it ends
  loop, timer, pending,   \* debounceWake's goroutine and its two variables
  ts,               \* each timer: "free", "armed", "flush" or "send"
  out, outClosed,   \* the wake channel, of capacity 1
  pc, listing, changes,   \* each poller, what it has listed, what it has to enqueue
  seen, ready,
  ctxDone, panicked,
  told,             \* the fingerprint of each artifact the agent took for known last
  away,             \* for each poller: artifacts that left the host since its listing
  gone,             \* artifacts that left the host since the listing they were told from
  unheard,          \* a notification no listing of the watcher's goroutine has followed
  blurred, crossed, \* a table from a partial or a late listing; polls that overlapped
  stray,            \* when the wake channel was closed, a flush had begun, or a timer
                    \* was armed that the variable had forgotten
  events            \* counter of the bound

debounce == <<watching, raw, loop, timer, pending, ts, out, outClosed, stray>>
polls == <<pc, listing, changes, seen, ready, told, away, gone, blurred, crossed>>
machine == <<host, full, partial>>
vars == <<machine, debounce, polls, ctxDone, panicked,
                 unheard, events>>

Init ==
  /\ host \in Hosts /\ full = FullList[host] /\ partial = PartList[host]
  /\ watching = TRUE /\ raw = 0
  /\ loop = "run" /\ timer = Nil /\ pending = FALSE /\ ts = [t \in Timers |-> "free"]
  /\ out = 0 /\ outClosed = FALSE
  /\ pc = [p \in Pollers |-> "idle"] /\ listing = [p \in Pollers |-> {}]
  /\ changes = [p \in Pollers |-> {}] /\ seen = {} /\ ready = FALSE
  /\ ctxDone = FALSE /\ panicked = FALSE
  /\ told = {} /\ away = [p \in Pollers |-> {}] /\ gone = {} /\ unheard = FALSE /\ blurred = FALSE /\ crossed = FALSE
  /\ stray = FALSE /\ events = 0

-----------------------------------------------------------------------------
(* The host changes, and the system may tell the watcher: kqueue sees the  *)
(* launch directories, the registry its keys.  A full channel has a wake   *)
(* to come.                                                                *)
HostChange ==
  /\ events < MaxEvents /\ ~ctxDone
  /\ events' = events + 1
  /\ \E h \in Near[host] :
       /\ host' = h /\ full' = FullList[h] /\ partial' = PartList[h]
       /\ gone' = gone \cup {a.id : a \in full \ full'}
       /\ away' = [p \in Pollers |-> IF pc[p] \in {"compare", "enqueue"}
                                     THEN away[p] \cup {a.id : a \in full \ full'} ELSE away[p]]
  /\ \E notified \in {watching, FALSE} :
       /\ raw' = IF notified /\ raw < RawCap THEN raw + 1 ELSE raw
       /\ unheard' = (unheard \/ notified)
  /\ UNCHANGED <<watching, loop, timer, pending, ts, out, outClosed, stray, pc, listing, changes,
                 seen, ready, told, blurred, crossed, ctxDone, panicked>>

(* Nothing to watch, an error of the system, or the end of ctx.            *)
WatcherEnds ==
  /\ watching
  /\ watching' = FALSE
  /\ UNCHANGED <<machine, raw, loop, timer, pending, ts, out, outClosed, stray, polls, ctxDone,
                 panicked, unheard, events>>

Cancel ==
  /\ ~ctxDone
  /\ ctxDone' = TRUE
  /\ UNCHANGED <<machine, debounce, polls, panicked, unheard, events>>

-----------------------------------------------------------------------------
(* debounceWake                                                            *)
Stopped(t) == [x \in Timers |-> IF x = t /\ ts[x] = "armed" THEN "free" ELSE ts[x]]

FreeTimers == {t \in Timers : ts[t] = "free"}

ReceiveBug ==   \* a wake that is already pending is left alone
  /\ loop = "run" /\ raw > 0 /\ FreeTimers # {}
  /\ raw' = raw - 1 /\ pending' = TRUE
  /\ LET t == CHOOSE x \in FreeTimers : TRUE
     IN /\ timer' = IF timer = Nil THEN t ELSE timer
        /\ ts' = IF timer = Nil THEN [ts EXCEPT ![t] = "armed"] ELSE Stopped(timer)
  /\ UNCHANGED <<machine, watching, loop, out, outClosed, stray, polls, ctxDone, panicked,
                 unheard, events>>

(* A notification: the timer starts over.  One whose flush has begun       *)
(* cannot be stopped.                                                      *)
Receive ==
  /\ loop = "run" /\ raw > 0 /\ FreeTimers # {}
  /\ raw' = raw - 1 /\ pending' = TRUE
  /\ LET t == CHOOSE x \in FreeTimers : TRUE
     IN timer' = t /\ ts' = [Stopped(timer) EXCEPT ![t] = "armed"]
  /\ UNCHANGED <<machine, watching, loop, out, outClosed, stray, polls, ctxDone, panicked,
                 unheard, events>>

Wake == IF out = 0 THEN 1 ELSE out   \* a send that does not block

Close ==   \* the deferred close(out)
  /\ loop' = "closing"
  /\ UNCHANGED <<machine, watching, raw, outClosed, stray, polls, ctxDone, panicked,
                 unheard, events>>

ReceiveClosedBug ==   \* the timer is left alone
  /\ loop = "run" /\ ~watching /\ raw = 0
  /\ pending' = FALSE /\ UNCHANGED <<timer, ts>>
  /\ out' = IF pending THEN Wake ELSE out
  /\ Close

(* The watcher has ended: its last wake is sent now.                       *)
ReceiveClosed ==
  /\ loop = "run" /\ ~watching /\ raw = 0
  /\ timer' = Nil /\ ts' = Stopped(timer) /\ pending' = FALSE
  /\ out' = IF pending THEN Wake ELSE out
  /\ Close

ReceiveDone ==
  /\ loop = "run" /\ ctxDone
  /\ ts' = Stopped(timer)
  /\ UNCHANGED <<timer, pending, out>>
  /\ Close

CloseOut ==
  /\ loop = "closing"
  /\ loop' = "closed" /\ outClosed' = TRUE
  /\ stray' = (\E t \in Timers : \/ ts[t] \in {"flush", "send"}
                                  \/ (ts[t] = "armed" /\ timer # t))
  /\ UNCHANGED <<machine, watching, raw, timer, pending, ts, out, polls, ctxDone, panicked,
                 unheard, events>>

Fire(t) ==
  /\ ts[t] = "armed"
  /\ ts' = [ts EXCEPT ![t] = "flush"]
  /\ UNCHANGED <<machine, watching, raw, loop, timer, pending, out, outClosed, stray, polls, ctxDone,
                 panicked, unheard, events>>

(* flush under the lock: it forgets whatever timer there is by now, its    *)
(* own or one that was started since.                                      *)
Flush(t) ==
  /\ ts[t] = "flush"
  /\ ts' = [ts EXCEPT ![t] = "send"] /\ pending' = FALSE /\ timer' = Nil
  /\ UNCHANGED <<machine, watching, raw, loop, out, outClosed, stray, polls, ctxDone, panicked,
                 unheard, events>>

(* then its send, which panics on the closed channel in spite of default.  *)
Send(t) ==
  /\ ts[t] = "send"
  /\ ts' = [ts EXCEPT ![t] = "free"]
  /\ IF outClosed THEN panicked' = TRUE /\ UNCHANGED out
                  ELSE out' = Wake /\ UNCHANGED panicked
  /\ UNCHANGED <<machine, watching, raw, loop, timer, pending, outClosed, stray, polls, ctxDone,
                 unheard, events>>

-----------------------------------------------------------------------------
(* The pollers.  range over the wakes ends when the channel is closed.     *)
TakeWake ==
  /\ pc[Watcher] = "idle" /\ out = 1
  /\ out' = 0 /\ pc' = [pc EXCEPT ![Watcher] = "list"]
  /\ UNCHANGED <<machine, watching, raw, loop, timer, pending, ts, outClosed, stray, listing, changes,
                 seen, ready, told, away, gone, blurred, crossed, ctxDone, panicked, unheard, events>>

WakesEnd ==
  /\ pc[Watcher] = "idle" /\ out = 0 /\ outClosed
  /\ pc' = [pc EXCEPT ![Watcher] = "ended"]
  /\ UNCHANGED <<machine, debounce, listing, changes, seen, ready, told, away, gone, blurred, crossed,
                 ctxDone, panicked, unheard, events>>

Tick ==
  /\ pc[Ticker] = "idle" /\ ~ctxDone
  /\ pc' = [pc EXCEPT ![Ticker] = "list"]
  /\ UNCHANGED <<machine, debounce, listing, changes, seen, ready, told, away, gone, blurred, crossed,
                 ctxDone, panicked, unheard, events>>

(* listSecurityArtifacts: an error ends the poll; a file or a tool that    *)
(* fails only leaves its artifacts out.                                    *)
List(p) ==
  /\ pc[p] = "list"
  /\ unheard' = (unheard /\ p # Watcher)
  /\ \/ /\ pc' = [pc EXCEPT ![p] = "compare"]
        /\ listing' = [listing EXCEPT ![p] = full]
        /\ UNCHANGED <<blurred, events>>
     \/ /\ events < MaxEvents /\ events' = events + 1
        /\ pc' = [pc EXCEPT ![p] = "compare"]
        /\ \E t \in partial \ {full} : listing' = [listing EXCEPT ![p] = t]
        /\ blurred' = TRUE
     \/ /\ events < MaxEvents /\ events' = events + 1
        /\ pc' = [pc EXCEPT ![p] = "idle"]
        /\ UNCHANGED <<listing, blurred>>
  /\ UNCHANGED <<machine, debounce, changes, seen, ready, told, away, gone, crossed, ctxDone, panicked>>

Others(p) == Pollers \ {p}

CompareBug(p) ==   \* only what is new by its id is a change
  /\ pc[p] = "compare"
  /\ seen' = listing[p] /\ ready' = TRUE
  /\ LET news == {a \in listing[p] : \A b \in seen : b.id # a.id}
     IN /\ changes' = [changes EXCEPT ![p] = IF ready THEN news ELSE {}]
        /\ IF ready THEN UNCHANGED <<told, gone>> ELSE told' = listing[p] /\ gone' = away[p]
  /\ pc' = [pc EXCEPT ![p] = "enqueue"]
  /\ listing' = [listing EXCEPT ![p] = {}]
  /\ crossed' = (crossed \/ \E q \in Others(p) : pc[q] \in {"compare", "enqueue"})
  /\ UNCHANGED <<machine, debounce, away, blurred, ctxDone, panicked, unheard, events>>

CompareMergesBug(p) ==   \* the first table is kept under the later ones
  /\ pc[p] = "compare"
  /\ seen' = IF ready THEN seen ELSE listing[p]
  /\ ready' = TRUE
  /\ changes' = [changes EXCEPT ![p] = IF ready THEN listing[p] \ seen ELSE {}]
  /\ IF ready THEN UNCHANGED <<told, gone>> ELSE told' = listing[p] /\ gone' = away[p]
  /\ pc' = [pc EXCEPT ![p] = "enqueue"]
  /\ listing' = [listing EXCEPT ![p] = {}]
  /\ crossed' = (crossed \/ \E q \in Others(p) : pc[q] \in {"compare", "enqueue"})
  /\ UNCHANGED <<machine, debounce, away, blurred, ctxDone, panicked, unheard, events>>

(* The rest of Poll, under the lock: the first table is a silent baseline; *)
(* later, what is new or has another fingerprint is a change.  What has    *)
(* left the table is forgotten without a report.                           *)
Compare(p) ==
  /\ pc[p] = "compare"
  /\ seen' = listing[p] /\ ready' = TRUE
  /\ changes' = [changes EXCEPT ![p] = IF ready THEN listing[p] \ seen ELSE {}]
  /\ IF ready THEN UNCHANGED <<told, gone>> ELSE told' = listing[p] /\ gone' = away[p]
  /\ pc' = [pc EXCEPT ![p] = "enqueue"]
  /\ listing' = [listing EXCEPT ![p] = {}]
  /\ crossed' = (crossed \/ \E q \in Others(p) : pc[q] \in {"compare", "enqueue"})
  /\ UNCHANGED <<machine, debounce, away, blurred, ctxDone, panicked, unheard, events>>

(* The caller enqueues the changes, in the order of a map.                 *)
Enqueue(p) ==
  /\ pc[p] = "enqueue"
  /\ IF changes[p] = {}
     THEN /\ pc' = [pc EXCEPT ![p] = "idle"]
          /\ away' = [away EXCEPT ![p] = {}]
          /\ UNCHANGED <<changes, told, gone>>
     ELSE \E a \in changes[p] :
            /\ changes' = [changes EXCEPT ![p] = @ \ {a}]
            /\ told' = {b \in told : b.id # a.id} \cup {a}
            /\ gone' = (gone \ {a.id}) \cup (away[p] \cap {a.id})
            /\ UNCHANGED <<pc, away>>
  /\ UNCHANGED <<machine, debounce, listing, seen, ready, blurred, crossed, ctxDone, panicked,
                 unheard, events>>

Debounce == Receive \/ ReceiveClosed \/ ReceiveDone \/ CloseOut
Flushes(t) == Fire(t) \/ Flush(t) \/ Send(t)
Poll(p) == List(p) \/ Compare(p) \/ Enqueue(p)

Next ==
  /\ ~panicked
  /\ \/ HostChange \/ WatcherEnds \/ Cancel
     \/ Debounce \/ \E t \in Timers : Flushes(t)
     \/ TakeWake \/ WakesEnd \/ Tick \/ \E p \in Pollers : Poll(p)

Spec == Init /\ [][Next]_vars

(* The goroutines run, timers fire and the ticker ticks; the agent's loops *)
(* do not starve.  Nothing makes the host change, a listing fail, the      *)
(* watcher end or the agent stop.                                          *)
Fairness ==
  /\ WF_vars(~panicked /\ Debounce) /\ \A t \in Timers : WF_vars(~panicked /\ Flushes(t))
  /\ WF_vars(~panicked /\ (TakeWake \/ WakesEnd))
  /\ \A p \in Pollers : WF_vars(~panicked /\ Poll(p))
  /\ WF_vars(~panicked /\ Tick)

FairSpec == Spec /\ Fairness

-----------------------------------------------------------------------------
(* A wake is not lost between the watcher, the timer and the poll, nor     *)
(* when the watcher ends (security_watch.go:56-73): while the agent runs,  *)
(* a notification is followed by a listing of the goroutine it is for.     *)
WakeReachesPoll == unheard ~> (~unheard \/ ctxDone \/ panicked)

(* With the ticker, and whatever listings missed, what the agent has told  *)
(* or taken for its baseline agrees in the end with every artifact on the  *)
(* host; except when polls overlapped, as an older report may then be      *)
(* enqueued after a newer one (security_monitor.go:34, agent.go:211-222).  *)
ReportsConverge ==
  <>[](ctxDone \/ panicked \/ crossed \/ (ready /\ full \subseteq told))

(* An artifact is told again with the fingerprint it was told with only if *)
(* it left the host after the listing it was told from, a listing missed   *)
(* something, or two polls overlapped (security_monitor.go:57-67).         *)
RepeatsAreExplained ==
  [][\A p \in Pollers : \A a \in changes[p] \ changes'[p] :
       a \in told => a.id \in gone \/ blurred \/ crossed]_vars

(* A send on the closed wake channel is left to one race: a flush that had *)
(* begun, or whose timer another flush had forgotten, when it was closed   *)
(* (security_watch.go:37-47, 50-54, 59-62).                                *)
PanicNeedsStrayFlush == panicked => outClosed /\ stray
=============================================================================
