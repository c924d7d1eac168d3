--------------------------- MODULE NetworkMonitor ---------------------------
(* The monitor of the network summary (internal/collect/network): Run's    *)
(* loop over the watcher's signals and the heartbeat, the debounce timer   *)
(* whose callback emits from a goroutine of its own, and the channel that  *)
(* the agent reads.  A summary is taken before the lock and sent under it. *)
EXTENDS NetworkState

CONSTANTS
  Hosts,        \* the states the host's network can be in
  Reading,      \* Reading[h]: what there is to read of h, a record of NetworkState
  None,         \* no summary yet
  Callbacks,    \* bound: debounce callbacks that can run at a time
  Main, Free,   \* Run's goroutine; nobody, for the lock
  SignalCap,    \* make(chan NetworkChangeReason, 8)
  OutCap,       \* make(chan NetworkChange, 4)
  MaxChanges,   \* bound: changes of the host
  MaxFailures   \* bound: reads of the host that fail

Procs == {Main} \cup Callbacks

(* The fingerprints of each host, and those of a read that misses a part.  *)
LinkOf == [h \in Hosts |-> LinkFingerprint(Reading[h])]
SummaryOf == [h \in Hosts |-> SummaryFingerprint(Reading[h])]
PartOf == [h \in Hosts |-> {SummaryFingerprint(r) : r \in PartlyRead(Reading[h])}]
Summaries == {SummaryOf[h] : h \in Hosts} \cup UNION {PartOf[h] : h \in Hosts}
Links == {LinkOf[h] : h \in Hosts} \cup {NoLink}

ASSUME NetworkAssumption ==
  /\ Main \notin Callbacks /\ Free \notin Procs
  /\ {SignalCap, OutCap} \subseteq Nat \ {0} /\ {MaxChanges, MaxFailures} \subseteq Nat
  /\ None \notin Summaries

VARIABLES
  host,        \* the network as it is
  watching,    \* the platform watcher runs
  signal,      \* signals in its channel
  pc,          \* each goroutine; a callback is "idle", "lock" or in emit
  note,        \* emit: its reason and the summary it has taken
  link,        \* checkLink: the fingerprint it has read
  mu,          \* who holds the mutex; Free: nobody
  lastLink, lastPosted,
  timer,       \* debounceTimer: "nil", "armed", or "fired" with its callback due
  out,         \* the output channel
  closed, ctxDone, panicked,
  shown,       \* the summary the agent enqueued last
  late,        \* a callback was running when the channel was closed
  changes, failures   \* counters of the bounds

monitor == <<pc, note, link, mu, lastLink, lastPosted, timer>>
channel == <<out, closed, late>>
vars == <<host, watching, signal, monitor, channel, ctxDone, panicked, shown, changes, failures>>

Reasons == {"initial", "link_change", "heartbeat"}

NoNote == [reason |-> "initial", fp |-> None]

Init ==
  /\ host \in Hosts /\ watching = TRUE /\ signal = 0
  /\ pc = [p \in Procs |-> IF p = Main THEN "summary" ELSE "idle"]
  /\ note = [p \in Procs |-> NoNote]
  /\ link = NoLink /\ mu = Free /\ lastLink = NoLink /\ lastPosted = None
  /\ timer = "nil" /\ out = << >> /\ closed = FALSE /\ ctxDone = FALSE /\ panicked = FALSE
  /\ shown = None /\ late = FALSE
  /\ changes = 0 /\ failures = 0

-----------------------------------------------------------------------------
(* The host and its watcher, which signals without blocking: netlink,      *)
(* route socket or interface poll.                                         *)
HostChange ==
  /\ changes < MaxChanges /\ ~ctxDone
  /\ changes' = changes + 1
  /\ \E h \in Hosts \ {host} :
       /\ host' = h
       /\ signal' = IF watching /\ LinkOf[h] # LinkOf[host] /\ signal < SignalCap
                    THEN signal + 1 ELSE signal
  /\ UNCHANGED <<watching, monitor, channel, ctxDone, panicked, shown, failures>>

(* Heartbeat only: no watcher on this platform, or an error ended it.      *)
WatcherEnds ==
  /\ watching /\ ~ctxDone
  /\ watching' = FALSE
  /\ UNCHANGED <<host, signal, monitor, channel, ctxDone, panicked, shown, changes, failures>>

Cancel ==
  /\ ~ctxDone
  /\ ctxDone' = TRUE
  /\ UNCHANGED <<host, watching, signal, monitor, channel, panicked, shown, changes, failures>>

(* A read of the host gives what is there, or less when it fails.          *)
Read(fp, good, less) ==
  \/ fp = good /\ UNCHANGED failures
  \/ fp \in less /\ failures < MaxFailures /\ failures' = failures + 1

ReadLink(fp) == Read(fp, LinkOf[host], {NoLink})
ReadSummary(fp) == Read(fp, SummaryOf[host], PartOf[host])

-----------------------------------------------------------------------------
(* emit: the summary, with a public address that may not be found.         *)
Done(p) ==   \* emit returns
  /\ pc' = [pc EXCEPT ![p] = IF p = Main THEN "loop" ELSE "idle"]
  /\ note' = [note EXCEPT ![p] = NoNote]

Summary(p) ==
  /\ pc[p] = "summary"
  /\ \E fp \in Summaries :
       ReadSummary(fp) /\ note' = [note EXCEPT ![p].fp = fp]
  /\ pc' = [pc EXCEPT ![p] = "post"]
  /\ UNCHANGED <<host, watching, signal, link, mu, lastLink, lastPosted, timer, channel, ctxDone,
                 panicked, shown, changes>>

Unchanged(n) == n.reason # "heartbeat" /\ n.fp = lastPosted

(* Under the lock: an unchanged summary is skipped; any other is recorded, *)
(* with the link as it is by now, before it is sent.                       *)
Post(p) ==
  /\ pc[p] = "post" /\ mu = Free
  /\ IF Unchanged(note[p])
     THEN /\ Done(p)
          /\ UNCHANGED <<mu, lastLink, lastPosted, failures>>
     ELSE /\ pc' = [pc EXCEPT ![p] = "send"] /\ mu' = p /\ UNCHANGED note
          /\ lastPosted' = note[p].fp
          /\ \E fp \in Links : ReadLink(fp) /\ lastLink' = fp
  /\ UNCHANGED <<host, watching, signal, link, timer, channel, ctxDone, panicked, shown, changes>>

SendBug(p) ==   \* a plain send, that cancellation does not end
  /\ pc[p] = "send" /\ ~closed /\ Len(out) < OutCap
  /\ out' = Append(out, note[p].fp)
  /\ mu' = Free /\ Done(p)
  /\ UNCHANGED <<host, watching, signal, link, lastLink, lastPosted, timer, closed, late,
                 ctxDone, panicked, shown, changes, failures>>

(* The select on the send and ctx.Done, with the lock held.  A send on the *)
(* closed channel is ready, and panics.                                    *)
Send(p) ==
  /\ pc[p] = "send"
  /\ \/ /\ ~closed /\ Len(out) < OutCap
        /\ out' = Append(out, note[p].fp)
        /\ mu' = Free /\ Done(p)
        /\ UNCHANGED panicked
     \/ /\ ctxDone
        /\ mu' = Free /\ Done(p)
        /\ UNCHANGED <<out, panicked>>
     \/ /\ closed
        /\ panicked' = TRUE
        /\ UNCHANGED <<mu, pc, note, out>>
  /\ UNCHANGED <<host, watching, signal, link, lastLink, lastPosted, timer, closed, late,
                 ctxDone, shown, changes, failures>>

-----------------------------------------------------------------------------
(* Run's loop: a signal, the heartbeat's tick, or the end.                 *)
ReceiveSignal ==
  /\ pc[Main] = "loop" /\ signal > 0
  /\ signal' = signal - 1
  /\ \E fp \in Links : ReadLink(fp) /\ link' = fp
  /\ pc' = [pc EXCEPT ![Main] = "check"]
  /\ UNCHANGED <<host, watching, note, mu, lastLink, lastPosted, timer, channel, ctxDone,
                 panicked, shown, changes>>

HeartbeatBug ==   \* nothing to do while the link is as it was
  /\ pc[Main] = "loop" /\ lastLink # LinkOf[host]
  /\ note' = [note EXCEPT ![Main].reason = "heartbeat"]
  /\ pc' = [pc EXCEPT ![Main] = "summary"]
  /\ UNCHANGED <<host, watching, signal, link, mu, lastLink, lastPosted, timer, channel,
                 ctxDone, panicked, shown, changes, failures>>

Heartbeat ==
  /\ pc[Main] = "loop"
  /\ note' = [note EXCEPT ![Main].reason = "heartbeat"]
  /\ pc' = [pc EXCEPT ![Main] = "summary"]
  /\ UNCHANGED <<host, watching, signal, link, mu, lastLink, lastPosted, timer, channel,
                 ctxDone, panicked, shown, changes, failures>>

(* checkLink, then scheduleEmit, each under the lock for itself.           *)
CheckLink ==
  /\ pc[Main] = "check" /\ mu = Free
  /\ pc' = [pc EXCEPT ![Main] = IF link # lastLink THEN "schedule" ELSE "loop"]
  /\ link' = NoLink
  /\ UNCHANGED <<host, watching, signal, note, mu, lastLink, lastPosted, timer, channel,
                 ctxDone, panicked, shown, changes, failures>>

ScheduleEmit ==
  /\ pc[Main] = "schedule" /\ mu = Free
  /\ timer' = IF timer = "nil" THEN "armed" ELSE timer
  /\ pc' = [pc EXCEPT ![Main] = "loop"]
  /\ UNCHANGED <<host, watching, signal, note, link, mu, lastLink, lastPosted, channel, ctxDone,
                 panicked, shown, changes, failures>>

(* One slot for a callback is as good as another. *)
IdleSlots == {c \in Callbacks : pc[c] = "idle"}

(* time.AfterFunc: the callback in a goroutine of its own, which forgets   *)
(* the timer under the lock and then emits.                                *)
Fire ==
  /\ timer = "armed" /\ IdleSlots # {}
  /\ timer' = "fired" /\ pc' = [pc EXCEPT ![CHOOSE c \in IdleSlots : TRUE] = "lock"]
  /\ UNCHANGED <<host, watching, signal, note, link, mu, lastLink, lastPosted, channel, ctxDone,
                 panicked, shown, changes, failures>>

TakePending(c) ==
  /\ pc[c] = "lock" /\ mu = Free
  /\ timer' = "nil"
  /\ note' = [note EXCEPT ![c].reason = "link_change"]
  /\ pc' = [pc EXCEPT ![c] = "summary"]
  /\ UNCHANGED <<host, watching, signal, link, mu, lastLink, lastPosted, channel, ctxDone,
                 panicked, shown, changes, failures>>

StopBug ==   \* the timer is left to fire
  /\ pc[Main] = "loop" /\ ctxDone
  /\ pc' = [pc EXCEPT ![Main] = "close"]
  /\ UNCHANGED <<host, watching, signal, note, link, mu, lastLink, lastPosted, timer, channel,
                 ctxDone, panicked, shown, changes, failures>>

(* The deferred calls: stopDebounce, which does not take the lock and does *)
(* not wait for a callback that has started, then close(out).              *)
Stop ==
  /\ pc[Main] = "loop" /\ ctxDone
  /\ timer' = "nil"
  /\ pc' = [pc EXCEPT ![Main] = "close"]
  /\ UNCHANGED <<host, watching, signal, note, link, mu, lastLink, lastPosted, channel, ctxDone,
                 panicked, shown, changes, failures>>

Close ==
  /\ pc[Main] = "close"
  /\ closed' = TRUE /\ late' = (\E c \in Callbacks : pc[c] # "idle")
  /\ pc' = [pc EXCEPT ![Main] = "stopped"]
  /\ UNCHANGED <<host, watching, signal, note, link, mu, lastLink, lastPosted, timer, out,
                 ctxDone, panicked, shown, changes, failures>>

-----------------------------------------------------------------------------
(* The agent's goroutine: for change := range monitor.Run(ctx) enqueues.   *)
Consume ==
  /\ out # << >>
  /\ shown' = Head(out) /\ out' = Tail(out)
  /\ UNCHANGED <<host, watching, signal, monitor, closed, late, ctxDone, panicked, changes,
                 failures>>

Emit(p) == Summary(p) \/ Post(p) \/ Send(p)
Loop == ReceiveSignal \/ Heartbeat \/ CheckLink \/ ScheduleEmit \/ Stop \/ Close
Callback(c) == TakePending(c) \/ Emit(c)

(* A panic ends the process.                                               *)
Next ==
  /\ ~panicked
  /\ \/ HostChange \/ WatcherEnds \/ Cancel
     \/ Emit(Main) \/ Loop \/ Fire
     \/ \E c \in Callbacks : Callback(c)
     \/ Consume

Spec == Init /\ [][Next]_vars

(* The goroutines run, the ticker ticks and the loop's select, which picks *)
(* among what is ready at random, passes over nothing for ever; the agent  *)
(* reads the channel as long as it is not cancelled.  Nothing makes the    *)
(* host change, a watcher end or the agent stop.                           *)
Fairness ==
  /\ WF_vars(~panicked /\ (Emit(Main) \/ CheckLink \/ ScheduleEmit \/ Close))
  /\ SF_vars(~panicked /\ ReceiveSignal) /\ SF_vars(~panicked /\ Heartbeat)
  /\ SF_vars(~panicked /\ Stop)
  /\ WF_vars(~panicked /\ Fire) /\ \A c \in Callbacks : WF_vars(~panicked /\ Callback(c))
  /\ WF_vars(~ctxDone /\ Consume)

FairSpec == Spec /\ Fairness

-----------------------------------------------------------------------------
(* The types of the state; the lock is held only by whoever is sending.    *)
TypeOK ==
  /\ host \in Hosts /\ watching \in BOOLEAN /\ signal \in 0 .. SignalCap
  /\ pc \in [Procs -> {"loop", "check", "schedule", "close", "stopped", "idle", "lock",
                       "summary", "post", "send"}]
  /\ note \in [Procs -> [reason : Reasons, fp : Summaries \cup {None}]]
  /\ link \in Links /\ lastLink \in Links /\ lastPosted \in Summaries \cup {None}
  /\ mu \in Procs \cup {Free} /\ \A p \in Procs : pc[p] = "send" <=> mu = p
  /\ timer \in {"nil", "armed", "fired"}
  /\ out \in Seq(Summaries \cup {None}) /\ Len(out) <= OutCap
  /\ closed \in BOOLEAN /\ ctxDone \in BOOLEAN /\ panicked \in BOOLEAN /\ late \in BOOLEAN
  /\ shown \in Summaries \cup {None}
  /\ changes \in 0 .. MaxChanges /\ failures \in 0 .. MaxFailures

(* Whatever stale summaries two emits have raced to post, and whatever the *)
(* watcher missed or the debounce skipped, the heartbeat brings what the   *)
(* agent enqueued last back to the network as it is (network_monitor.go:78 *)
(* posts it even when nothing changed).                                    *)
SummaryConverges == <>[](ctxDone \/ shown = SummaryOf[host])

(* Cancelled, Run returns, though the agent may have stopped reading and a *)
(* callback may hold the lock in a send (network_monitor.go:85-89).        *)
StopsOnCancel == ctxDone ~> (pc[Main] = "stopped" \/ panicked)

(* A send on the closed channel is left to one race: a callback that had   *)
(* fired before Run stopped the timer (network_monitor.go:61-67, 96-102).  *)
PanicNeedsLateCallback == panicked => closed /\ late
=============================================================================
