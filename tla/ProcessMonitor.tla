--------------------------- MODULE ProcessMonitor ---------------------------
(* internal/collect/process/process_monitor.go: an OS watcher (Observe) and *)
(* a timed poll (Poll) report process starts and exits from one table of   *)
(* PIDs.  Processes are numbered as they are born and PIDs are reused; the *)
(* rows of the table are reduced to the process they describe.  A change is *)
(* reported when the monitor decides it, before it is enqueued.            *)
EXTENDS Integers, Sequences, FiniteSets

CONSTANTS
  Pids,        \* the PIDs of the machine
  MaxStarts,   \* maxProcessEventsPerPoll: starts reported by one poll
  ChanCap,     \* the watcher's channel holds that many changes
  MaxBorn,     \* bound: processes ever born
  MaxExecs,    \* bound: execs and file opens of live processes
  MaxMissed    \* bound: kernel events the watcher never gets

ASSUME MonitorAssumption ==
  /\ IsFiniteSet(Pids)
  /\ MaxStarts \in Nat \ {0} /\ ChanCap \in Nat \ {0}
  /\ {MaxBorn, MaxExecs, MaxMissed} \subseteq Nat

None == 0

VARIABLES
  live,       \* the OS: the process that has each PID, None if none has
  born, execs, missed,   \* counters of the bounds
  watching,   \* the watcher is running
  chan,       \* its channel: changes not yet observed
  seen,       \* m.seen: the process each PID's row describes, None without row
  ready,      \* m.ready
  pc,         \* Poll: "idle", or "listed" with a snapshot, before the lock
  listed,     \* Poll: the snapshot of the process table
  told        \* history: what was reported last of each PID

osVars  == <<live, born, execs, missed, watching>>
pollVars == <<pc, listed>>
vars == <<osVars, chan, seen, ready, pollVars, told>>

Alive(table) == {p \in Pids : table[p] # None}
Empty == [p \in Pids |-> None]
Told(type, proc) == [type |-> type, proc |-> proc]

(* The agent starts on a running machine, with or without a watcher. *)
Init ==
  /\ live \in {t \in [Pids -> 0 .. Cardinality(Pids)] :
                 \A p, q \in Alive(t) : t[p] = t[q] => p = q}
  /\ born = Cardinality(Alive(live)) /\ \A p \in Pids : live[p] <= born
  /\ execs = 0 /\ missed = 0
  /\ watching \in BOOLEAN /\ chan = << >>
  /\ seen = Empty /\ ready = FALSE
  /\ pc = "idle" /\ listed = Empty
  /\ told = [p \in Pids |-> Told("nothing", None)]

-----------------------------------------------------------------------------
(* The OS, and the watcher's end of the channel: the kernel's event is put *)
(* in the channel unless nobody watches or it is lost on the way (a full   *)
(* channel holds the watcher up, and the kernel's buffer then overflows).  *)
Event(type, p, proc) ==
  IF ~watching THEN UNCHANGED <<chan, missed>>
  ELSE \/ /\ Len(chan) < ChanCap
          /\ chan' = Append(chan, [type |-> type, pid |-> p, proc |-> proc])
          /\ UNCHANGED missed
       \/ /\ missed < MaxMissed /\ missed' = missed + 1
          /\ UNCHANGED chan

Born(p) ==
  /\ live[p] = None /\ born < MaxBorn
  /\ born' = born + 1 /\ live' = [live EXCEPT ![p] = born + 1]
  /\ Event("start", p, born + 1)
  /\ UNCHANGED <<execs, watching, seen, ready, pollVars, told>>

(* A live process runs another image, or opens a watched file. *)
Acts(p) ==
  /\ live[p] # None /\ execs < MaxExecs
  /\ execs' = execs + 1
  /\ \E type \in {"start", "open"} : Event(type, p, live[p])
  /\ UNCHANGED <<live, born, watching, seen, ready, pollVars, told>>

Dies(p) ==
  /\ live[p] # None
  /\ live' = [live EXCEPT ![p] = None]
  /\ Event("exit", p, live[p])
  /\ UNCHANGED <<born, execs, watching, seen, ready, pollVars, told>>

(* An error of its socket ends the watcher; the poll goes on alone. *)
WatcherStops ==
  /\ watching /\ missed < MaxMissed
  /\ watching' = FALSE /\ missed' = missed + 1
  /\ UNCHANGED <<live, born, execs, chan, seen, ready, pollVars, told>>

-----------------------------------------------------------------------------
(* Reporting the changes rs: a set of records like the channel's. *)
Report(rs) ==
  told' = [p \in Pids |->
             IF \E r \in rs : r.pid = p
               THEN LET r == CHOOSE r \in rs : r.pid = p IN Told(r.type, r.proc)
               ELSE told[p]]

(* Observe, under m.mu: a start of a PID that has a row is suppressed; an  *)
(* exit is reported in any case; any change makes the monitor ready.       *)
Observe ==
  /\ chan # << >>
  /\ chan' = Tail(chan) /\ ready' = TRUE
  /\ LET c == Head(chan) IN
       \/ /\ c.type = "start" /\ seen[c.pid] = None
          /\ seen' = [seen EXCEPT ![c.pid] = c.proc] /\ Report({c})
       \/ /\ c.type = "exit"
          /\ seen' = [seen EXCEPT ![c.pid] = None] /\ Report({c})
       \/ /\ c.type = "open" \/ (c.type = "start" /\ seen[c.pid] # None)
          /\ UNCHANGED <<seen, told>>
  /\ UNCHANGED <<osVars, pollVars>>

(* Poll: the process table is read before the lock is taken. *)
PollList ==
  /\ pc = "idle"
  /\ pc' = "listed" /\ listed' = live
  /\ UNCHANGED <<osVars, chan, seen, ready, told>>

(* The first poll is the baseline, unless m.ready is already set. *)
PollBaseline ==
  /\ pc = "listed" /\ ~ready
  /\ pc' = "idle" /\ listed' = Empty
  /\ seen' = listed /\ ready' = TRUE
  /\ told' = [p \in Pids |-> IF listed[p] # None THEN Told("baseline", listed[p]) ELSE told[p]]
  /\ UNCHANGED <<osVars, chan>>

CapAbsorbsBug(starts) == listed   \* the starts beyond the cap are taken for reported

MergesBug(starts) ==   \* exits the watcher missed are never taken out
  [p \in Pids |-> IF listed[p] # None THEN listed[p] ELSE seen[p]]

(* applyPollChanges: at the cap only what was reported enters the table,   *)
(* the other starts are left to later polls; below it the whole snapshot   *)
(* replaces the table.  starts: the PIDs reported as started.              *)
ApplyPollChanges(starts) ==
  IF Cardinality(starts) >= MaxStarts
    THEN [p \in Pids |-> IF p \in starts THEN listed[p]
                         ELSE IF listed[p] # None THEN seen[p] ELSE None]
    ELSE listed

PollReport ==
  LET new  == Alive(listed) \ Alive(seen)
      gone == Alive(seen) \ Alive(listed)
  IN  /\ pc = "listed" /\ ready
      /\ pc' = "idle" /\ listed' = Empty
      /\ \E starts \in SUBSET new :
           /\ IF Cardinality(new) >= MaxStarts THEN Cardinality(starts) = MaxStarts
                                               ELSE starts = new
           /\ seen' = ApplyPollChanges(starts)
           /\ Report({[type |-> "start", pid |-> p, proc |-> listed[p]] : p \in starts}
                       \cup {[type |-> "exit", pid |-> p, proc |-> seen[p]] : p \in gone})
      /\ UNCHANGED <<osVars, chan, ready>>

Poll == PollList \/ PollBaseline \/ PollReport

Next ==
  \/ \E p \in Pids : Born(p) \/ Acts(p) \/ Dies(p)
  \/ WatcherStops
  \/ Observe
  \/ Poll

Spec == Init /\ [][Next]_vars

(* The ticker and the goroutine that drains the channel keep going. *)
FairSpec == Spec /\ WF_vars(Poll) /\ WF_vars(Observe)

-----------------------------------------------------------------------------
(* The types of the state. *)
Procs == 0 .. born
TypeOK ==
  /\ live \in [Pids -> Procs] /\ seen \in [Pids -> Procs] /\ listed \in [Pids -> Procs]
  /\ born \in Nat /\ execs \in 0 .. MaxExecs /\ missed \in 0 .. MaxMissed
  /\ watching \in BOOLEAN /\ ready \in BOOLEAN
  /\ chan \in Seq([type : {"start", "exit", "open"}, pid : Pids, proc : 1 .. born])
  /\ Len(chan) <= ChanCap
  /\ pc \in {"idle", "listed"}
  /\ told \in [Pids -> [type : {"nothing", "baseline", "start", "exit"}, proc : Procs]]

(* The table is exactly what was told: a PID has a row if and only if the  *)
(* last thing reported of it is that it runs.  No interleaving of watcher, *)
(* snapshot and lock, and no cap, silently absorbs a start or forgets an   *)
(* exit (Observe, Poll, applyPollChanges).                                 *)
SeenIsTold ==
  \A p \in Pids : seen[p] # None <=> told[p].type \in {"baseline", "start"}

(* Once the machine is quiet the table comes to agree with it for good:    *)
(* whatever the watcher missed, however stale the snapshots were, however  *)
(* many starts the cap postponed ("poll: reconcile the process table",     *)
(* docs/architecture.md:171).                                              *)
Reconciles == <>[](Alive(seen) = Alive(live))
=============================================================================
