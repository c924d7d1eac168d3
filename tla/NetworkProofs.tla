--------------------------- MODULE NetworkProofs ---------------------------
(* The collectors of the agent that share nothing.  Of the summary monitor *)
(* of the network, for any hosts, callbacks, channels and bounds: its      *)
(* types, and the one race that a send on its closed channel needs.  Of    *)
(* the connection monitor, for any rows of the system's tool, any answers  *)
(* of the resolver and any cap of a poll: what its reports say together.   *)
(* Of the action tracker, for any applications: that its windows count     *)
(* every sample once.                                                      *)
EXTENDS NetworkMonitor, ConnectionMonitor, ActionTracker, SequenceTheorems, FiniteSetTheorems,
        WellFoundedInduction, TLAPS

States == {"loop", "check", "schedule", "close", "stopped", "idle", "lock", "summary", "post", "send"}
Notes == [reason : Reasons, fp : Summaries \cup {None}]

(* The parts of TypeOK. *)
Scalars ==
  /\ host \in Hosts /\ watching \in BOOLEAN /\ signal \in 0 .. SignalCap
  /\ link \in Links /\ lastLink \in Links /\ lastPosted \in Summaries \cup {None}
  /\ timer \in {"nil", "armed", "fired"} /\ shown \in Summaries \cup {None}
  /\ changes \in 0 .. MaxChanges /\ failures \in 0 .. MaxFailures
Flags == closed \in BOOLEAN /\ ctxDone \in BOOLEAN /\ panicked \in BOOLEAN /\ late \in BOOLEAN
Places == pc \in [Procs -> States]
Lock == mu \in Procs \cup {Free} /\ \A p \in Procs : pc[p] = "send" <=> mu = p
Reports == out \in Seq(Summaries \cup {None}) /\ Len(out) <= OutCap

(* The readings of a host, partial ones included, are of the right type. *)
LEMMA ReadsAreTyped ==
  ASSUME host \in Hosts, NEW fp
  PROVE  /\ ReadLink(fp) => fp \in Links
         /\ ReadSummary(fp) => fp \in Summaries
         /\ ReadLink(fp) \/ ReadSummary(fp) =>
              failures' = failures \/ (failures < MaxFailures /\ failures' = failures + 1)
<1>1. LinkOf[host] \in Links /\ NoLink \in Links
  BY DEF Links
<1>2. SummaryOf[host] \in Summaries /\ PartOf[host] \subseteq Summaries
  BY DEF Summaries
<1> QED
  BY <1>1, <1>2 DEF ReadLink, ReadSummary, Read

(* Done takes a goroutine back to where it waits. *)
LEMMA DoneIsTyped ==
  ASSUME Places, note \in [Procs -> Notes], NEW p \in Procs, Done(p)
  PROVE  /\ pc' \in [Procs -> States] /\ note' \in [Procs -> Notes]
         /\ \A q \in Procs : pc'[q] = IF q = p THEN (IF p = Main THEN "loop" ELSE "idle") ELSE pc[q]
BY DEF Done, Places, States, Notes, NoNote, Reasons

(* Every step keeps the types. *)
LEMMA TypeStep == TypeOK /\ [Next]_vars => TypeOK'
<1> SUFFICES ASSUME Scalars, Flags, Places, Lock, note \in [Procs -> Notes], Reports, [Next]_vars
             PROVE  Scalars' /\ Flags' /\ Places' /\ Lock' /\ (note \in [Procs -> Notes])' /\ Reports'
  BY DEF TypeOK, Scalars, Flags, Places, Lock, Notes, Reports, States
<1>a. /\ MaxChanges \in Nat /\ MaxFailures \in Nat /\ SignalCap \in Nat \ {0} /\ OutCap \in Nat \ {0}
      /\ Main \in Procs /\ Main \notin Callbacks /\ Free \notin Procs
  BY NetworkAssumption DEF Procs
<1> USE DEF monitor, channel
<1>1. CASE HostChange
  <2>1. Scalars'
    BY <1>1, <1>a DEF HostChange, Scalars
  <2> QED
    BY <1>1, <2>1 DEF HostChange, Flags, Places, Lock, Reports
<1>2. CASE WatcherEnds \/ Cancel
  <2>1. Scalars' /\ Flags'
    BY <1>2 DEF WatcherEnds, Cancel, Scalars, Flags
  <2> QED
    BY <1>2, <2>1 DEF WatcherEnds, Cancel, Places, Lock, Reports
<1>3. ASSUME NEW p \in Procs, Emit(p)
      PROVE  Scalars' /\ Flags' /\ Places' /\ Lock' /\ (note \in [Procs -> Notes])' /\ Reports'
  <2>1. CASE Summary(p)
    <3>1. PICK fp \in Summaries : ReadSummary(fp) /\ note' = [note EXCEPT ![p].fp = fp]
      BY <2>1 DEF Summary
    <3>2. failures' \in 0 .. MaxFailures
      BY <3>1, <1>a, ReadsAreTyped DEF Scalars
    <3>3. note' \in [Procs -> Notes]
      BY <3>1 DEF Notes
    <3>4. Places' /\ Lock'
      BY <2>1 DEF Summary, Places, Lock, States
    <3> QED
      BY <2>1, <3>2, <3>3, <3>4 DEF Summary, Scalars, Flags, Reports
  <2>2. CASE Post(p)
    <3>1. CASE Unchanged(note[p])
      BY <2>2, <3>1, <1>a, DoneIsTyped DEF Post, Scalars, Flags, Places, Lock, Reports
    <3>2. CASE ~Unchanged(note[p])
      <4>1. PICK fp \in Links : ReadLink(fp) /\ lastLink' = fp
        BY <2>2, <3>2 DEF Post
      <4>2. failures' \in 0 .. MaxFailures
        BY <4>1, <1>a, ReadsAreTyped DEF Scalars
      <4>3. lastPosted' \in Summaries \cup {None}
        BY <2>2, <3>2 DEF Post, Notes
      <4>4. \A q \in Procs : pc'[q] = IF q = p THEN "send" ELSE pc[q]
        BY <2>2, <3>2 DEF Post, Places
      <4>5. Places' /\ mu' = p /\ mu = Free /\ note' = note
        BY <2>2, <3>2 DEF Post, Places, States
      <4>6. Lock'
        BY <4>4, <4>5, <1>a DEF Lock
      <4> QED
        BY <2>2, <4>1, <4>2, <4>3, <4>5, <4>6 DEF Post, Scalars, Flags, Reports
    <3> QED
      BY <3>1, <3>2
  <2>3. CASE Send(p)
    <3>1. pc[p] = "send" /\ mu = p /\ note[p].fp \in Summaries \cup {None}
      BY <2>3 DEF Send, Lock, Notes
    <3>2. CASE Len(out) < OutCap /\ out' = Append(out, note[p].fp) /\ mu' = Free /\ Done(p) /\ UNCHANGED panicked
      <4>1. Reports'
        <5>1. PICK S : S = Summaries \cup {None}
          OBVIOUS
        <5>2. PICK fp : fp = note[p].fp
          OBVIOUS
        <5> QED
          BY <3>1, <3>2, <5>1, <5>2, <1>a DEF Reports
      <4> QED
        BY <2>3, <3>1, <3>2, <4>1, <1>a, DoneIsTyped DEF Send, Scalars, Flags, Places, Lock
    <3>3. CASE mu' = Free /\ Done(p) /\ UNCHANGED <<out, panicked>>
      BY <2>3, <3>1, <3>3, <1>a, DoneIsTyped DEF Send, Scalars, Flags, Places, Lock, Reports
    <3>4. CASE panicked' = TRUE /\ UNCHANGED <<mu, pc, note, out>>
      BY <2>3, <3>4 DEF Send, Scalars, Flags, Places, Lock, Reports
    <3> QED
      BY <2>3, <3>2, <3>3, <3>4 DEF Send
  <2> QED
    BY <1>3, <2>1, <2>2, <2>3 DEF Emit
<1>4. CASE Loop
  <2>1. PICK place \in States \ {"send"} : pc' = [pc EXCEPT ![Main] = place]
    BY <1>4 DEF Loop, ReceiveSignal, Heartbeat, CheckLink, ScheduleEmit, Stop, Close, States
  <2>2. pc[Main] # "send"
    BY <1>4 DEF Loop, ReceiveSignal, Heartbeat, CheckLink, ScheduleEmit, Stop, Close
  <2>3. Places' /\ \A q \in Procs : pc'[q] = "send" <=> pc[q] = "send"
    BY <2>1, <2>2, <1>a DEF Places
  <2>4. UNCHANGED <<mu, out>>
    BY <1>4 DEF Loop, ReceiveSignal, Heartbeat, CheckLink, ScheduleEmit, Stop, Close
  <2>5. Lock' /\ Reports'
    BY <2>3, <2>4 DEF Lock, Reports
  <2>6. note' \in [Procs -> Notes]
    <3>1. CASE Heartbeat
      BY <3>1 DEF Heartbeat, Notes, Reasons
    <3>2. CASE note' = note
      BY <3>2
    <3> QED
      BY <1>4, <3>1, <3>2 DEF Loop, ReceiveSignal, CheckLink, ScheduleEmit, Stop, Close
  <2>7. Flags'
    BY <1>4 DEF Loop, ReceiveSignal, Heartbeat, CheckLink, ScheduleEmit, Stop, Close, Flags
  <2>8. Scalars'
    <3>1. CASE ReceiveSignal
      <4>1. PICK fp \in Links : ReadLink(fp) /\ link' = fp
        BY <3>1 DEF ReceiveSignal
      <4>2. failures' \in 0 .. MaxFailures
        BY <4>1, <1>a, ReadsAreTyped DEF Scalars
      <4>3. signal' \in 0 .. SignalCap
        BY <3>1, <1>a DEF ReceiveSignal, Scalars
      <4> QED
        BY <3>1, <4>1, <4>2, <4>3 DEF ReceiveSignal, Scalars
    <3>2. NoLink \in Links
      BY DEF Links
    <3>3. CASE Heartbeat \/ CheckLink \/ ScheduleEmit \/ Stop \/ Close
      BY <3>2, <3>3 DEF Heartbeat, CheckLink, ScheduleEmit, Stop, Close, Scalars
    <3> QED
      BY <1>4, <3>1, <3>3 DEF Loop
  <2> QED
    BY <2>3, <2>5, <2>6, <2>7, <2>8
<1>5. CASE Fire
  <2>1. PICK c \in Callbacks : pc[c] = "idle" /\ pc' = [pc EXCEPT ![c] = "lock"]
    BY <1>5 DEF Fire, IdleSlots
  <2>2. Places' /\ \A q \in Procs : pc'[q] = "send" <=> pc[q] = "send"
    BY <2>1 DEF Places, States, Procs
  <2> QED
    BY <1>5, <2>2 DEF Fire, Scalars, Flags, Lock, Reports
<1>6. ASSUME NEW c \in Callbacks, TakePending(c)
      PROVE  Scalars' /\ Flags' /\ Places' /\ Lock' /\ (note \in [Procs -> Notes])' /\ Reports'
  <2>1. Places' /\ \A q \in Procs : pc'[q] = "send" <=> pc[q] = "send"
    BY <1>6 DEF TakePending, Places, States, Procs
  <2>2. note' \in [Procs -> Notes]
    BY <1>6 DEF TakePending, Notes, Reasons
  <2> QED
    BY <1>6, <2>1, <2>2 DEF TakePending, Scalars, Flags, Lock, Reports
<1>7. CASE Consume
  <2>1. PICK S : S = Summaries \cup {None}
    OBVIOUS
  <2>2. out \in Seq(S) /\ Len(out) <= OutCap /\ out # << >>
    BY <1>7, <2>1 DEF Consume, Reports
  <2>3. Head(out) \in S /\ Tail(out) \in Seq(S) /\ Len(Tail(out)) <= OutCap
    BY <2>2, <1>a
  <2> QED
    BY <1>7, <2>1, <2>3 DEF Consume, Scalars, Flags, Places, Lock, Reports
<1>8. CASE UNCHANGED vars
  BY <1>8 DEF vars, Scalars, Flags, Places, Lock, Reports
<1> QED
  BY <1>1, <1>2, <1>3, <1>4, <1>5, <1>6, <1>7, <1>8 DEF Next, Callback, Procs

(* The first states have the types. *)
LEMMA InitTypes == Init => TypeOK
<1> SUFFICES ASSUME Init PROVE TypeOK
  OBVIOUS
<1>1. /\ MaxChanges \in Nat /\ MaxFailures \in Nat /\ SignalCap \in Nat \ {0}
      /\ OutCap \in Nat \ {0} /\ Free \notin Procs /\ NoLink \in Links
  BY NetworkAssumption DEF Links
<1>2. note \in [Procs -> Notes]
  BY DEF Init, Notes, NoNote, Reasons
<1>3. Places /\ Lock
  BY <1>1 DEF Init, Places, Lock, States
<1>4. Scalars
  <2>1. signal \in 0 .. SignalCap /\ changes \in 0 .. MaxChanges /\ failures \in 0 .. MaxFailures
    BY <1>1 DEF Init
  <2>2. timer \in {"nil", "armed", "fired"}
    BY DEF Init
  <2> QED
    BY <1>1, <2>1, <2>2 DEF Init, Scalars
<1>6. Flags
  BY DEF Init, Flags
<1>5. Reports
  <2>1. PICK S : S = Summaries \cup {None}
    OBVIOUS
  <2>2. out = << >> /\ out \in Seq(S) /\ Len(out) = 0
    BY DEF Init
  <2> QED
    BY <2>1, <2>2, <1>1 DEF Reports
<1> QED
  BY <1>2, <1>3, <1>4, <1>5, <1>6 DEF TypeOK, Scalars, Flags, Places, Lock, Notes, Reports, States

(* The state of NetworkMonitor keeps its types, and only the goroutine     *)
(* that sends holds the lock (network_monitor.go:108-135).                 *)
THEOREM TypeCorrect == Spec => []TypeOK
  BY InitTypes, TypeStep, PTL DEF Spec

-----------------------------------------------------------------------------
(* Why the panic is left to one race.  Run stops the timer before it       *)
(* closes the channel and nobody arms it after: no callback is born then.  *)
Stopping == pc[Main] \in {"close", "stopped"}
TimerIsOff == Stopping => timer # "armed"
AllIdle == \A c \in Callbacks : pc[c] = "idle"
ClosedLast == closed => pc[Main] = "stopped" /\ (late \/ AllIdle)
NoStrayPanic == TimerIsOff /\ ClosedLast /\ PanicNeedsLateCallback

(* Every step keeps it. *)
LEMMA PanicStep == TypeOK /\ NoStrayPanic /\ [Next]_vars => NoStrayPanic'
<1> SUFFICES ASSUME Places, NoStrayPanic, [Next]_vars PROVE NoStrayPanic'
  BY DEF TypeOK, Places, States
<1>a. Main \in Procs /\ Main \notin Callbacks /\ \A c \in Callbacks : c \in Procs /\ c # Main
  BY NetworkAssumption DEF Procs
<1> USE DEF monitor, channel
<1>1. CASE HostChange \/ WatcherEnds \/ Cancel \/ Consume \/ UNCHANGED vars
  BY <1>1 DEF HostChange, WatcherEnds, Cancel, Consume, vars, NoStrayPanic, TimerIsOff, Stopping,
              ClosedLast, AllIdle, PanicNeedsLateCallback
<1>2. ASSUME NEW p \in Procs, Emit(p), ~panicked PROVE NoStrayPanic'
  <2>1. pc[p] \in {"summary", "post", "send"} /\ UNCHANGED <<timer, closed, late>>
    BY <1>2 DEF Emit, Summary, Post, Send
  <2>2. PICK place \in States \ {"close", "stopped"} :
          \A q \in Procs : pc'[q] = IF q = p THEN place ELSE pc[q]
    <3>1. CASE Summary(p)
      BY <3>1 DEF Summary, Places, States
    <3>2. CASE Done(p)
      <4>1. PICK place : place = IF p = Main THEN "loop" ELSE "idle"
        OBVIOUS
      <4> QED
        BY <3>2, <4>1 DEF Done, Places, States
    <3>3. CASE UNCHANGED pc
      BY <3>3, <2>1 DEF States
    <3>4. CASE pc' = [pc EXCEPT ![p] = "send"]
      BY <3>4 DEF Places, States
    <3> QED
      BY <1>2, <3>1, <3>2, <3>3, <3>4 DEF Emit, Post, Send
  <2>3. Stopping' => Stopping
    BY <2>1, <2>2, <1>a DEF Stopping
  <2>4. closed => p # Main /\ ~AllIdle
    BY <2>1, <1>a DEF NoStrayPanic, ClosedLast, AllIdle, Procs
  <2>5. TimerIsOff'
    BY <2>1, <2>3 DEF NoStrayPanic, TimerIsOff
  <2>6. ClosedLast'
    BY <2>1, <2>2, <2>4, <1>a DEF NoStrayPanic, ClosedLast
  <2>7. panicked' => closed
    BY <1>2 DEF Emit, Summary, Post, Send
  <2>8. PanicNeedsLateCallback'
    BY <2>1, <2>4, <2>7 DEF NoStrayPanic, ClosedLast, PanicNeedsLateCallback
  <2> QED
    BY <2>5, <2>6, <2>8 DEF NoStrayPanic
<1>3. CASE ~panicked /\ Loop
  <2>1. ~closed /\ ~panicked
    BY <1>3 DEF Loop, ReceiveSignal, Heartbeat, CheckLink, ScheduleEmit, Stop, Close, NoStrayPanic,
                ClosedLast
  <2>2. CASE ReceiveSignal \/ Heartbeat \/ CheckLink \/ ScheduleEmit
    <3>1. pc'[Main] \notin {"close", "stopped"} /\ UNCHANGED <<closed, panicked>>
      BY <2>2, <1>a DEF ReceiveSignal, Heartbeat, CheckLink, ScheduleEmit, Places
    <3> QED
      BY <2>1, <3>1 DEF NoStrayPanic, TimerIsOff, Stopping, ClosedLast, PanicNeedsLateCallback
  <2>3. CASE Stop
    BY <2>1, <2>3 DEF Stop, NoStrayPanic, TimerIsOff, ClosedLast, PanicNeedsLateCallback
  <2>4. CASE Close
    <3>1. pc'[Main] = "stopped" /\ UNCHANGED <<timer, panicked>> /\ timer # "armed"
      BY <2>4, <1>a DEF Close, Places, NoStrayPanic, TimerIsOff, Stopping
    <3>2. \A c \in Callbacks : pc'[c] = pc[c]
      BY <2>4, <1>a DEF Close, Places
    <3>3. late' \/ AllIdle'
      BY <2>4, <3>2 DEF Close, AllIdle
    <3> QED
      BY <2>1, <3>1, <3>3 DEF NoStrayPanic, TimerIsOff, ClosedLast, PanicNeedsLateCallback
  <2> QED
    BY <1>3, <2>2, <2>3, <2>4 DEF Loop
<1>4. CASE Fire
  <2>1. PICK c \in Callbacks : pc' = [pc EXCEPT ![c] = "lock"]
    BY <1>4 DEF Fire, IdleSlots
  <2>2. pc'[Main] = pc[Main] /\ ~Stopping
    BY <1>4, <2>1, <1>a DEF Fire, Places, NoStrayPanic, TimerIsOff
  <2>3. ~closed
    BY <2>2 DEF NoStrayPanic, ClosedLast, Stopping
  <2> QED
    BY <1>4, <2>2, <2>3 DEF Fire, NoStrayPanic, TimerIsOff, Stopping, ClosedLast, PanicNeedsLateCallback
<1>5. ASSUME NEW c \in Callbacks, TakePending(c), ~panicked PROVE NoStrayPanic'
  <2>1. pc'[Main] = pc[Main] /\ timer' = "nil" /\ UNCHANGED <<closed, late, panicked>>
    BY <1>5, <1>a DEF TakePending, Places
  <2>2. ~AllIdle
    BY <1>5 DEF TakePending, AllIdle
  <2> QED
    BY <1>5, <2>1, <2>2 DEF NoStrayPanic, TimerIsOff, ClosedLast, PanicNeedsLateCallback
<1> QED
  BY <1>1, <1>2, <1>3, <1>4, <1>5, <1>a DEF Next, Callback

(* A send on the closed channel is left to one race: a callback that had   *)
(* fired before Run stopped the timer (network_monitor.go:61-67, 96-102).  *)
THEOREM OneRacePanics == Spec => []PanicNeedsLateCallback
<1>1. Init => NoStrayPanic
  BY NetworkAssumption DEF Init, NoStrayPanic, TimerIsOff, Stopping, ClosedLast,
                           PanicNeedsLateCallback, Procs
<1>2. NoStrayPanic => PanicNeedsLateCallback
  BY DEF NoStrayPanic
<1> QED
  BY <1>1, <1>2, TypeCorrect, PanicStep, PTL DEF Spec

------------------------------------------------------------------------------
(* Two reports never give one address two names, because the name of a     *)
(* report is the cache's, which is never asked again, or none where the    *)
(* address is not looked up.                                               *)
NameOf(a) == IF IsNonPublicIP(a) THEN "" ELSE cache[a]
NamesInv ==
  /\ \A a \in DOMAIN cache : ~IsNonPublicIP(a)
  /\ \A r \in told : ~IsNonPublicIP(r.addr) => r.addr \in DOMAIN cache
  /\ \A r \in told : r.name = NameOf(r.addr)

(* The one step that names and reports (connection_monitor.go:61-90,       *)
(* connections.go:76-99).                                                  *)
LEMMA ReportKeepsNames == NamesInv /\ PollReport => NamesInv'
<1> SUFFICES ASSUME NamesInv, PollReport PROVE NamesInv'
  OBVIOUS
<1>1. PICK added, names :
        /\ names \in Lookup(ToName(added))
        /\ cache' = names /\ told' = told \cup {Report(c, names) : c \in added}
  BY DEF PollReport
<1>2. DOMAIN names = DOMAIN cache \cup ToName(added) /\ \A a \in DOMAIN cache : names[a] = cache[a]
  BY <1>1 DEF Lookup
<1>3. \A a \in DOMAIN names : ~IsNonPublicIP(a)
  BY <1>2 DEF NamesInv, ToName
<1>4. ASSUME NEW c \in added
      PROVE  LET a == c.remote.host IN
             /\ Report(c, names).addr = a
             /\ ~IsNonPublicIP(a) => a \in DOMAIN names
             /\ Report(c, names).name = IF IsNonPublicIP(a) THEN "" ELSE names[a]
  <2>1. ~IsNonPublicIP(c.remote.host) => c.remote.host \in DOMAIN names
    BY <1>2 DEF ToName
  <2> QED
    BY <1>3, <2>1 DEF Report
<1>5. ASSUME NEW r \in told'
      PROVE  /\ ~IsNonPublicIP(r.addr) => r.addr \in DOMAIN cache'
             /\ r.name = IF IsNonPublicIP(r.addr) THEN "" ELSE cache'[r.addr]
  <2>1. CASE r \in told
    BY <1>1, <1>2, <2>1 DEF NamesInv, NameOf
  <2>2. CASE r \notin told
    BY <1>1, <1>4, <2>2
  <2> QED
    BY <2>1, <2>2
<1> QED
  BY <1>1, <1>3, <1>5 DEF NamesInv, NameOf

(* No other step does either.                                              *)
LEMMA NamesStep == NamesInv /\ [ConnectionNext]_connectionVars => NamesInv'
<1>1. ASSUME NamesInv, UNCHANGED <<cache, told>> PROVE NamesInv'
  BY <1>1 DEF NamesInv, NameOf
<1> QED
  BY <1>1, ReportKeepsNames DEF ConnectionNext, SocketsMove, PollError, PollBaseline, connectionVars

(* Two reports never give one address two names (connections.go:80-99).    *)
THEOREM AddressesHaveOneName == ConnectionSpec => []OneNamePerAddress
<1>1. ConnectionInit => NamesInv
  <2>1. DOMAIN << >> = {}
    OBVIOUS
  <2> QED
    BY <2>1 DEF ConnectionInit, NamesInv
<1>2. NamesInv => OneNamePerAddress
  BY DEF NamesInv, OneNamePerAddress
<1> QED
  BY <1>1, <1>2, NamesStep, PTL DEF ConnectionSpec

-----------------------------------------------------------------------------
(* Why a connection that stays open is reported at most once: while no     *)
(* list was empty by a failure, what is known and has not closed since is  *)
(* open now, and is in the list the monitor keeps, whatever the cap of a   *)
(* poll has cut off from its reports.                                      *)
Open == Prints(Established(os, live))
GapInv ==
  /\ ~blank => known \ left \subseteq Open
  /\ ~blank /\ connReady => known \ left \subseteq Prints(connSeen)
  /\ ~connReady => known = {}
  /\ OnlyGapsReannounce

(* Keying the rows by their fingerprints loses none (connection_monitor.go *)
(* 50-59).                                                                 *)
LEMMA KeyedKeepsPrints ==
  ASSUME NEW conns
  PROVE  Prints(Keyed(conns)) = Prints(conns)
<1>1. ASSUME NEW c \in conns PROVE Fingerprint(c) \in Prints(Keyed(conns))
  <2>1. PICK k : k = CHOOSE d \in conns : Fingerprint(d) = Fingerprint(c)
    OBVIOUS
  <2>2. k \in conns /\ Fingerprint(k) = Fingerprint(c)
    BY <2>1
  <2>3. k = CHOOSE d \in conns : Fingerprint(d) = Fingerprint(k)
    BY <2>1, <2>2
  <2> QED
    BY <2>2, <2>3 DEF Keyed, Prints
<1> QED
  BY <1>1 DEF Keyed, Prints

(* A socket that closes leaves.                                            *)
LEMMA MoveKeepsGaps == GapInv /\ SocketsMove => GapInv'
<1> SUFFICES ASSUME GapInv, SocketsMove PROVE GapInv'
  OBVIOUS
<1>1. left' = left \cup (Open \ Open') /\ UNCHANGED <<known, blank, connReady, connSeen, again>>
  BY DEF SocketsMove, Open, Prints
<1>2. UNCHANGED Prints(connSeen)
  BY <1>1 DEF Prints
<1> QED
  BY <1>1, <1>2 DEF GapInv, OnlyGapsReannounce

(* The first list is the baseline.                                         *)
LEMMA BaselineKeepsGaps == GapInv /\ PollBaseline => GapInv'
<1> SUFFICES ASSUME GapInv, PollBaseline PROVE GapInv'
  OBVIOUS
<1>1. PICK conns : List(conns) /\ connSeen' = conns /\ known' = Prints(conns)
  BY DEF PollBaseline
<1>2. connReady' = TRUE /\ UNCHANGED <<os, live, left, again>>
  BY DEF PollBaseline
<1>3. Open' = Open /\ Prints(connSeen)' = known'
  BY <1>1, <1>2 DEF Open, Prints
<1>4. blank' \/ (conns = Keyed(Established(os, live)) /\ blank' = blank)
  BY <1>1 DEF List
<1>5. ~blank' => known' = Open
  BY <1>1, <1>4, KeyedKeepsPrints DEF Open
<1>6. blank => blank'
  BY <1>4
<1> QED
  BY <1>2, <1>3, <1>5, <1>6 DEF GapInv, OnlyGapsReannounce

(* A later one reports only what the list before it did not have.          *)
LEMMA ReportKeepsGaps == GapInv /\ PollReport => GapInv'
<1> SUFFICES ASSUME GapInv, PollReport PROVE GapInv'
  OBVIOUS
<1>1. PICK conns, added :
        /\ added \in Added(conns) /\ List(conns) /\ connSeen' = conns
        /\ known' = known \cup Prints(added) /\ left' = left \ Prints(added)
        /\ again' = (again \/ \E f \in Prints(added) : f \in known \ left)
  BY DEF PollReport
<1>2. connReady /\ connReady' = connReady /\ UNCHANGED <<os, live>>
  BY DEF PollReport
<1>3. Open' = Open /\ Prints(connSeen)' = Prints(conns)
  BY <1>1, <1>2 DEF Open, Prints
<1>4. blank' \/ (conns = Keyed(Established(os, live)) /\ blank' = blank)
  BY <1>1 DEF List
<1>5. ~blank' => Prints(conns) = Open
  BY <1>4, KeyedKeepsPrints DEF Open
<1>6. Prints(added) \subseteq Prints(conns) \ Prints(connSeen)
  BY <1>1 DEF Added, New, Prints
<1>7. ~blank' => known' \ left' \subseteq Open
  BY <1>1, <1>4, <1>5, <1>6 DEF GapInv
<1>8. again' => blank'
  BY <1>1, <1>2, <1>4, <1>6 DEF GapInv, OnlyGapsReannounce
<1> QED
  BY <1>2, <1>3, <1>5, <1>7, <1>8 DEF GapInv, OnlyGapsReannounce

(* A connection that stays open is reported at most once, and never when   *)
(* it was there at the first poll, unless a list was empty because its     *)
(* tool failed (connections.go:127-131, connection_monitor.go:61-71).      *)
THEOREM OnlyGapsReannounceThem == ConnectionSpec => []OnlyGapsReannounce
<1>1. ConnectionInit => GapInv
  BY DEF ConnectionInit, GapInv, OnlyGapsReannounce
<1>2. ASSUME GapInv, PollError \/ UNCHANGED connectionVars PROVE GapInv'
  BY <1>2 DEF PollError, connectionVars, GapInv, Open, Prints, OnlyGapsReannounce
<1>3. GapInv /\ [ConnectionNext]_connectionVars => GapInv'
  BY <1>2, MoveKeepsGaps, BaselineKeepsGaps, ReportKeepsGaps DEF ConnectionNext
<1>4. GapInv => OnlyGapsReannounce
  BY DEF GapInv
<1> QED
  BY <1>1, <1>3, <1>4, PTL DEF ConnectionSpec

-----------------------------------------------------------------------------
(* A nonempty set of numbers has a least one: of the intervals from 0 to a *)
(* member, one is within no other.                                         *)
LEMMA LeastNumber ==
  ASSUME NEW S, S \subseteq Nat, S # {}
  PROVE  \E x \in S : \A y \in S : x <= y
<1>1. PICK n \in S : n \in Nat
  OBVIOUS
<1>2. PICK T : T = {0 .. m : m \in S \cap (0 .. n)}
  OBVIOUS
<1>3. IsFiniteSet(0 .. n) /\ FiniteSubsetsOf(0 .. n) = SUBSET (0 .. n)
  <2>1. PICK I : I = 0 .. n
    OBVIOUS
  <2>2. IsFiniteSet(I)
    BY <1>1, <2>1, FS_Interval
  <2>3. FiniteSubsetsOf(I) = SUBSET I
    BY <2>2, FS_FiniteSubsetsOfFinite
  <2> QED
    BY <2>1, <2>2, <2>3
<1>4. T \subseteq FiniteSubsetsOf(0 .. n) /\ T # {}
  <2>1. \A m \in 0 .. n : 0 .. m \subseteq 0 .. n
    BY <1>1
  <2>2. n \in S \cap (0 .. n)
    BY <1>1
  <2> QED
    BY <1>2, <1>3, <2>1, <2>2
<1>5. PICK I \in T : \A J \in T : ~(<<J, I>> \in StrictSubsetOrdering(0 .. n))
  BY <1>4, FS_StrictSubsetOrderingWellFounded, WFMin
<1>6. PICK x \in S \cap (0 .. n) : I = 0 .. x
  BY <1>2
<1>7. ASSUME NEW y \in S, y < x PROVE FALSE
  <2>1. y \in 0 .. n /\ x \in Nat
    BY <1>1, <1>6, <1>7
  <2>2. 0 .. y \in T /\ 0 .. y \subseteq 0 .. x /\ 0 .. y # 0 .. x
    BY <1>2, <1>7, <2>1
  <2>3. 0 .. y \subseteq 0 .. n /\ 0 .. x \subseteq 0 .. n
    BY <1>1, <1>6, <2>1
  <2> QED
    BY <1>5, <1>6, <2>2, <2>3 DEF StrictSubsetOrdering
<1> QED
  BY <1>6, <1>7

(* The windows of the action tracker.  First, that Total is the sum its    *)
(* recursion says: the sums of the beginnings are one function.            *)
SumsTo(f, h, n) ==
  /\ h = [i \in 0 .. n |-> h[i]] /\ h[0] = 0
  /\ \A i \in 1 .. n : h[i] = h[i - 1] + f[i]

(* There are sums for each length.                                         *)
LEMMA SomeSums == \A f : \A n \in Nat : \E h : SumsTo(f, h, n)
<1> SUFFICES ASSUME NEW f, NEW m \in Nat, ~\E h : SumsTo(f, h, m) PROVE FALSE
  OBVIOUS
<1>1. PICK S : S = {n \in Nat : ~\E h : SumsTo(f, h, n)}
  OBVIOUS
<1>2. S \subseteq Nat /\ S # {}
  BY <1>1
<1>3. PICK n \in S : \A k \in S : n <= k
  BY <1>2, LeastNumber
<1>4. CASE n = 0
  <2>1. PICK h : h = [i \in 0 .. n |-> 0]
    OBVIOUS
  <2>2. SumsTo(f, h, n)
    BY <1>4, <2>1 DEF SumsTo
  <2> QED
    BY <1>1, <2>2
<1>5. CASE n # 0
  <2>1. n \in Nat /\ n - 1 \in Nat /\ n - 1 \notin S
    BY <1>1, <1>3, <1>5
  <2>2. PICK g : SumsTo(f, g, n - 1)
    BY <1>1, <2>1
  <2>3. PICK h : h = [i \in 0 .. n |-> IF i = n THEN g[n - 1] + f[n] ELSE g[i]]
    OBVIOUS
  <2>4. /\ \A i \in 0 .. n : h[i] = IF i = n THEN g[n - 1] + f[n] ELSE g[i]
        /\ h = [i \in 0 .. n |-> h[i]]
    BY <2>3
  <2>5. n \in 0 .. n /\ h[n] = g[n - 1] + f[n]
    BY <2>1, <2>4
  <2>6. h[0] = 0
    <3>1. 0 \in 0 .. n /\ 0 # n
      BY <1>5, <2>1
    <3>2. h[0] = g[0]
      BY <2>4, <3>1
    <3> QED
      BY <2>2, <3>2 DEF SumsTo
  <2>7. ASSUME NEW i \in 1 .. n PROVE h[i] = h[i - 1] + f[i]
    <3>1. i - 1 \in 0 .. n /\ i - 1 # n /\ i \in 0 .. n
      BY <2>1
    <3>2. h[i - 1] = g[i - 1]
      BY <2>4, <3>1
    <3>3. CASE i = n
      BY <2>5, <3>2, <3>3
    <3>4. CASE i # n
      <4>1. i \in 1 .. n - 1
        BY <2>1, <3>4
      <4>2. g[i] = g[i - 1] + f[i]
        BY <2>2, <4>1 DEF SumsTo
      <4>3. h[i] = g[i]
        BY <2>4, <3>1, <3>4
      <4> QED
        BY <3>2, <4>2, <4>3
    <3> QED
      BY <3>3, <3>4
  <2>8. SumsTo(f, h, n)
    BY <2>4, <2>6, <2>7 DEF SumsTo
  <2> QED
    BY <1>1, <2>8
<1> QED
  BY <1>4, <1>5

(* Two sums of the same values agree as far as both go.                    *)
LEMMA SameSums ==
  ASSUME NEW f, NEW n \in Nat, NEW m \in Nat, n <= m,
         NEW g, SumsTo(f, g, n), NEW h, SumsTo(f, h, m)
  PROVE  \A i \in 0 .. n : g[i] = h[i]
<1> SUFFICES ASSUME NEW j \in 0 .. n, g[j] # h[j] PROVE FALSE
  OBVIOUS
<1>1. PICK S : S = {i \in 0 .. n : g[i] # h[i]}
  OBVIOUS
<1>2. S \subseteq Nat /\ S # {}
  BY <1>1
<1>3. PICK i \in S : \A k \in S : i <= k
  BY <1>2, LeastNumber
<1>4. i \in 0 .. n /\ g[i] # h[i]
  BY <1>1
<1>5. CASE i = 0
  BY <1>4, <1>5 DEF SumsTo
<1>6. CASE i # 0
  <2>1. i - 1 \in 0 .. n /\ i \in 1 .. n /\ i \in 1 .. m
    BY <1>4, <1>6
  <2>2. g[i - 1] = h[i - 1]
    <3>1. i - 1 \notin S
      BY <1>3, <1>4, <2>1
    <3> QED
      BY <1>1, <2>1, <3>1
  <2>3. g[i] = g[i - 1] + f[i] /\ h[i] = h[i - 1] + f[i]
    BY <2>1 DEF SumsTo
  <2> QED
    BY <1>4, <2>2, <2>3
<1> QED
  BY <1>5, <1>6

(* So Total is the sum.                                                    *)
LEMMA TotalIs ==
  ASSUME NEW f
  PROVE  \A n \in Nat : Total(f, n) = IF n = 0 THEN 0 ELSE Total(f, n - 1) + f[n]
<1>1. PICK s : s = [n \in Nat |-> (CHOOSE h : SumsTo(f, h, n))[n]]
  OBVIOUS
<1>2. ASSUME NEW n \in Nat PROVE s[n] = IF n = 0 THEN 0 ELSE s[n - 1] + f[n]
  <2>1. PICK h : h = (CHOOSE x : SumsTo(f, x, n)) /\ SumsTo(f, h, n) /\ s[n] = h[n]
    BY <1>1, SomeSums
  <2>2. CASE n = 0
    BY <2>1, <2>2 DEF SumsTo
  <2>3. CASE n # 0
    <3>1. PICK m \in Nat : m = n - 1
      BY <2>3
    <3>2. PICK g : g = (CHOOSE x : SumsTo(f, x, m)) /\ SumsTo(f, g, m) /\ s[m] = g[m]
      BY <1>1, SomeSums
    <3>3. g[m] = h[m]
      <4>1. m <= n /\ m \in 0 .. m
        BY <3>1
      <4> QED
        BY <2>1, <3>2, <4>1, SameSums
    <3>4. h[n] = h[m] + f[n]
      <4>1. n \in 1 .. n /\ m = n - 1
        BY <2>3, <3>1
      <4> QED
        BY <2>1, <4>1 DEF SumsTo
    <3> QED
      BY <2>1, <2>3, <3>1, <3>2, <3>3, <3>4
  <2> QED
    BY <2>2, <2>3
<1>3. s = [n \in Nat |-> IF n = 0 THEN 0 ELSE s[n - 1] + f[n]]
  BY <1>1, <1>2
<1>4. PICK d : /\ d = (CHOOSE t : t = [k \in Nat |-> IF k = 0 THEN 0 ELSE t[k - 1] + f[k]])
               /\ \A n : Total(f, n) = d[n]
  BY DEF Total
<1>5. d = [k \in Nat |-> IF k = 0 THEN 0 ELSE d[k - 1] + f[k]]
  BY <1>3, <1>4
<1>6. \A n \in Nat : d[n] = IF n = 0 THEN 0 ELSE d[n - 1] + f[n]
  BY <1>5
<1> QED
  BY <1>4, <1>6


(* Sums of values that agree are equal. *)
LEMMA SameTotal ==
  ASSUME NEW f, NEW g, NEW n \in Nat, \A i \in 1 .. n : f[i] = g[i]
  PROVE  Total(f, n) = Total(g, n)
<1> SUFFICES ASSUME Total(f, n) # Total(g, n) PROVE FALSE
  OBVIOUS
<1>1. PICK S : S = {k \in 0 .. n : Total(f, k) # Total(g, k)}
  OBVIOUS
<1>2. S \subseteq Nat /\ S # {}
  BY <1>1
<1>3. PICK k \in S : \A j \in S : k <= j
  BY <1>2, LeastNumber
<1>4. k \in 0 .. n /\ k \in Nat /\ Total(f, k) # Total(g, k)
  BY <1>1
<1>5. k # 0
  BY <1>4, TotalIs
<1>6. PICK j \in Nat : j = k - 1
  BY <1>4, <1>5
<1>7. Total(f, j) = Total(g, j)
  BY <1>1, <1>3, <1>4, <1>6
<1>8. Total(f, k) = Total(f, j) + f[k] /\ Total(g, k) = Total(g, j) + g[k]
  BY <1>4, <1>5, <1>6, TotalIs
<1>9. f[k] = g[k]
  BY <1>4, <1>5
<1> QED
  BY <1>4, <1>7, <1>8, <1>9

(* The sum of numbers is a number. *)
LEMMA TotalType ==
  ASSUME NEW f, NEW n \in Nat, \A i \in 1 .. n : f[i] \in Nat
  PROVE  Total(f, n) \in Nat
<1> SUFFICES ASSUME Total(f, n) \notin Nat PROVE FALSE
  OBVIOUS
<1>1. PICK S : S = {k \in 0 .. n : Total(f, k) \notin Nat}
  OBVIOUS
<1>2. S \subseteq Nat /\ S # {}
  BY <1>1
<1>3. PICK k \in S : \A j \in S : k <= j
  BY <1>2, LeastNumber
<1>4. k \in 0 .. n /\ k \in Nat /\ Total(f, k) \notin Nat
  BY <1>1
<1>5. k # 0
  BY <1>4, TotalIs
<1>6. PICK j \in Nat : j = k - 1
  BY <1>4, <1>5
<1>7. Total(f, j) \in Nat
  BY <1>1, <1>3, <1>4, <1>6
<1>8. Total(f, k) = Total(f, j) + f[k]
  BY <1>4, <1>5, <1>6, TotalIs
<1>9. f[k] \in Nat
  BY <1>4, <1>5
<1> QED
  BY <1>4, <1>7, <1>8, <1>9


AppKeys == {KeyOf(app) : app \in Apps}
Counts == UNION {[D -> Nat] : D \in SUBSET AppKeys}
ActionSummary == [start : Nat, end : Nat, focus : Counts, switches : Nat]

(* What a window counts is a number.                                       *)
LEMMA FocusIsNumber ==
  ASSUME NEW s \in ActionSummary, NEW key
  PROVE  FocusOf(s, key) \in Nat
<1>1. PICK D \in SUBSET AppKeys : s.focus \in [D -> Nat]
  BY DEF ActionSummary, Counts
<1> QED
  BY <1>1 DEF FocusOf

(* A sum whose last value grows grows as much.                             *)
LEMMA LastGrows ==
  ASSUME NEW f, NEW g, NEW n \in Nat \ {0}, NEW d \in Nat, \A i \in 1 .. n : f[i] \in Nat,
         \A i \in 1 .. n - 1 : g[i] = f[i], g[n] = f[n] + d
  PROVE  Total(g, n) = Total(f, n) + d
<1>1. PICK m \in Nat : m = n - 1
  OBVIOUS
<1>2. Total(g, m) = Total(f, m) /\ Total(f, m) \in Nat
  BY <1>1, SameTotal, TotalType
<1>3. Total(g, n) = Total(g, m) + g[n] /\ Total(f, n) = Total(f, m) + f[n]
  BY <1>1, TotalIs
<1>4. f[n] \in Nat
  OBVIOUS
<1> QED
  BY <1>2, <1>3, <1>4

(* One value more adds that value.                                         *)
LEMMA OneMore ==
  ASSUME NEW f, NEW g, NEW n \in Nat, \A i \in 1 .. n : g[i] = f[i]
  PROVE  Total(g, n + 1) = Total(f, n) + g[n + 1]
<1>1. PICK m \in Nat : m = n + 1 /\ m # 0 /\ m - 1 = n
  OBVIOUS
<1>2. Total(g, m) = Total(g, n) + g[m]
  BY <1>1, TotalIs
<1> QED
  BY <1>1, <1>2, SameTotal

(* What a queue is with one more at its end.                               *)
LEMMA OneAppended ==
  ASSUME NEW S, NEW s \in Seq(S), NEW e \in S
  PROVE  /\ Append(s, e) \in Seq(S) /\ Len(s) \in Nat /\ Len(Append(s, e)) = Len(s) + 1
         /\ DOMAIN Append(s, e) = 1 .. Len(s) + 1 /\ DOMAIN s = 1 .. Len(s)
         /\ \A i \in 1 .. Len(s) : Append(s, e)[i] = s[i] /\ s[i] \in S
         /\ Append(s, e)[Len(s) + 1] = e
  BY AppendProperties, LenProperties, ElementOfSeq

(* The last window, which is running, counts more.                         *)
LEMMA WindowGrows ==
  ASSUME NEW s \in Seq(ActionSummary), NEW q \in ActionSummary, NEW r \in ActionSummary, NEW d \in Nat
  PROVE  /\ \A key : FocusOf(r, key) = FocusOf(q, key) + d =>
              Total(Focused(Append(s, r), key), Len(Append(s, r)))
                = Total(Focused(Append(s, q), key), Len(Append(s, q))) + d
         /\ r.switches = q.switches + d =>
              Total(Switched(Append(s, r)), Len(Append(s, r)))
                = Total(Switched(Append(s, q)), Len(Append(s, q))) + d
<1>1. PICK n \in Nat \ {0} : /\ n = Len(Append(s, r)) /\ n = Len(Append(s, q)) /\ n = Len(s) + 1
                             /\ DOMAIN Append(s, r) = 1 .. n /\ DOMAIN Append(s, q) = 1 .. n
                             /\ Append(s, r)[n] = r /\ Append(s, q)[n] = q
                             /\ \A i \in 1 .. n - 1 : Append(s, r)[i] = s[i] /\ Append(s, q)[i] = s[i] /\ s[i] \in ActionSummary
  <2>1. Len(s) \in Nat /\ Len(s) + 1 # 0 /\ (Len(s) + 1) - 1 = Len(s)
    BY LenProperties
  <2> QED
    BY <2>1, OneAppended
<1>2. ASSUME NEW key, FocusOf(r, key) = FocusOf(q, key) + d
      PROVE  Total(Focused(Append(s, r), key), n) = Total(Focused(Append(s, q), key), n) + d
  <2>1. PICK f, g : f = Focused(Append(s, q), key) /\ g = Focused(Append(s, r), key)
    OBVIOUS
  <2>2. \A i \in 1 .. n : f[i] = FocusOf(Append(s, q)[i], key) /\ g[i] = FocusOf(Append(s, r)[i], key)
    BY <1>1, <2>1 DEF Focused
  <2>3. \A i \in 1 .. n : f[i] \in Nat
    <3>1. \A i \in 1 .. n : Append(s, q)[i] \in ActionSummary
      BY <1>1
    <3> QED
      BY <2>2, <3>1, FocusIsNumber
  <2>4. \A i \in 1 .. n - 1 : g[i] = f[i]
    BY <1>1, <2>2
  <2>5. g[n] = f[n] + d
    BY <1>1, <1>2, <2>2
  <2> QED
    BY <2>1, <2>3, <2>4, <2>5, LastGrows
<1>3. ASSUME r.switches = q.switches + d
      PROVE  Total(Switched(Append(s, r)), n) = Total(Switched(Append(s, q)), n) + d
  <2>1. PICK f, g : f = Switched(Append(s, q)) /\ g = Switched(Append(s, r))
    OBVIOUS
  <2>2. \A i \in 1 .. n : f[i] = Append(s, q)[i].switches /\ g[i] = Append(s, r)[i].switches
    BY <1>1, <2>1 DEF Switched
  <2>3. \A i \in 1 .. n : f[i] \in Nat
    <3>1. \A i \in 1 .. n : Append(s, q)[i] \in ActionSummary
      BY <1>1
    <3> QED
      BY <2>2, <3>1 DEF ActionSummary
  <2>4. \A i \in 1 .. n - 1 : g[i] = f[i]
    BY <1>1, <2>2
  <2>5. g[n] = f[n] + d
    BY <1>1, <1>3, <2>2
  <2> QED
    BY <2>1, <2>3, <2>4, <2>5, LastGrows
<1> QED
  BY <1>1, <1>2, <1>3

(* A new window adds what it counts.                                       *)
LEMMA WindowAdds ==
  ASSUME NEW s \in Seq(ActionSummary), NEW r \in ActionSummary
  PROVE  /\ \A key : Total(Focused(Append(s, r), key), Len(Append(s, r)))
                       = Total(Focused(s, key), Len(s)) + FocusOf(r, key)
         /\ Total(Switched(Append(s, r)), Len(Append(s, r))) = Total(Switched(s), Len(s)) + r.switches
<1>1. PICK n \in Nat : n = Len(s)
  BY LenProperties
<1>2. /\ Len(Append(s, r)) = n + 1 /\ DOMAIN Append(s, r) = 1 .. n + 1 /\ DOMAIN s = 1 .. n
      /\ Append(s, r)[n + 1] = r /\ \A i \in 1 .. n : Append(s, r)[i] = s[i]
  BY <1>1, OneAppended
<1>3. ASSUME NEW key
      PROVE  Total(Focused(Append(s, r), key), n + 1) = Total(Focused(s, key), n) + FocusOf(r, key)
  <2>1. PICK f, g : f = Focused(s, key) /\ g = Focused(Append(s, r), key)
    OBVIOUS
  <2>2. \A i \in 1 .. n : f[i] = FocusOf(s[i], key) /\ g[i] = FocusOf(Append(s, r)[i], key)
    BY <1>2, <2>1 DEF Focused
  <2>3. g[n + 1] = FocusOf(Append(s, r)[n + 1], key)
    BY <1>2, <2>1 DEF Focused
  <2>4. \A i \in 1 .. n : g[i] = f[i]
    BY <1>2, <2>2
  <2> QED
    BY <1>2, <2>1, <2>3, <2>4, OneMore
<1>4. Total(Switched(Append(s, r)), n + 1) = Total(Switched(s), n) + r.switches
  <2>1. PICK f, g : f = Switched(s) /\ g = Switched(Append(s, r))
    OBVIOUS
  <2>2. \A i \in 1 .. n : f[i] = s[i].switches /\ g[i] = Append(s, r)[i].switches
    BY <1>2, <2>1 DEF Switched
  <2>3. g[n + 1] = Append(s, r)[n + 1].switches
    BY <1>2, <2>1 DEF Switched
  <2>4. \A i \in 1 .. n : g[i] = f[i]
    BY <1>2, <2>2
  <2>5. Total(g, n + 1) = Total(f, n) + g[n + 1]
    BY <2>4, OneMore
  <2> QED
    BY <1>2, <2>1, <2>3, <2>5
<1> QED
  BY <1>1, <1>2, <1>3, <1>4

(* A new sample adds itself, and a change if it is one.                    *)
LEMMA SampleAdds ==
  ASSUME NEW S, NEW h \in Seq(S), NEW k \in S
  PROVE  /\ \A key : Total(Sampled(Append(h, k), key), Len(Append(h, k)))
                       = Total(Sampled(h, key), Len(h)) + (IF k = key THEN 1 ELSE 0)
         /\ Total(Changed(Append(h, k)), Len(Append(h, k)))
              = Total(Changed(h), Len(h)) + (IF h # << >> /\ k # h[Len(h)] THEN 1 ELSE 0)
<1>1. PICK n \in Nat : n = Len(h)
  BY LenProperties
<1>2. /\ Len(Append(h, k)) = n + 1 /\ DOMAIN Append(h, k) = 1 .. n + 1 /\ DOMAIN h = 1 .. n
      /\ Append(h, k)[n + 1] = k /\ \A i \in 1 .. n : Append(h, k)[i] = h[i]
  BY <1>1, OneAppended
<1>3. ASSUME NEW key
      PROVE  Total(Sampled(Append(h, k), key), n + 1)
               = Total(Sampled(h, key), n) + (IF k = key THEN 1 ELSE 0)
  <2>1. PICK f, g : f = Sampled(h, key) /\ g = Sampled(Append(h, k), key)
    OBVIOUS
  <2>2. \A i \in 1 .. n : g[i] = f[i]
    BY <1>2, <2>1 DEF Sampled
  <2>3. g[n + 1] = IF k = key THEN 1 ELSE 0
    BY <1>2, <2>1 DEF Sampled
  <2>4. Total(g, n + 1) = Total(f, n) + g[n + 1]
    BY <2>2, OneMore
  <2> QED
    BY <2>1, <2>3, <2>4
<1>4. Total(Changed(Append(h, k)), n + 1)
        = Total(Changed(h), n) + (IF h # << >> /\ k # h[Len(h)] THEN 1 ELSE 0)
  <2>1. PICK f, g : f = Changed(h) /\ g = Changed(Append(h, k))
    OBVIOUS
  <2>2. \A i \in 1 .. n : g[i] = f[i]
    BY <1>2, <2>1 DEF Changed
  <2>3. g[n + 1] = IF n + 1 > 1 /\ k # Append(h, k)[n] THEN 1 ELSE 0
    BY <1>2, <2>1 DEF Changed
  <2>4. (h # << >> <=> n + 1 > 1) /\ (h # << >> => Append(h, k)[n] = h[Len(h)])
    <3>1. h # << >> <=> n # 0
      BY <1>1, EmptySeq
    <3> QED
      BY <1>1, <1>2, <3>1
  <2>5. g[n + 1] = IF h # << >> /\ k # h[Len(h)] THEN 1 ELSE 0
    BY <2>3, <2>4
  <2> QED
    BY <2>1, <2>2, <2>5, OneMore
<1> QED
  BY <1>1, <1>2, <1>3, <1>4

SamplesKept ==
  /\ now \in Nat /\ ending \in SUBSET Nat /\ probed \in AppKeys \cup {Idle}
  /\ windowStart \in Nat /\ focus \in Counts /\ switches \in Nat
  /\ summaries \in Seq(ActionSummary) /\ history \in Seq(AppKeys)
  /\ lastApp = IF history = << >> THEN "" ELSE history[Len(history)]

SamplesCounted ==
  /\ \A key \in AppKeys :
       Total(Focused(Windows, key), Len(Windows)) = Total(Sampled(history, key), Len(history))
  /\ Total(Switched(Windows), Len(Windows)) = Total(Changed(history), Len(history))

WindowsMeet == \A w \in 2 .. Len(Windows) : Windows[w].start = Windows[w - 1].end

WindowInv == SamplesKept /\ SamplesCounted /\ WindowsMeet

(* A count of nothing.                                                     *)
LEMMA NoCount == << >> \in Counts /\ DOMAIN << >> = {}
<1>1. PICK e : e = << >>
  OBVIOUS
<1>2. DOMAIN e = {} /\ e = [k \in {} |-> 0]
  BY <1>1
<1>3. e \in [{} -> Nat]
  BY <1>2
<1> QED
  BY <1>1, <1>2, <1>3 DEF Counts

(* One sample more counts one more of its application, and of no other.    *)
LEMMA CountedOne ==
  ASSUME focus \in Counts, NEW k \in AppKeys
  PROVE  /\ Counted(k) \in Counts
         /\ \A key : (IF key \in DOMAIN Counted(k) THEN Counted(k)[key] ELSE 0)
                     = (IF key \in DOMAIN focus THEN focus[key] ELSE 0) + (IF k = key THEN 1 ELSE 0)
<1>1. PICK D \in SUBSET AppKeys : focus \in [D -> Nat]
  BY DEF Counts
<1>2. PICK c : c = Counted(k)
  OBVIOUS
<1>3. c = [key \in D \cup {k} |-> (IF key \in D THEN focus[key] ELSE 0) + (IF key = k THEN 1 ELSE 0)]
  BY <1>1, <1>2 DEF Counted
<1>4. DOMAIN c = D \cup {k}
  BY <1>3
<1>5. ASSUME NEW key \in D \cup {k}
      PROVE  c[key] \in Nat /\ c[key] = (IF key \in D THEN focus[key] ELSE 0) + (IF key = k THEN 1 ELSE 0)
  <2>1. key \in D => focus[key] \in Nat
    BY <1>1
  <2> QED
    BY <1>3, <2>1
<1>6. c \in [D \cup {k} -> Nat] /\ D \cup {k} \in SUBSET AppKeys
  BY <1>3, <1>5
<1>7. ASSUME NEW key
      PROVE  (IF key \in DOMAIN c THEN c[key] ELSE 0)
             = (IF key \in DOMAIN focus THEN focus[key] ELSE 0) + (IF k = key THEN 1 ELSE 0)
  <2>1. DOMAIN focus = D
    BY <1>1
  <2>2. CASE key \in D \cup {k}
    BY <1>4, <1>5, <2>1, <2>2
  <2>3. CASE key \notin D \cup {k}
    BY <1>4, <2>1, <2>3
  <2> QED
    BY <2>2, <2>3
<1> QED
  BY <1>2, <1>6, <1>7 DEF Counts

(* What the running window is, before a step and after it.                 *)
LEMMA RunningIs ==
  /\ SamplesKept => /\ Running \in ActionSummary /\ summaries \in Seq(ActionSummary)
                    /\ Running.start = windowStart /\ Running.end = now
                    /\ Running.focus = focus /\ Running.switches = switches
  /\ SamplesKept' => /\ Running' \in ActionSummary /\ summaries' \in Seq(ActionSummary)
                     /\ Running'.start = windowStart' /\ Running'.end = now'
                     /\ Running'.focus = focus' /\ Running'.switches = switches'
  BY DEF SamplesKept, Running, ActionSummary

(* When the running window grows by what is sampled, the counts agree.     *)
LEMMA CountsGrow ==
  ASSUME WindowInv, SamplesKept', summaries' = summaries, NEW d \in [AppKeys -> Nat], NEW c \in Nat,
         \A key \in AppKeys : FocusOf(Running', key) = FocusOf(Running, key) + d[key],
         switches' = switches + c,
         \A key \in AppKeys : Total(Sampled(history', key), Len(history'))
                                = Total(Sampled(history, key), Len(history)) + d[key],
         Total(Changed(history'), Len(history')) = Total(Changed(history), Len(history)) + c
  PROVE  SamplesCounted'
<1>1. PICK s \in Seq(ActionSummary), q \in ActionSummary, r \in ActionSummary :
        /\ s = summaries /\ q = Running /\ r = Running'
        /\ q.switches = switches /\ r.switches = switches'
  BY RunningIs DEF WindowInv
<1>2. Windows = Append(s, q) /\ Windows' = Append(s, r)
  BY <1>1 DEF Windows
<1>3. ASSUME NEW key \in AppKeys
      PROVE  Total(Focused(Windows', key), Len(Windows')) = Total(Sampled(history', key), Len(history'))
  <2>1. d[key] \in Nat /\ FocusOf(r, key) = FocusOf(q, key) + d[key]
    BY <1>1
  <2>2. Total(Focused(Append(s, r), key), Len(Append(s, r)))
          = Total(Focused(Append(s, q), key), Len(Append(s, q))) + d[key]
    BY <2>1, WindowGrows
  <2> QED
    BY <1>2, <2>2 DEF WindowInv, SamplesCounted
<1>4. Total(Switched(Windows'), Len(Windows')) = Total(Changed(history'), Len(history'))
  <2>1. r.switches = q.switches + c
    BY <1>1
  <2>2. Total(Switched(Append(s, r)), Len(Append(s, r)))
          = Total(Switched(Append(s, q)), Len(Append(s, q))) + c
    BY <2>1, WindowGrows
  <2> QED
    BY <1>2, <2>2 DEF WindowInv, SamplesCounted
<1> QED
  BY <1>3, <1>4 DEF SamplesCounted

(* The windows still meet when only the running one changes, and not its   *)
(* start.                                                                  *)
LEMMA WindowsStillMeet ==
  ASSUME WindowInv, SamplesKept', summaries' = summaries, windowStart' = windowStart
  PROVE  WindowsMeet'
<1>1. PICK s \in Seq(ActionSummary), q \in ActionSummary, r \in ActionSummary :
        s = summaries /\ q = Running /\ r = Running' /\ q.start = r.start
  BY RunningIs DEF WindowInv
<1>2. Windows = Append(s, q) /\ Windows' = Append(s, r)
  BY <1>1 DEF Windows
<1>3. PICK n \in Nat : n = Len(s)
  BY LenProperties
<1>4. /\ Len(Windows) = n + 1 /\ Len(Windows') = n + 1
      /\ Windows[n + 1] = q /\ Windows'[n + 1] = r
      /\ \A i \in 1 .. n : Windows[i] = s[i] /\ Windows'[i] = s[i]
  BY <1>2, <1>3, OneAppended
<1>5. ASSUME NEW w \in 2 .. n + 1 PROVE Windows'[w].start = Windows'[w - 1].end
  <2>1. w - 1 \in 1 .. n /\ Windows[w].start = Windows[w - 1].end
    BY <1>3, <1>4 DEF WindowInv, WindowsMeet
  <2>2. Windows'[w].start = Windows[w].start
    <3>1. CASE w = n + 1
      BY <1>1, <1>4, <3>1
    <3>2. CASE w # n + 1
      <4>1. w \in 1 .. n
        BY <3>2
      <4> QED
        BY <1>4, <4>1
    <3> QED
      BY <3>1, <3>2
  <2> QED
    BY <1>4, <2>1, <2>2
<1> QED
  BY <1>4, <1>5 DEF WindowsMeet

(* Time and probes change no count.                                        *)
LEMMA CountsStay ==
  ASSUME WindowInv, SamplesKept', UNCHANGED <<windowStart, focus, switches, summaries, history>>
  PROVE  SamplesCounted' /\ WindowsMeet'
<1>1. PICK d : d = [key \in AppKeys |-> 0]
  OBVIOUS
<1>2. d \in [AppKeys -> Nat] /\ \A key \in AppKeys : d[key] = 0
  BY <1>1
<1>3. ASSUME NEW key \in AppKeys PROVE FocusOf(Running', key) = FocusOf(Running, key) + d[key]
  <2>1. FocusOf(Running', key) = FocusOf(Running, key)
    BY RunningIs DEF WindowInv, FocusOf
  <2>2. FocusOf(Running, key) \in Nat
    BY RunningIs, FocusIsNumber DEF WindowInv
  <2> QED
    BY <1>2, <2>1, <2>2
<1>4. ASSUME NEW key \in AppKeys
      PROVE  Total(Sampled(history', key), Len(history')) = Total(Sampled(history, key), Len(history)) + d[key]
  <2>1. Total(Sampled(history, key), Len(history)) \in Nat
    <3>1. Len(history) \in Nat
      BY LenProperties DEF WindowInv, SamplesKept
    <3>2. \A i \in 1 .. Len(history) : Sampled(history, key)[i] \in Nat
      BY <3>1 DEF Sampled
    <3> QED
      BY <3>1, <3>2, TotalType
  <2> QED
    BY <1>2, <2>1
<1>5. /\ switches' = switches + 0
      /\ Total(Changed(history'), Len(history')) = Total(Changed(history), Len(history)) + 0
  <2>1. Len(history) \in Nat
    BY LenProperties DEF WindowInv, SamplesKept
  <2>2. \A i \in 1 .. Len(history) : Changed(history)[i] \in Nat
    BY <2>1 DEF Changed
  <2>3. Total(Changed(history), Len(history)) \in Nat
    BY <2>1, <2>2, TotalType
  <2>4. history' = history /\ switches' = switches /\ switches \in Nat
    BY DEF WindowInv, SamplesKept
  <2>5. switches' = switches + 0
    BY <2>4
  <2> QED
    BY <2>3, <2>4, <2>5
<1>6. SamplesCounted'
  BY <1>2, <1>3, <1>4, <1>5, CountsGrow
<1> QED
  BY <1>6, WindowsStillMeet

(* A sample is counted.                                                    *)
LEMMA SampleCounts ==
  ASSUME WindowInv, Sample
  PROVE  SamplesKept' /\ SamplesCounted' /\ WindowsMeet'
<1>1. /\ probed \in AppKeys /\ probed' = Idle /\ lastApp' = probed /\ focus' = Counted(probed)
      /\ history' = Append(history, probed)
      /\ now' = now /\ ending' = ending /\ windowStart' = windowStart /\ summaries' = summaries
      /\ focus \in Counts /\ history \in Seq(AppKeys)
  BY DEF WindowInv, SamplesKept, Sample
<1>2. PICK c \in Nat : /\ c = (IF history # << >> /\ probed # history[Len(history)] THEN 1 ELSE 0)
                       /\ switches' = switches + c
  <2>1. "" \notin AppKeys
    BY ActionAssumption DEF AppKeys, KeyOf
  <2>2. history # << >> => lastApp = history[Len(history)] /\ history[Len(history)] \in AppKeys
    <3>1. history # << >> => Len(history) \in 1 .. Len(history)
      BY <1>1, EmptySeq
    <3> QED
      BY <1>1, <3>1, ElementOfSeq DEF WindowInv, SamplesKept
  <2>3. history = << >> => lastApp = ""
    BY DEF WindowInv, SamplesKept
  <2>4. switches \in Nat /\ switches' = IF lastApp # "" /\ lastApp # probed THEN switches + 1 ELSE switches
    BY DEF WindowInv, SamplesKept, Sample
  <2>5. (lastApp # "" /\ lastApp # probed) <=> (history # << >> /\ probed # history[Len(history)])
    BY <2>1, <2>2, <2>3
  <2>6. PICK c \in Nat : c = IF history # << >> /\ probed # history[Len(history)] THEN 1 ELSE 0
    OBVIOUS
  <2>7. switches' = switches + c
    <3>1. CASE history # << >> /\ probed # history[Len(history)]
      <4>1. lastApp # "" /\ lastApp # probed /\ c = 1
        BY <2>5, <2>6, <3>1
      <4>2. switches' = switches + 1
        BY <2>4, <4>1
      <4> QED
        BY <4>1, <4>2
    <3>2. CASE ~(history # << >> /\ probed # history[Len(history)])
      <4>1. ~(lastApp # "" /\ lastApp # probed) /\ c = 0
        BY <2>5, <2>6, <3>2
      <4>2. switches' = switches
        BY <2>4, <4>1, Zenon
      <4>3. switches + 0 = switches
        <5>1. switches \in Nat
          BY <2>4
        <5> QED
          BY <5>1
      <4> QED
        BY <4>1, <4>2, <4>3, Zenon
    <3> QED
      BY <3>1, <3>2
  <2> QED
    BY <2>6, <2>7
<1>3. SamplesKept'
  <2>1. history' \in Seq(AppKeys) /\ history' # << >> /\ history'[Len(history')] = probed
    <3>1. Len(history) + 1 # 0 /\ Len(history') = Len(history) + 1
      BY <1>1, OneAppended
    <3> QED
      BY <1>1, <3>1, OneAppended, EmptySeq
  <2>2. focus' \in Counts
    BY <1>1, CountedOne
  <2>3. switches' \in Nat
    <3>1. switches \in Nat
      BY DEF WindowInv, SamplesKept
    <3> QED
      BY <1>2, <3>1
  <2> QED
    BY <1>1, <2>1, <2>2, <2>3 DEF WindowInv, SamplesKept
<1>4. PICK d : d = [key \in AppKeys |-> IF probed = key THEN 1 ELSE 0]
  OBVIOUS
<1>5. d \in [AppKeys -> Nat] /\ \A key \in AppKeys : d[key] = IF probed = key THEN 1 ELSE 0
  BY <1>4
<1>6. ASSUME NEW key \in AppKeys PROVE FocusOf(Running', key) = FocusOf(Running, key) + d[key]
  <2>1. Running.focus = focus /\ Running'.focus = Counted(probed)
    BY <1>1, <1>3, RunningIs DEF WindowInv
  <2> QED
    BY <1>1, <1>5, <2>1, CountedOne DEF FocusOf
<1>7. ASSUME NEW key \in AppKeys
      PROVE  Total(Sampled(history', key), Len(history')) = Total(Sampled(history, key), Len(history)) + d[key]
  BY <1>1, <1>5, SampleAdds
<1>8. Total(Changed(history'), Len(history')) = Total(Changed(history), Len(history)) + c
  BY <1>1, <1>2, SampleAdds
<1>9. SamplesCounted'
  BY <1>1, <1>2, <1>3, <1>5, <1>6, <1>7, <1>8, CountsGrow
<1> QED
  BY <1>1, <1>3, <1>9, WindowsStillMeet

(* A summary takes the running window; the next starts where it ends and   *)
(* has counted nothing.                                                    *)
LEMMA SnapshotCounts ==
  ASSUME WindowInv, Snapshot
  PROVE  SamplesKept' /\ SamplesCounted' /\ WindowsMeet'
<1>1. PICK end \in ending :
        /\ summaries' = Append(summaries, [start |-> windowStart, end |-> end, focus |-> focus,
                                           switches |-> switches])
        /\ windowStart' = end
  BY DEF Snapshot
<1>2. PICK s \in Seq(ActionSummary), p \in ActionSummary :
        /\ s = summaries /\ p = [start |-> windowStart, end |-> end, focus |-> focus, switches |-> switches]
        /\ summaries' = Append(s, p) /\ end \in Nat
        /\ p.start = windowStart /\ p.end = end /\ p.focus = focus /\ p.switches = switches
  <2>1. PICK p : p = [start |-> windowStart, end |-> end, focus |-> focus, switches |-> switches]
    OBVIOUS
  <2>2. windowStart \in Nat /\ end \in Nat /\ focus \in Counts /\ switches \in Nat
        /\ summaries \in Seq(ActionSummary)
    BY <1>1 DEF WindowInv, SamplesKept
  <2>3. p \in ActionSummary
    BY <2>1, <2>2 DEF ActionSummary
  <2> QED
    BY <1>1, <2>1, <2>2, <2>3
<1>3. SamplesKept'
  <2>1. Append(s, p) \in Seq(ActionSummary)
    BY OneAppended
  <2>2. << >> \in Counts /\ {} \in SUBSET Nat /\ 0 \in Nat
    BY NoCount
  <2> QED
    BY <1>1, <1>2, <2>1, <2>2 DEF WindowInv, SamplesKept, Snapshot
<1>4. PICK q \in ActionSummary, r \in ActionSummary :
        /\ q = Running /\ r = Running' /\ q.start = p.start /\ q.focus = p.focus /\ q.switches = p.switches
        /\ r.start = p.end /\ r.focus = << >> /\ r.switches = 0
  BY <1>1, <1>2, <1>3, RunningIs DEF WindowInv, Snapshot
<1>5. PICK t \in Seq(ActionSummary) : t = Append(s, p)
  BY OneAppended
<1>6. Windows = Append(s, q) /\ Windows' = Append(t, r) /\ history' = history
  BY <1>2, <1>4, <1>5 DEF Windows, Snapshot
<1>7. PICK n \in Nat : n = Len(s)
  BY LenProperties
<1>8. ASSUME NEW key \in AppKeys
      PROVE  Total(Focused(Windows', key), Len(Windows')) = Total(Sampled(history', key), Len(history'))
  <2>1. FocusOf(r, key) = 0 /\ FocusOf(p, key) = FocusOf(q, key) + 0
    <3>1. FocusOf(r, key) = 0
      BY <1>4, NoCount DEF FocusOf
    <3>2. FocusOf(p, key) = FocusOf(q, key)
      BY <1>4 DEF FocusOf
    <3>3. FocusOf(q, key) \in Nat
      BY FocusIsNumber
    <3> QED
      BY <3>1, <3>2, <3>3
  <2>2. Total(Focused(Append(t, r), key), Len(Append(t, r))) = Total(Focused(t, key), Len(t)) + FocusOf(r, key)
    BY WindowAdds
  <2>3. Total(Focused(t, key), Len(t)) = Total(Focused(Append(s, q), key), Len(Append(s, q))) + 0
    BY <1>5, <2>1, WindowGrows
  <2>4. Total(Focused(Windows, key), Len(Windows)) \in Nat
    <3>1. Total(Focused(Windows, key), Len(Windows)) = Total(Sampled(history, key), Len(history))
      BY DEF WindowInv, SamplesCounted
    <3>2. Len(history) \in Nat
      BY LenProperties DEF WindowInv, SamplesKept
    <3>3. \A i \in 1 .. Len(history) : Sampled(history, key)[i] \in Nat
      BY <3>2 DEF Sampled
    <3> QED
      BY <3>1, <3>2, <3>3, TotalType
  <2>5. Total(Focused(Windows', key), Len(Windows')) = Total(Focused(Windows, key), Len(Windows))
    BY <1>6, <2>1, <2>2, <2>3, <2>4
  <2> QED
    BY <1>6, <2>5 DEF WindowInv, SamplesCounted
<1>9. Total(Switched(Windows'), Len(Windows')) = Total(Changed(history'), Len(history'))
  <2>1. Total(Switched(Append(t, r)), Len(Append(t, r))) = Total(Switched(t), Len(t)) + r.switches
    BY WindowAdds
  <2>2. p.switches = q.switches + 0
    BY <1>4 DEF ActionSummary
  <2>3. Total(Switched(t), Len(t)) = Total(Switched(Append(s, q)), Len(Append(s, q))) + 0
    BY <1>5, <2>2, WindowGrows
  <2>4. Total(Switched(Windows), Len(Windows)) \in Nat
    <3>1. Total(Switched(Windows), Len(Windows)) = Total(Changed(history), Len(history))
      BY DEF WindowInv, SamplesCounted
    <3>2. Len(history) \in Nat
      BY LenProperties DEF WindowInv, SamplesKept
    <3>3. \A i \in 1 .. Len(history) : Changed(history)[i] \in Nat
      BY <3>2 DEF Changed
    <3> QED
      BY <3>1, <3>2, <3>3, TotalType
  <2>5. Total(Switched(Windows'), Len(Windows')) = Total(Switched(Windows), Len(Windows))
    BY <1>4, <1>6, <2>1, <2>3, <2>4
  <2> QED
    BY <1>6, <2>5 DEF WindowInv, SamplesCounted
<1>10. SamplesCounted'
  BY <1>8, <1>9 DEF SamplesCounted
<1>11. WindowsMeet'
  <2>1. /\ Len(Windows) = n + 1 /\ Len(t) = n + 1 /\ Len(Windows') = n + 2
        /\ Windows[n + 1] = q /\ t[n + 1] = p /\ Windows'[n + 2] = r
        /\ \A i \in 1 .. n : Windows[i] = s[i] /\ t[i] = s[i]
        /\ \A i \in 1 .. n + 1 : Windows'[i] = t[i]
    <3>1. Len(t) = n + 1 /\ t[n + 1] = p /\ \A i \in 1 .. n : t[i] = s[i]
      BY <1>5, <1>7, OneAppended
    <3>2. Len(Windows) = n + 1 /\ Windows[n + 1] = q /\ \A i \in 1 .. n : Windows[i] = s[i]
      BY <1>6, <1>7, OneAppended
    <3>3. Len(Windows') = (n + 1) + 1 /\ Windows'[(n + 1) + 1] = r /\ \A i \in 1 .. n + 1 : Windows'[i] = t[i]
      BY <1>6, <3>1, OneAppended
    <3>4. (n + 1) + 1 = n + 2
      OBVIOUS
    <3> QED
      BY <3>1, <3>2, <3>3, <3>4
  <2>2. ASSUME NEW w \in 2 .. n + 2 PROVE Windows'[w].start = Windows'[w - 1].end
    <3>1. CASE w = n + 2
      <4>1. w - 1 = n + 1 /\ n + 1 \in 1 .. n + 1
        BY <3>1
      <4> QED
        BY <1>4, <2>1, <3>1, <4>1
    <3>2. CASE w # n + 2
      <4>1. w \in 2 .. n + 1 /\ w - 1 \in 1 .. n /\ w \in 1 .. n + 1 /\ w - 1 \in 1 .. n + 1
        BY <3>2
      <4>2. Windows[w].start = Windows[w - 1].end
        BY <2>1, <4>1 DEF WindowInv, WindowsMeet
      <4>3. Windows'[w].start = Windows[w].start
        <5>1. CASE w = n + 1
          BY <1>4, <2>1, <4>1, <5>1
        <5>2. CASE w # n + 1
          <6>1. w \in 1 .. n
            BY <4>1, <5>2
          <6> QED
            BY <2>1, <4>1, <6>1
        <5> QED
          BY <5>1, <5>2
      <4>4. Windows'[w - 1] = Windows[w - 1]
        BY <2>1, <4>1
      <4> QED
        BY <4>2, <4>3, <4>4
    <3> QED
      BY <3>1, <3>2
  <2> QED
    BY <2>1, <2>2 DEF WindowsMeet
<1> QED
  BY <1>3, <1>10, <1>11

(* The windows, at the start and over every step.                          *)
LEMMA WindowsStart == ActionInit => WindowInv
<1> SUFFICES ASSUME ActionInit PROVE WindowInv
  OBVIOUS
<1>1. SamplesKept
  BY NoCount, EmptySeq DEF ActionInit, SamplesKept
<1>2. PICK s \in Seq(ActionSummary), r \in ActionSummary :
        s = << >> /\ r = Running /\ r.focus = << >> /\ r.switches = 0 /\ Windows = Append(s, r)
  BY <1>1, RunningIs DEF ActionInit, Windows
<1>3. Len(s) = 0 /\ Len(history) = 0 /\ \A f : Total(f, 0) = 0
  BY <1>2, EmptySeq, TotalIs DEF ActionInit
<1>4. \A key : Total(Focused(Windows, key), Len(Windows)) = 0
  <2>1. \A key : FocusOf(r, key) = 0
    BY <1>2, NoCount DEF FocusOf
  <2>2. \A key : Total(Focused(Append(s, r), key), Len(Append(s, r)))
                  = Total(Focused(s, key), Len(s)) + FocusOf(r, key)
    BY WindowAdds
  <2> QED
    BY <1>2, <1>3, <2>1, <2>2
<1>5. Total(Switched(Windows), Len(Windows)) = 0
  <2>1. Total(Switched(Append(s, r)), Len(Append(s, r))) = Total(Switched(s), Len(s)) + r.switches
    BY WindowAdds
  <2> QED
    BY <1>2, <1>3, <2>1
<1>6. WindowsMeet
  <2>1. Len(Windows) = 1
    BY <1>2, <1>3, OneAppended
  <2> QED
    BY <2>1 DEF WindowsMeet
<1> QED
  BY <1>1, <1>3, <1>4, <1>5, <1>6 DEF WindowInv, SamplesCounted

(* One step. *)
LEMMA WindowStep == WindowInv /\ [ActionNext]_actionVars => WindowInv'
<1> SUFFICES ASSUME WindowInv, [ActionNext]_actionVars PROVE WindowInv'
  OBVIOUS
<1>1. CASE Sample
  BY <1>1, SampleCounts DEF WindowInv
<1>2. CASE Snapshot
  BY <1>2, SnapshotCounts DEF WindowInv
<1>3. CASE Clock \/ Probe \/ WindowEnds \/ UNCHANGED actionVars
  <2>1. SamplesKept'
    <3>1. CASE Clock
      <4>1. now \in Nat /\ now' = now + 1
        BY <3>1 DEF WindowInv, SamplesKept, Clock
      <4>2. now' \in Nat
        BY <4>1
      <4> QED
        BY <3>1, <4>2 DEF WindowInv, SamplesKept, Clock
    <3>2. CASE Probe
      BY <3>2 DEF WindowInv, SamplesKept, Probe, AppKeys
    <3>3. CASE WindowEnds
      BY <3>3 DEF WindowInv, SamplesKept, WindowEnds
    <3>4. CASE UNCHANGED actionVars
      BY <3>4 DEF WindowInv, SamplesKept, actionVars
    <3> QED
      BY <1>3, <3>1, <3>2, <3>3, <3>4
  <2>2. UNCHANGED <<windowStart, focus, switches, summaries, history>>
    BY <1>3 DEF Clock, Probe, WindowEnds, actionVars
  <2> QED
    BY <2>1, <2>2, CountsStay DEF WindowInv
<1> QED
  BY <1>1, <1>2, <1>3 DEF ActionNext

(* Every sample and every change of application is counted in exactly one  *)
(* window, and the windows leave no time out, however the two loops        *)
(* interleave (actions.go:57-71, 82-100).                                  *)
THEOREM SamplesAreCountedOnce == ActionSpec => []WindowsAreExact
<1>1. WindowInv => WindowsAreExact
  <2> SUFFICES ASSUME WindowInv PROVE WindowsAreExact
    OBVIOUS
  <2>1. \A i \in DOMAIN history : history[i] \in AppKeys
    <3>1. DOMAIN history = 1 .. Len(history)
      BY LenProperties DEF WindowInv, SamplesKept
    <3> QED
      BY <3>1, ElementOfSeq DEF WindowInv, SamplesKept
  <2> QED
    BY <2>1 DEF WindowInv, SamplesCounted, WindowsMeet, WindowsAreExact
<1> QED
  BY <1>1, WindowsStart, WindowStep, PTL DEF ActionSpec
=============================================================================
