------------------------ MODULE ProcessMonitorProofs ------------------------
(* Type correctness of ProcessMonitor, and that its table is always what   *)
(* was told, for any PIDs, cap, channel and bounds.                        *)
EXTENDS ProcessMonitor, FiniteSetTheorems, SequenceTheorems, TLAPS

Change(top) == [type : {"start", "exit", "open"}, pid : Pids, proc : 1 .. top]

(* The conjuncts of TypeOK that speak of the number of processes born, at  *)
(* that number.                                                            *)
Typed(top) ==
  /\ live \in [Pids -> 0 .. top] /\ seen \in [Pids -> 0 .. top] /\ listed \in [Pids -> 0 .. top]
  /\ chan \in Seq(Change(top))
  /\ told \in [Pids -> [type : {"nothing", "baseline", "start", "exit"}, proc : 0 .. top]]

(* A bigger range of numbers types the same state. *)
LEMMA TypedGrows ==
  ASSUME NEW low \in Nat, NEW high \in Nat, low <= high, Typed(low)
  PROVE  Typed(high)
<1>1. 0 .. low \subseteq 0 .. high /\ 1 .. low \subseteq 1 .. high
  OBVIOUS
<1>2. Change(low) \subseteq Change(high)
  BY <1>1 DEF Change
<1>3. PICK S : S = Change(low)
  OBVIOUS
<1>4. PICK T : T = Change(high)
  OBVIOUS
<1>5. chan \in Seq(T)
  <2>1. chan \in Seq(S) /\ S \subseteq T
    BY <1>2, <1>3, <1>4 DEF Typed
  <2> QED
    BY <2>1
<1> QED
  BY <1>1, <1>4, <1>5 DEF Typed

(* What Event does to the channel and to the count of missed events. *)
LEMMA EventType ==
  ASSUME NEW top \in Nat, NEW type \in {"start", "exit", "open"}, NEW p \in Pids,
         NEW proc \in 1 .. top, chan \in Seq(Change(top)), Len(chan) <= ChanCap,
         missed \in 0 .. MaxMissed, Event(type, p, proc)
  PROVE  /\ chan' \in Seq(Change(top)) /\ Len(chan') <= ChanCap
         /\ missed' \in 0 .. MaxMissed
<1>1. [type |-> type, pid |-> p, proc |-> proc] \in Change(top)
  BY DEF Change
<1>2. PICK S : S = Change(top)
  OBVIOUS
<1>3. PICK c : c = [type |-> type, pid |-> p, proc |-> proc]
  OBVIOUS
<1>4. c \in S /\ chan \in Seq(S)
  BY <1>1, <1>2, <1>3
<1>5. MaxMissed \in Nat /\ ChanCap \in Nat
  BY MonitorAssumption
<1>6. CASE UNCHANGED <<chan, missed>>
  BY <1>6
<1>7. CASE Len(chan) < ChanCap /\ chan' = Append(chan, c) /\ UNCHANGED missed
  BY <1>2, <1>4, <1>5, <1>7
<1>8. CASE missed < MaxMissed /\ missed' = missed + 1 /\ UNCHANGED chan
  BY <1>5, <1>8
<1> QED
  BY <1>3, <1>6, <1>7, <1>8 DEF Event

(* What a report leaves: of a PID it names, one of the records that name   *)
(* it; of the others, what was told before.                                *)
LEMMA ReportTells ==
  ASSUME NEW rs, Report(rs), NEW p \in Pids
  PROVE  /\ (\E r \in rs : r.pid = p) =>
              \E r \in rs : r.pid = p /\ told'[p] = Told(r.type, r.proc)
         /\ ~(\E r \in rs : r.pid = p) => told'[p] = told[p]
<1>1. told'[p] = IF \E r \in rs : r.pid = p
                   THEN LET r == CHOOSE r \in rs : r.pid = p IN Told(r.type, r.proc)
                   ELSE told[p]
  BY DEF Report
<1>2. ASSUME \E r \in rs : r.pid = p
      PROVE  \E r \in rs : r.pid = p /\ told'[p] = Told(r.type, r.proc)
  <2>1. PICK c : c = (CHOOSE r \in rs : r.pid = p)
    OBVIOUS
  <2>2. c \in rs /\ c.pid = p
    BY <1>2, <2>1
  <2>3. told'[p] = Told(c.type, c.proc)
    BY <1>1, <1>2, <2>1
  <2> QED
    BY <2>2, <2>3
<1> QED
  BY <1>1, <1>2

(* A report of typed records leaves a typed history. *)
LEMMA ReportType ==
  ASSUME NEW top \in Nat, NEW rs, Report(rs),
         told \in [Pids -> [type : {"nothing", "baseline", "start", "exit"}, proc : 0 .. top]],
         \A r \in rs : r.type \in {"start", "exit"} /\ r.proc \in 0 .. top
  PROVE  told' \in [Pids -> [type : {"nothing", "baseline", "start", "exit"}, proc : 0 .. top]]
<1>1. \A p \in Pids : told'[p] \in [type : {"nothing", "baseline", "start", "exit"}, proc : 0 .. top]
  <2> TAKE p \in Pids
  <2>1. CASE \E r \in rs : r.pid = p
    <3>1. PICK r \in rs : told'[p] = Told(r.type, r.proc)
      BY <2>1, ReportTells
    <3> QED
      BY <3>1 DEF Told
  <2>2. CASE ~(\E r \in rs : r.pid = p)
    BY <2>2, ReportTells
  <2> QED
    BY <2>1, <2>2
<1>2. told' = [p \in Pids |-> told'[p]]
  BY DEF Report
<1> QED
  BY <1>1, <1>2

(* The records of one poll: typed, and one kind for each PID. *)
PollRecords(starts, gone) ==
  {[type |-> "start", pid |-> p, proc |-> listed[p]] : p \in starts}
    \cup {[type |-> "exit", pid |-> p, proc |-> seen[p]] : p \in gone}

(* Until a change or a poll made the monitor ready it has no row. *)
TableInv == TypeOK /\ SeenIsTold /\ (ready \/ seen = Empty)

LEMMA TypeInit == Init => TypeOK
<1> SUFFICES ASSUME Init PROVE TypeOK
  OBVIOUS
<1>1. IsFiniteSet(Alive(live))
  BY MonitorAssumption, FS_Subset DEF Alive
<1>2. born \in Nat
  BY <1>1, FS_CardinalityType DEF Init
<1>3. live \in [Pids -> 0 .. born]
  <2>1. PICK n : n = Cardinality(Pids)
    OBVIOUS
  <2>2. live \in [Pids -> 0 .. n] /\ \A p \in Pids : live[p] <= born
    BY <2>1 DEF Init
  <2>3. n \in Nat
    BY <2>1, FS_CardinalityType, MonitorAssumption
  <2> QED
    BY <1>2, <2>2, <2>3
<1>4. {execs, missed} \subseteq Nat /\ execs \in 0 .. MaxExecs /\ missed \in 0 .. MaxMissed
  BY MonitorAssumption DEF Init
<1>5. chan \in Seq(Change(born)) /\ Len(chan) <= ChanCap
  BY MonitorAssumption DEF Init
<1>6. seen \in [Pids -> 0 .. born] /\ listed \in [Pids -> 0 .. born]
      /\ told \in [Pids -> [type : {"nothing", "baseline", "start", "exit"}, proc : 0 .. born]]
  BY <1>2 DEF Init, Empty, None, Told
<1> QED
  BY <1>2, <1>3, <1>4, <1>5, <1>6 DEF Init, TypeOK, Procs, Change

(* The conjuncts of TypeOK that no step of the monitor touches, and those  *)
(* that TypedGrows carries over when a process is born.                    *)
LEMMA TypeStep == TypeOK /\ [Next]_vars => TypeOK'
<1> SUFFICES ASSUME TypeOK, [Next]_vars PROVE TypeOK'
  OBVIOUS
<1>a. born \in Nat /\ Typed(born)
  BY DEF TypeOK, Typed, Procs, Change
<1>b. MaxExecs \in Nat /\ MaxMissed \in Nat /\ ChanCap \in Nat
  BY MonitorAssumption
<1>c. chan \in Seq(Change(born)) /\ Len(chan) <= ChanCap
  BY DEF TypeOK, Change
<1>1. ASSUME NEW p \in Pids, Born(p) PROVE TypeOK'
  <2>1. PICK top : top = born + 1
    OBVIOUS
  <2>2. top \in Nat /\ born <= top /\ top \in 1 .. top /\ top \in 0 .. top /\ born' = top
    BY <1>a, <1>1, <2>1 DEF Born
  <2>3. Typed(top)
    BY <1>a, <2>2, TypedGrows
  <2>4. live' \in [Pids -> 0 .. top]
    BY <1>1, <2>1, <2>2, <2>3 DEF Born, Typed
  <2>5. Event("start", p, top)
    BY <1>1, <2>1 DEF Born
  <2>6. chan' \in Seq(Change(top)) /\ Len(chan') <= ChanCap /\ missed' \in 0 .. MaxMissed
    BY <1>c, <2>2, <2>3, <2>5, EventType DEF Typed, TypeOK
  <2> QED
    BY <1>1, <2>2, <2>3, <2>4, <2>6 DEF Born, TypeOK, Typed, Procs, Change, pollVars
<1>2. ASSUME NEW p \in Pids, Acts(p) \/ Dies(p) PROVE TypeOK'
  <2>1. live[p] \in 1 .. born
    BY <1>a, <1>2 DEF Acts, Dies, Typed, None
  <2>2. PICK type \in {"start", "exit", "open"} : Event(type, p, live[p])
    BY <1>2 DEF Acts, Dies
  <2>3. chan' \in Seq(Change(born)) /\ Len(chan') <= ChanCap /\ missed' \in 0 .. MaxMissed
    BY <1>a, <1>c, <2>1, <2>2, EventType DEF TypeOK
  <2>4. live' \in [Pids -> 0 .. born] /\ execs' \in 0 .. MaxExecs
    <3>1. CASE Acts(p)
      BY <1>a, <1>b, <3>1 DEF Acts, Typed, TypeOK
    <3>2. CASE Dies(p)
      <4>1. None \in 0 .. born
        BY <1>a DEF None
      <4>2. live' = [live EXCEPT ![p] = None] /\ execs' = execs
        BY <3>2 DEF Dies
      <4> QED
        BY <1>a, <4>1, <4>2 DEF Typed, TypeOK
    <3> QED
      BY <1>2, <3>1, <3>2
  <2> QED
    BY <1>a, <1>2, <2>3, <2>4 DEF Acts, Dies, TypeOK, Typed, Procs, Change, pollVars
<1>3. CASE WatcherStops
  <2>1. missed' \in 0 .. MaxMissed
    <3>1. missed \in 0 .. MaxMissed /\ missed < MaxMissed /\ missed' = missed + 1
      BY <1>3 DEF WatcherStops, TypeOK
    <3> QED
      BY <1>b, <3>1
  <2>3. watching' \in BOOLEAN
    BY <1>3 DEF WatcherStops
  <2>2. UNCHANGED <<live, born, execs, chan, seen, ready, pc, listed, told>>
    BY <1>3 DEF WatcherStops, pollVars
  <2> QED
    BY <2>1, <2>2, <2>3 DEF TypeOK, Procs
<1>4. CASE Observe
  <2>1. PICK c : c = Head(chan)
    OBVIOUS
  <2>2. PICK S : S = Change(born)
    OBVIOUS
  <2>3. chan \in Seq(S) /\ chan # << >>
    BY <1>c, <1>4, <2>2 DEF Observe
  <2>4. c \in S /\ chan' \in Seq(S) /\ Len(chan') <= ChanCap
    BY <1>b, <1>c, <1>4, <2>1, <2>3 DEF Observe
  <2>5. c.type \in {"start", "exit", "open"} /\ c.pid \in Pids /\ c.proc \in 0 .. born
    BY <1>a, <2>2, <2>4 DEF Change
  <2>6. seen' \in [Pids -> 0 .. born]
    <3>1. None \in 0 .. born
      BY <1>a DEF None
    <3>2. \/ UNCHANGED seen
          \/ \E proc \in 0 .. born : seen' = [seen EXCEPT ![c.pid] = proc]
      BY <1>4, <2>1, <2>5, <3>1 DEF Observe
    <3> QED
      BY <1>a, <2>5, <3>2 DEF Typed
  <2>7. told' \in [Pids -> [type : {"nothing", "baseline", "start", "exit"}, proc : 0 .. born]]
    <3>1. CASE UNCHANGED told
      BY <1>a, <3>1 DEF Typed
    <3>2. CASE Report({c}) /\ c.type \in {"start", "exit"}
      <4>1. PICK rs : rs = {c}
        OBVIOUS
      <4>2. Report(rs) /\ \A r \in rs : r.type \in {"start", "exit"} /\ r.proc \in 0 .. born
        BY <2>5, <3>2, <4>1
      <4> QED
        BY <1>a, <4>2, ReportType DEF Typed
    <3> QED
      BY <1>4, <2>1, <3>1, <3>2 DEF Observe
  <2> QED
    BY <1>4, <2>2, <2>4, <2>6, <2>7 DEF Observe, TypeOK, Procs, Change, osVars, pollVars
<1>5. CASE PollList
  BY <1>5 DEF PollList, TypeOK, Procs, osVars
<1>6. CASE PollBaseline
  <2>1. told' \in [Pids -> [type : {"nothing", "baseline", "start", "exit"}, proc : 0 .. born]]
    BY <1>a, <1>6 DEF PollBaseline, Typed, Told
  <2>2. Empty \in [Pids -> 0 .. born]
    BY <1>a DEF Empty, None
  <2> QED
    BY <1>6, <2>1, <2>2 DEF PollBaseline, TypeOK, Procs, osVars
<1>7. CASE PollReport
  <2>1. PICK starts \in SUBSET (Alive(listed) \ Alive(seen)) :
          /\ seen' = ApplyPollChanges(starts)
          /\ Report(PollRecords(starts, Alive(seen) \ Alive(listed)))
    BY <1>7 DEF PollReport, PollRecords
  <2>2. PICK rs : rs = PollRecords(starts, Alive(seen) \ Alive(listed))
    OBVIOUS
  <2>3. \A r \in rs : r.type \in {"start", "exit"} /\ r.proc \in 0 .. born
    BY <1>a, <2>2 DEF PollRecords, Alive, Typed
  <2>4. told' \in [Pids -> [type : {"nothing", "baseline", "start", "exit"}, proc : 0 .. born]]
    BY <1>a, <2>1, <2>2, <2>3, ReportType DEF Typed
  <2>5. seen' \in [Pids -> 0 .. born]
    BY <1>a, <2>1 DEF ApplyPollChanges, Typed, None
  <2>6. Empty \in [Pids -> 0 .. born]
    BY <1>a DEF Empty, None
  <2> QED
    BY <1>7, <2>4, <2>5, <2>6 DEF PollReport, TypeOK, Procs, osVars
<1>8. CASE UNCHANGED vars
  BY <1>8 DEF vars, osVars, pollVars, TypeOK, Procs
<1> QED
  BY <1>1, <1>2, <1>3, <1>4, <1>5, <1>6, <1>7, <1>8 DEF Next, Poll

(* The types hold in every behaviour, for any number of PIDs and processes. *)
THEOREM TypeCorrect == Spec => []TypeOK
BY TypeInit, TypeStep, PTL DEF Spec

LEMMA TableInit == Init => TableInv
BY TypeInit DEF TableInv, Init, SeenIsTold, Empty, Told

LEMMA TableStep == TableInv /\ [Next]_vars => TableInv'
<1> SUFFICES ASSUME TableInv, [Next]_vars PROVE TableInv'
  OBVIOUS
<1>t. TypeOK'
  BY TypeStep DEF TableInv
<1>f. seen \in [Pids -> 0 .. born]
  BY DEF TableInv, TypeOK, Procs
<1>1. ASSUME UNCHANGED <<seen, told, ready>> PROVE TableInv'
  BY <1>1, <1>t DEF TableInv, SeenIsTold, Empty
<1>2. CASE Observe
  <2>1. PICK c : c = Head(chan)
    OBVIOUS
  <2>2. c.pid \in Pids /\ c.proc \in 1 .. born
    <3>1. PICK S : S = Change(born)
      OBVIOUS
    <3>2. chan \in Seq(S) /\ chan # << >>
      BY <1>2, <3>1 DEF Observe, TableInv, TypeOK, Change
    <3>3. c \in S
      BY <2>1, <3>2
    <3> QED
      BY <3>1, <3>3 DEF Change
  <2>3. CASE UNCHANGED <<seen, told>>
    BY <1>2, <1>t, <2>3 DEF Observe, TableInv, SeenIsTold
  <2>4. CASE /\ c.type = "start" /\ seen[c.pid] = None
             /\ seen' = [seen EXCEPT ![c.pid] = c.proc] /\ Report({c})
    <3>1. ASSUME NEW p \in Pids
          PROVE  seen'[p] # None <=> told'[p].type \in {"baseline", "start"}
      <4>1. CASE p = c.pid
        <5>1. told'[p] = Told("start", c.proc)
          BY <2>4, <4>1, ReportTells
        <5>2. seen'[p] = c.proc /\ c.proc # None
          BY <1>f, <2>2, <2>4, <4>1 DEF None
        <5> QED
          BY <5>1, <5>2 DEF Told
      <4>2. CASE p # c.pid
        <5>1. told'[p] = told[p]
          BY <2>4, <4>2, ReportTells
        <5>2. seen'[p] = seen[p]
          BY <1>f, <2>4, <4>2
        <5> QED
          BY <5>1, <5>2 DEF TableInv, SeenIsTold
      <4> QED
        BY <4>1, <4>2
    <3> QED
      BY <1>2, <1>t, <3>1 DEF Observe, TableInv, SeenIsTold
  <2>5. CASE /\ c.type = "exit"
             /\ seen' = [seen EXCEPT ![c.pid] = None] /\ Report({c})
    <3>1. ASSUME NEW p \in Pids
          PROVE  seen'[p] # None <=> told'[p].type \in {"baseline", "start"}
      <4>1. CASE p = c.pid
        <5>1. told'[p] = Told("exit", c.proc)
          BY <2>5, <4>1, ReportTells
        <5>2. seen'[p] = None
          BY <1>f, <2>2, <2>5, <4>1
        <5> QED
          BY <5>1, <5>2 DEF Told
      <4>2. CASE p # c.pid
        <5>1. told'[p] = told[p]
          BY <2>5, <4>2, ReportTells
        <5>2. seen'[p] = seen[p]
          BY <1>f, <2>5, <4>2
        <5> QED
          BY <5>1, <5>2 DEF TableInv, SeenIsTold
      <4> QED
        BY <4>1, <4>2
    <3> QED
      BY <1>2, <1>t, <3>1 DEF Observe, TableInv, SeenIsTold
  <2> QED
    BY <1>2, <2>1, <2>3, <2>4, <2>5 DEF Observe
<1>3. CASE PollBaseline
  <2>1. seen = Empty
    BY <1>3 DEF PollBaseline, TableInv
  <2>2. ASSUME NEW p \in Pids
        PROVE  seen'[p] # None <=> told'[p].type \in {"baseline", "start"}
    <3>1. told'[p] = IF listed[p] # None THEN Told("baseline", listed[p]) ELSE told[p]
      BY <1>3 DEF PollBaseline
    <3>2. told[p].type \notin {"baseline", "start"}
      BY <2>1 DEF TableInv, SeenIsTold, Empty
    <3> QED
      BY <1>3, <3>1, <3>2 DEF PollBaseline, Told
  <2> QED
    BY <1>3, <1>t, <2>2 DEF PollBaseline, TableInv, SeenIsTold
<1>4. CASE PollReport
  <2>d. PICK new, gone : new = Alive(listed) \ Alive(seen) /\ gone = Alive(seen) \ Alive(listed)
    OBVIOUS
  <2>1. PICK starts \in SUBSET new :
          /\ IF Cardinality(new) >= MaxStarts THEN Cardinality(starts) = MaxStarts
                                              ELSE starts = new
          /\ seen' = ApplyPollChanges(starts)
          /\ Report(PollRecords(starts, gone))
    BY <1>4, <2>d DEF PollReport, PollRecords
  <2>2. PICK rs : rs = PollRecords(starts, gone)
    OBVIOUS
  <2>4. Report(rs)
    BY <2>1, <2>2
  <2>3. ASSUME NEW p \in Pids
        PROVE  seen'[p] # None <=> told'[p].type \in {"baseline", "start"}
    <3>s. p \in Alive(listed) <=> listed[p] # None
      BY DEF Alive
    <3>r. p \in Alive(seen) <=> seen[p] # None
      BY DEF Alive
    (* The table after the poll: rows of the snapshot, but only those that *)
    (* had a row or were reported.                                         *)
    <3>1. seen'[p] # None <=> p \in starts \/ (listed[p] # None /\ seen[p] # None)
      <4>1. CASE Cardinality(new) >= MaxStarts
        <5>1. Cardinality(starts) >= MaxStarts
          BY <2>1, <4>1, MonitorAssumption
        <5>2. seen'[p] = IF p \in starts THEN listed[p]
                         ELSE IF listed[p] # None THEN seen[p] ELSE None
          BY <2>1, <5>1 DEF ApplyPollChanges
        <5> QED
          BY <2>1, <2>d, <3>s, <3>r, <5>2
      <4>2. CASE ~(Cardinality(new) >= MaxStarts)
        <5>1. starts = new /\ ~(Cardinality(starts) >= MaxStarts)
          BY <2>1, <4>2
        <5>2. seen' = listed
          BY <2>1, <5>1 DEF ApplyPollChanges
        <5> QED
          BY <2>d, <3>s, <3>r, <5>1, <5>2
      <4> QED
        BY <4>1, <4>2
    <3>2. CASE p \in starts
      <4>1. \E r \in rs : r.pid = p
        <5>1. [type |-> "start", pid |-> p, proc |-> listed[p]] \in rs
          BY <2>2, <3>2 DEF PollRecords
        <5> QED
          BY <5>1
      <4>2. \A r \in rs : r.pid = p => r.type = "start"
        BY <2>1, <2>2, <2>d, <3>2 DEF PollRecords
      <4>3. told'[p].type = "start"
        <5>1. PICK r \in rs : r.pid = p /\ told'[p] = Told(r.type, r.proc)
          BY <2>4, <4>1, ReportTells
        <5> QED
          BY <4>2, <5>1 DEF Told
      <4> QED
        BY <3>1, <3>2, <4>3
    <3>3. CASE p \in gone
      <4>1. \E r \in rs : r.pid = p
        <5>1. [type |-> "exit", pid |-> p, proc |-> seen[p]] \in rs
          BY <2>2, <3>3 DEF PollRecords
        <5> QED
          BY <5>1
      <4>2. \A r \in rs : r.pid = p => r.type = "exit"
        BY <2>1, <2>2, <2>d, <3>3 DEF PollRecords
      <4>3. told'[p].type = "exit"
        <5>1. PICK r \in rs : r.pid = p /\ told'[p] = Told(r.type, r.proc)
          BY <2>4, <4>1, ReportTells
        <5> QED
          BY <4>2, <5>1 DEF Told
      <4> QED
        BY <2>1, <2>d, <3>1, <3>3, <3>s, <3>r, <4>3
    <3>4. CASE p \notin starts /\ p \notin gone
      <4>1. ~(\E r \in rs : r.pid = p)
        BY <2>2, <3>4 DEF PollRecords
      <4>2. told'[p] = told[p]
        BY <2>4, <4>1, ReportTells
      <4>3. seen'[p] # None <=> seen[p] # None
        BY <2>d, <3>1, <3>4, <3>s, <3>r
      <4> QED
        BY <4>2, <4>3 DEF TableInv, SeenIsTold
    <3> QED
      BY <3>2, <3>3, <3>4
  <2> QED
    BY <1>4, <1>t, <2>3 DEF PollReport, TableInv, SeenIsTold
<1> QED
  BY <1>1, <1>2, <1>3, <1>4 DEF Next, Poll, PollList, Born, Acts, Dies, WatcherStops, vars, osVars, pollVars

(* The table is what was told, in every behaviour, for any PIDs, any cap   *)
(* on the starts of a poll and any channel: neither a stale snapshot, nor  *)
(* a lost event, nor the cap makes a start unsaid or an exit forgotten.    *)
THEOREM TableIsTold == Spec => []SeenIsTold
<1>1. TableInv => SeenIsTold
  BY DEF TableInv
<1> QED
  BY <1>1, TableInit, TableStep, PTL DEF Spec
=============================================================================
