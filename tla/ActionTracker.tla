--------------------------- MODULE ActionTracker ---------------------------
(* The tracker of the application in the foreground (internal/collect/     *)
(* action/actions.go).  One loop of the agent samples it, another takes    *)
(* the summary of a window and starts the next; both probe the system      *)
(* before they take the lock.  Durations are counted in samples, each of   *)
(* which stands for pollEvery.                                             *)
EXTENDS Naturals, Sequences

CONSTANTS
  Apps,        \* applications: records of a name and a bundle, which may be ""
  MaxSamples, MaxWindows, MaxTime   \* bounds

\* What a probe returns has a bundle or a name (validForeground).
ASSUME ActionAssumption == \A app \in Apps : app.bundle # "" \/ app.name # ""

VARIABLES
  now,
  probed,               \* Sample: the application it has read, or "idle"
  ending,               \* SnapshotAndReset: the end it has read, if it runs
  lastApp, switches, focus, windowStart,   \* focus: by key, the samples of the window
  summaries,            \* the summaries enqueued
  history               \* the keys sampled

actionVars == <<now, probed, ending, lastApp, switches, focus, windowStart, summaries, history>>

Idle == "idle"

ActionInit ==
  /\ now = 0 /\ probed = Idle /\ ending = {}
  /\ lastApp = "" /\ switches = 0 /\ focus = << >> /\ windowStart = 0
  /\ summaries = << >> /\ history = << >>

Clock ==
  /\ now < MaxTime /\ now' = now + 1
  /\ UNCHANGED <<probed, ending, lastApp, switches, focus, windowStart, summaries, history>>

(* The key of an application: its bundle, or its name without one.         *)
KeyOf(app) == IF app.bundle = "" THEN app.name ELSE app.bundle

(* Sample *)
Probe ==
  /\ probed = Idle /\ Len(history) < MaxSamples
  /\ \E app \in Apps : probed' = KeyOf(app)   \* a probe that finds none changes nothing
  /\ UNCHANGED <<now, ending, lastApp, switches, focus, windowStart, summaries, history>>

Counted(key) ==
  [k \in DOMAIN focus \cup {key} |->
     (IF k \in DOMAIN focus THEN focus[k] ELSE 0) + (IF k = key THEN 1 ELSE 0)]

Sample ==
  /\ probed # Idle
  /\ switches' = IF lastApp # "" /\ lastApp # probed THEN switches + 1 ELSE switches
  /\ lastApp' = probed /\ focus' = Counted(probed)
  /\ history' = Append(history, probed)
  /\ probed' = Idle
  /\ UNCHANGED <<now, ending, windowStart, summaries>>

(* SnapshotAndReset: the end of the window is read before the idle time,   *)
(* a probe, and the lock: samples in between belong to the window too.     *)
WindowEnds ==
  /\ ending = {} /\ Len(summaries) < MaxWindows
  /\ ending' = {now}
  /\ UNCHANGED <<now, probed, lastApp, switches, focus, windowStart, summaries, history>>

SnapshotBug ==   \* the window starts without a last application
  /\ \E end \in ending :
       /\ summaries' = Append(summaries, [start |-> windowStart, end |-> end, focus |-> focus,
                                          switches |-> switches])
       /\ windowStart' = end
  /\ focus' = << >> /\ switches' = 0 /\ ending' = {}
  /\ lastApp' = ""
  /\ UNCHANGED <<now, probed, history>>

Snapshot ==
  /\ \E end \in ending :
       /\ summaries' = Append(summaries, [start |-> windowStart, end |-> end, focus |-> focus,
                                          switches |-> switches])
       /\ windowStart' = end
  /\ focus' = << >> /\ switches' = 0 /\ ending' = {}
  /\ UNCHANGED <<now, probed, lastApp, history>>

ActionNext == Clock \/ Probe \/ Sample \/ WindowEnds \/ Snapshot

ActionSpec == ActionInit /\ [][ActionNext]_actionVars

-----------------------------------------------------------------------------
FocusOf(s, key) == IF key \in DOMAIN s.focus THEN s.focus[key] ELSE 0

Running == [start |-> windowStart, end |-> now, focus |-> focus, switches |-> switches]

Windows == Append(summaries, Running)

(* The sum of the first n values of f. *)
Total(f, n) == LET sum[k \in Nat] == IF k = 0 THEN 0 ELSE sum[k - 1] + f[k] IN sum[n]

(* What windows count, window by window, and what is found in samples.     *)
Focused(windows, key) ==
  [w \in Nat |-> IF w \in DOMAIN windows THEN FocusOf(windows[w], key) ELSE 0]
Switched(windows) == [w \in Nat |-> IF w \in DOMAIN windows THEN windows[w].switches ELSE 0]
Sampled(samples, key) ==
  [i \in Nat |-> IF i \in DOMAIN samples /\ samples[i] = key THEN 1 ELSE 0]
Changed(samples) ==
  [i \in Nat |-> IF i \in DOMAIN samples /\ i > 1 /\ samples[i] # samples[i - 1] THEN 1 ELSE 0]

(* Whatever the two loops do to each other, every sample is counted in one *)
(* window, every change of application in one window, also one between the *)
(* last sample of a window and the first of the next, and the windows      *)
(* leave no time out (actions.go:57-71, 82-100).                           *)
WindowsAreExact ==
  /\ \A key \in {history[i] : i \in DOMAIN history} :
       Total(Focused(Windows, key), Len(Windows)) = Total(Sampled(history, key), Len(history))
  /\ Total(Switched(Windows), Len(Windows)) = Total(Changed(history), Len(history))
  /\ \A w \in 2 .. Len(Windows) : Windows[w].start = Windows[w - 1].end
=============================================================================
