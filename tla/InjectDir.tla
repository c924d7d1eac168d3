----------------------------- MODULE InjectDir -----------------------------
(* The drop directory between the MCP gateway or the Cursor hooks and the  *)
(* agent.  Writers (internal/mcp/events, scripts/cursor-governance) write  *)
(* a temporary file and rename it; the agent (internal/agent/inject.go)    *)
(* lists the directory every 500 ms, and for each *.json file enqueues its *)
(* event and removes it.  The hooks keep one more file there: the active   *)
(* turn (internal/mcp/turnctx), which the gateway is to read.              *)
EXTENDS Integers, FiniteSetsExt

CONSTANTS
  Events,       \* the event files written: each has a name of its own
  Unsupported,  \* those whose type or payload the agent does not take
  Turn,         \* the name of the active turn's file, .active-turn.json
  MaxTurns,     \* bound: turns written
  MaxCrashes,   \* bound: agents or writers that end half way
  MaxFailures   \* bound: removals that fail

ASSUME InjectAssumption ==
  /\ Unsupported \subseteq Events /\ Turn \notin Events
  /\ {MaxTurns, MaxCrashes, MaxFailures} \subseteq Nat

VARIABLES
  written,      \* writers: "no", "tmp", "done", or "gone" (ended half way)
  dir,          \* the *.json files in the directory
  turn,         \* the newest turn written; 0: none
  turnFile,     \* the turn in its file; 0: no file
  pc,           \* the agent: "down", "wait", "drain", "read", "enqueued"
  entries,      \* drainInjectDir: the entries of ReadDir still to be handled
  current,      \* the entry being handled
  enqueued,     \* how often each event was put in the agent's queue
  crashes, failures   \* counters of the bounds

agent == <<pc, entries, current>>
injectVars == <<written, dir, turn, turnFile, agent, enqueued, crashes, failures>>

Files == Events \cup {Turn}
Nothing == {}

InjectInit ==
  /\ written = [e \in Events |-> "no"] /\ dir = {}
  /\ turn = 0 /\ turnFile = 0
  /\ pc = "down" /\ entries = {} /\ current = Nothing
  /\ enqueued = [e \in Events |-> 0]
  /\ crashes = 0 /\ failures = 0

-----------------------------------------------------------------------------
(* WriteInject, writeHostEnvelope, write_envelope: a temporary file, whose *)
(* name does not end in .json, then a rename.                              *)
WriteTmp(e) ==
  /\ written[e] = "no"
  /\ written' = [written EXCEPT ![e] = "tmp"]
  /\ UNCHANGED <<dir, turn, turnFile, agent, enqueued, crashes, failures>>

Rename(e) ==
  /\ written[e] = "tmp"
  /\ written' = [written EXCEPT ![e] = "done"] /\ dir' = dir \cup {e}
  /\ UNCHANGED <<turn, turnFile, agent, enqueued, crashes, failures>>

WriterEnds(e) ==
  /\ written[e] = "tmp" /\ crashes < MaxCrashes
  /\ written' = [written EXCEPT ![e] = "gone"] /\ crashes' = crashes + 1
  /\ UNCHANGED <<dir, turn, turnFile, agent, enqueued, failures>>

(* turnctx.Write and write_active_turn replace the file by a rename too. *)
WriteTurn ==
  /\ turn < MaxTurns
  /\ turn' = turn + 1 /\ turnFile' = turn + 1 /\ dir' = dir \cup {Turn}
  /\ UNCHANGED <<written, agent, enqueued, crashes, failures>>

-----------------------------------------------------------------------------
(* drainInjectDir: at start and at every tick. *)
Start ==
  /\ pc = "down"
  /\ pc' = "wait"
  /\ UNCHANGED <<written, dir, turn, turnFile, entries, current, enqueued, crashes, failures>>

ReadDir ==
  /\ pc = "wait"
  /\ pc' = "drain" /\ entries' = dir
  /\ UNCHANGED <<written, dir, turn, turnFile, current, enqueued, crashes, failures>>

ReadFileBug ==   \* takes the file away before its event is queued
  /\ pc = "drain"
  /\ \E f \in entries :
       /\ entries' = entries \ {f} /\ dir' = dir \ {f}
       /\ IF f \in dir THEN pc' = "read" /\ current' = {f}
                       ELSE UNCHANGED <<pc, current>>
  /\ UNCHANGED <<written, turn, turnFile, enqueued, crashes, failures>>

(* A file that is not there any more is skipped. *)
ReadFile ==
  /\ pc = "drain"
  /\ \E f \in entries :
       /\ entries' = entries \ {f}
       /\ IF f \in dir THEN pc' = "read" /\ current' = {f}
                       ELSE UNCHANGED <<pc, current>>
  /\ UNCHANGED <<written, dir, turn, turnFile, enqueued, crashes, failures>>

DrainEndsBug ==   \* drains at start only
  /\ pc = "drain" /\ entries = {}
  /\ pc' = "watched"
  /\ UNCHANGED <<written, dir, turn, turnFile, entries, current, enqueued, crashes, failures>>

DrainEnds ==
  /\ pc = "drain" /\ entries = {}
  /\ pc' = "wait"
  /\ UNCHANGED <<written, dir, turn, turnFile, entries, current, enqueued, crashes, failures>>

(* What does not parse as an event of a known type is removed unqueued; so *)
(* is the active turn, which has neither type nor payload.                 *)
Deliverable(f) == f \in Events \ Unsupported

Enqueue ==
  /\ pc = "read"
  /\ pc' = "enqueued"
  /\ enqueued' = [e \in Events |->
                    IF current = {e} /\ Deliverable(e) THEN enqueued[e] + 1 ELSE enqueued[e]]
  /\ UNCHANGED <<written, dir, turn, turnFile, entries, current, crashes, failures>>

(* os.Remove by name, whatever the file is by now; an error is ignored. *)
RemoveFile ==
  /\ pc = "enqueued"
  /\ \/ /\ dir' = dir \ current
        /\ turnFile' = IF Turn \in current THEN 0 ELSE turnFile
        /\ UNCHANGED failures
     \/ /\ failures < MaxFailures /\ failures' = failures + 1
        /\ UNCHANGED <<dir, turnFile>>
  /\ pc' = "drain" /\ current' = Nothing
  /\ UNCHANGED <<written, turn, entries, enqueued, crashes>>

AgentEnds ==
  /\ pc # "down" /\ crashes < MaxCrashes
  /\ crashes' = crashes + 1
  /\ pc' = "down" /\ entries' = {} /\ current' = Nothing
  /\ UNCHANGED <<written, dir, turn, turnFile, enqueued, failures>>

Agent == ReadDir \/ ReadFile \/ DrainEnds \/ Enqueue \/ RemoveFile

InjectNext ==
  \/ \E e \in Events : WriteTmp(e) \/ Rename(e) \/ WriterEnds(e)
  \/ WriteTurn
  \/ Start \/ AgentEnds
  \/ Agent

InjectSpec == InjectInit /\ [][InjectNext]_injectVars

(* The ticker keeps the agent draining; nothing makes it start or end. *)
InjectFairSpec == InjectSpec /\ WF_injectVars(Agent)

-----------------------------------------------------------------------------
(* The types of the state; the agent has an entry in hand while it handles *)
(* one, and only then.                                                     *)
InjectTypeOK ==
  /\ written \in [Events -> {"no", "tmp", "done", "gone"}]
  /\ dir \subseteq Files /\ entries \subseteq Files
  /\ turn \in 0 .. MaxTurns /\ turnFile \in 0 .. turn
  /\ turnFile # 0 <=> Turn \in dir
  /\ pc \in {"down", "wait", "drain", "read", "enqueued"}
  /\ current \in {{f} : f \in Files} \cup {Nothing}
  /\ current # Nothing <=> pc \in {"read", "enqueued"}
  /\ enqueued \in [Events -> Nat]
  /\ crashes \in 0 .. MaxCrashes /\ failures \in 0 .. MaxFailures

(* An event whose file was renamed into place is never lost: it is still   *)
(* in the directory until it is in the queue, wherever the agent ends      *)
(* (inject.go enqueues before it removes).                                 *)
NeverLost ==
  \A e \in Events \ Unsupported : written[e] = "done" => e \in dir \/ enqueued[e] > 0

(* A running agent queues every event that is dropped into the directory,  *)
(* whatever else lies there and however removals fail.                     *)
Delivered ==
  \A e \in Events \ Unsupported :
    (written[e] = "done" /\ pc # "down") ~> (enqueued[e] > 0 \/ pc = "down")
=============================================================================
