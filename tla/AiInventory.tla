---------------------------- MODULE AiInventory ----------------------------
(* The inventory of known AI software at run time (internal/collect/apps:  *)
(* monitor.go, engine.go, runtime_feed.go, extension_capabilities.go) and  *)
(* its callers in the agent: the ticker, and the goroutine that polls when *)
(* the feed of process events wakes it.  The two polls share the engine.   *)
EXTENDS RuntimeInventory

CONSTANTS
  Hosts,        \* the states the host can be in
  Reading,      \* Reading[h]: what there is to read of h
  Near,         \* Near[h]: the states h can change to
  FeedCap,      \* make(chan RuntimeEvent, 256)
  MaxEvents     \* bound: changes of the host, and readings that fail

Ticker == "ticker"   \* a.loop(KnownAIInterval)
Worker == "worker"   \* range over aiFeed.Wakes()
Pollers == {Ticker, Worker}
Parts == {"bundles", "cli", "docker"}   \* the discoverers of the composite

ASSUME AiInventoryAssumption ==
  /\ Near \in [Hosts -> SUBSET Hosts] /\ FeedCap \in Nat \ {0} /\ MaxEvents \in Nat
  /\ \A h \in Hosts :
       LET r == Reading[h] IN
       /\ r.apps \in Seq(Range(r.apps)) /\ r.procs \in Seq(Range(r.procs))
       /\ \A app \in Range(r.apps) : app.path # <<>>

VARIABLES
  host, now,                \* the host, and its reading
  deserved,                 \* the inventories a pass over it can give
  configs,                  \* the MCP configurations there have been, in their order
  notices, feed, wakes, interesting,   \* changes the process monitor has not yet passed on;
                            \* the feed's two channels and its table of processes
  pc, rows,                 \* each poll: its place, its rows,
  listed, tools,            \* the times of the MCP configurations, and what they declare, then
                            \* the tools (before: the containers, to be remembered)
  changes,                  \* each poll: what is left to enqueue
  installs, containers,     \* Engine.installs; the package's dockerPortsByPath
  toolsKey, toolsCache,     \* Engine.mcpToolsKey and mcpToolsCache, without a lock
  seen,                     \* the monitor's table (ready says no more than that it is not the first)
  ctxDone, crashed,         \* crashed: the runtime found two goroutines in one map
  told,                     \* what the agent has told of each id last
  steady,                   \* each poll: the ids there all the time, and read without failure
  unheard,                  \* a start of a candidate that no processes of the worker's were read since
  crossed,                  \* a poll compared while another had changes to enqueue
  partial, raced, torn,     \* a server's tools were missed; polls were in the tools cache at
                            \* once; a configuration changed between its time and its content
  events                    \* counter of the bound

observed == <<notices, feed, wakes, interesting>>
engine == <<installs, containers, toolsKey, toolsCache>>
poll == <<pc, rows, listed, tools, changes>>
ghosts == <<told, steady, unheard, crossed, partial, raced, torn>>
table == <<host, now, deserved, configs>>
vars == <<table, observed, engine, seen, poll, ghosts, ctxDone, crashed, events>>

\* One pass over a host that stays as it is, nothing failing.
Passes(h) ==
  LET run(r, index) ==
        WithClients(WithListeners(WithExtensionHosts(WithProcesses(r, h.procs, index, h), h.procs),
                                  h.socks, h.containers, h.answer, h), h.conns)
      done(r) == {Current(WithCapabilities(r, h.mcp, ToolsOf(h.mcp), l)) : l \in LocalChoices(r)}
  IN UNION {UNION {done(run(OnDisk(h, Parts, pick), index)) :
                      index \in Indexes(OnDisk(h, Parts, pick))} :
              pick \in HostChoices(Installed(h, Parts))}

Nothing == [f \in McpFiles |-> None]   \* no configurations; their key is ""

Ids(inventories) == UNION {{a.id : a \in inventory} : inventory \in inventories}

Init ==
  /\ host \in Hosts /\ now = Reading[host] /\ deserved = Passes(now) /\ configs = <<now.mcp>>
  /\ notices = {} /\ feed = <<>> /\ wakes = 0 /\ interesting = {}
  /\ pc = [w \in Pollers |-> "idle"] /\ rows = [w \in Pollers |-> {}]
  /\ listed = [w \in Pollers |-> <<>>] /\ tools = [w \in Pollers |-> <<>>]
  /\ changes = [w \in Pollers |-> {}]
  /\ installs = [byName |-> <<>>, byPath |-> <<>>] /\ containers = <<>>
  /\ toolsKey = Nothing /\ toolsCache = <<>>
  /\ seen = {} /\ ctxDone = FALSE /\ crashed = FALSE
  /\ told = {} /\ steady = [w \in Pollers |-> {}] /\ unheard = FALSE /\ crossed = FALSE
  /\ partial = FALSE /\ raced = FALSE /\ torn = FALSE /\ events = 0

-----------------------------------------------------------------------------
(* The host changes; the process monitor will pass on who came and went.   *)
HostChange ==
  /\ events < MaxEvents /\ ~ctxDone /\ events' = events + 1
  /\ host' \in Near[host]
  /\ now' = Reading[host'] /\ deserved' = Passes(now')
  /\ configs' = IF now'.mcp = now.mcp THEN configs ELSE Append(configs, now'.mcp)
  /\ LET old == Range(now.procs)
         new == Range(now'.procs)
         note(kind, p) == [kind |-> kind, pid |-> p.pid, exe |-> p.exe, comm |-> p.comm]
     IN notices' = notices \cup {note("exec", p) : p \in new \ old}
                           \cup {note("exit", p) : p \in old \ new}
  /\ steady' = [w \in Pollers |-> steady[w] \cap Ids(deserved')]
  /\ UNCHANGED <<feed, wakes, interesting, engine, seen, poll, told, unheard, crossed, partial,
                 raced, torn, ctxDone, crashed>>

Cancel ==
  /\ ~ctxDone
  /\ ctxDone' = TRUE
  /\ UNCHANGED <<table, observed, engine, seen, poll, ghosts, crashed, events>>

-----------------------------------------------------------------------------
(* RuntimeFeed                                                             *)
(* The name of a process is always a bare one, and then replaces its path: *)
(* the bundle around it, which is looked up before, has no say.            *)
LooksLikeCandidate(ev) == ProductOf[ev.comm] # None

(* ObserveChange never blocks: an event that finds the queue full is lost. *)
ObserveChange(ev) ==
  /\ ev \in notices
  /\ notices' = notices \ {ev}
  /\ feed' = IF Len(feed) < FeedCap THEN Append(feed, ev) ELSE feed
  /\ unheard' = (unheard \/ (Len(feed) < FeedCap /\ ev.kind = "exec" /\ LooksLikeCandidate(ev)))
  /\ UNCHANGED <<table, wakes, interesting, engine, seen, poll, told, steady, crossed, partial,
                 raced, torn, ctxDone, crashed, events>>

Signal == 1   \* signalWake: a full channel has a wake to come

(* Run and shouldWake: the exit of a process that was of interest wakes    *)
(* the inventory as the start of a candidate does.  (NoteExit only tidies  *)
(* a table that nothing reads.)                                            *)
RunFeed ==
  /\ feed # <<>> /\ ~ctxDone
  /\ LET ev == Head(feed)
         candidate == LooksLikeCandidate(ev)
         wake == candidate \/ (ev.kind = "exit" /\ ev.pid \in interesting) IN
     /\ feed' = Tail(feed)
     /\ interesting' = CASE ev.kind = "exit" -> interesting \ {ev.pid}
                         [] ev.kind # "exit" /\ candidate -> interesting \cup {ev.pid}
                         [] OTHER -> interesting
     /\ wakes' = IF wake THEN Signal ELSE wakes
  /\ UNCHANGED <<table, notices, engine, seen, poll, ghosts, ctxDone, crashed, events>>

-----------------------------------------------------------------------------
(* Inventory, one reading after another                                    *)
Goto(w, place) == pc' = [pc EXCEPT ![w] = place]
Begin(w) == Goto(w, "discover") /\ steady' = [steady EXCEPT ![w] = Ids(deserved)]

Tick ==
  /\ pc[Ticker] = "idle" /\ ~ctxDone /\ Begin(Ticker)
  /\ UNCHANGED <<table, observed, engine, seen, rows, listed, tools, changes, told, unheard,
                 crossed, partial, raced, torn, ctxDone, crashed, events>>

TakeWake ==
  /\ pc[Worker] = "idle" /\ ~ctxDone /\ wakes = 1 /\ wakes' = 0 /\ Begin(Worker)
  /\ UNCHANGED <<table, notices, feed, interesting, engine, seen, rows, listed, tools, changes,
                 told, unheard, crossed, partial, raced, torn, ctxDone, crashed, events>>

IdsOf(es) == {IdOf(e) : e \in {x \in es : x.product # None}}
Fails == events < MaxEvents /\ events' = events + 1
Others(w) == Pollers \ {w}

(* The rows of the discoverers, each of which reports a failure as an      *)
(* empty list; then extensions and skills, and the first rebuild.          *)
Discover(w) ==
  /\ pc[w] = "discover"
  /\ \E parts \in {Parts} \cup {Parts \ {p} : p \in Parts} :
       /\ IF parts = Parts THEN UNCHANGED events ELSE Fails
       /\ \E pick \in HostChoices(Installed(now, parts)) :
            LET mine == OnDisk(now, parts, pick)
                lost == IF parts = Parts THEN {}
                        ELSE (UNION {IdsOf(OnDisk(now, Parts, k)) :
                                       k \in HostChoices(Installed(now, Parts))}) \ IdsOf(mine)
            IN /\ rows' = [rows EXCEPT ![w] = mine]
               /\ installs' \in Indexes(mine)
               /\ steady' = [steady EXCEPT ![w] = @ \ lost]
       /\ LET seenBoxes == IF "docker" \in parts THEN now.containers ELSE <<>>
          IN /\ listed' = [listed EXCEPT ![w] = seenBoxes]
             /\ Goto(w, IF seenBoxes = <<>> THEN "processes" ELSE "remember")
  /\ UNCHANGED <<table, observed, containers, toolsKey, toolsCache, seen, tools, changes, told,
                 unheard, crossed, partial, raced, torn, ctxDone, crashed>>

(* rememberDockerPorts and dockerContainerForPath use a map of the package *)
(* without a lock; the runtime may notice, and ends the program.           *)
InDockerMap(v) ==
  \/ pc[v] = "remember"
  \/ pc[v] = "listeners" /\ \E e \in rows[v] : e.app.part = "docker"

Remember(w) ==
  /\ pc[w] = "remember" /\ Goto(w, "processes")
  /\ containers' = listed[w] @@ containers
  /\ crashed' \in IF \E v \in Others(w) : InDockerMap(v) THEN BOOLEAN ELSE {FALSE}
  /\ listed' = [listed EXCEPT ![w] = <<>>]
  /\ UNCHANGED <<table, observed, installs, toolsKey, toolsCache, seen, rows, tools, changes,
                 ghosts, ctxDone, events>>

ProcessesBug(w) ==   \* a failed listing ends with an empty inventory
  /\ pc[w] = "processes" /\ Goto(w, "listeners")
  /\ unheard' = (unheard /\ w # Worker)
  /\ \/ /\ rows' = [rows EXCEPT ![w] =
                      WithExtensionHosts(WithProcesses(@, now.procs, installs, now), now.procs)]
        /\ UNCHANGED <<events, steady>>
     \/ /\ Fails
        /\ rows' = [rows EXCEPT ![w] = {}]
        /\ steady' = [steady EXCEPT ![w] = @ \cap IdsOf(rows[w])]
  /\ UNCHANGED <<table, observed, engine, seen, listed, tools, changes, told, crossed, partial,
                 raced, torn, ctxDone, crashed>>

(* Processes: a failed listing is an empty one.                            *)
Processes(w) ==
  /\ pc[w] = "processes" /\ Goto(w, "listeners")
  /\ unheard' = (unheard /\ w # Worker)
  /\ \/ /\ rows' = [rows EXCEPT ![w] =
                      WithExtensionHosts(WithProcesses(@, now.procs, installs, now), now.procs)]
        /\ UNCHANGED <<events, steady>>
     \/ /\ Fails
        /\ rows' = [rows EXCEPT ![w] = WithExtensionHosts(@, <<>>)]
        /\ steady' = [steady EXCEPT ![w] = @ \cap IdsOf(rows[w])]
  /\ UNCHANGED <<table, observed, engine, seen, listed, tools, changes, told, crossed, partial,
                 raced, torn, ctxDone, crashed>>

Listeners(w) ==
  /\ pc[w] = "listeners" /\ Goto(w, "clients")
  /\ \/ /\ rows' = [rows EXCEPT ![w] = WithListeners(@, now.socks, containers, now.answer, now)]
        /\ UNCHANGED events
     \/ /\ Fails
        /\ \E socks \in {{}, now.socks} :
             rows' = [rows EXCEPT ![w] = WithListeners(@, socks, containers, None, now)]
  /\ crashed' \in IF InDockerMap(w) /\ \E v \in Others(w) : pc[v] = "remember"
                  THEN BOOLEAN ELSE {FALSE}
  /\ UNCHANGED <<table, observed, engine, seen, listed, tools, changes, ghosts, ctxDone>>

Clients(w) ==
  /\ pc[w] = "clients" /\ Goto(w, "stat 1")
  /\ listed' = [listed EXCEPT ![w] = Nothing]
  /\ tools' = [tools EXCEPT ![w] = [f \in McpFiles |-> <<>>]]
  /\ \/ /\ rows' = [rows EXCEPT ![w] = WithClients(@, now.conns)] /\ UNCHANGED events
     \/ /\ now.conns # {} /\ Fails /\ UNCHANGED rows
  /\ UNCHANGED <<table, observed, engine, seen, changes, ghosts, ctxDone, crashed>>

-----------------------------------------------------------------------------
(* attachExtensionCapabilities: discoverAllMCPToolsAtHome takes, for one   *)
(* editor after the other, the times of its configurations, file by file,  *)
(* then what they declare; they may be written in between.                 *)
StatAt == <<"stat 1", "stat 2", "stat 3", "stat 4">>
ReadAt == <<"read 1", "read 2", "read 3", "read 4">>
AfterStat == <<"stat 2", "read 1", "stat 4", "read 3">>
AfterRead == <<"read 2", "stat 3", "read 4", "tools">>

StatConfig(w, f) ==
  /\ pc[w] = StatAt[f] /\ Goto(w, AfterStat[f])
  /\ listed' = [listed EXCEPT ![w][f] = TimeOf(now.mcp, f)]
  /\ UNCHANGED <<table, observed, engine, seen, rows, tools, changes, ghosts, ctxDone, crashed,
                 events>>

(* Only a file that was there before is read.                              *)
ReadConfig(w, f) ==
  /\ pc[w] = ReadAt[f] /\ Goto(w, AfterRead[f])
  /\ IF listed[w][f] = None THEN UNCHANGED <<tools, torn>>
     ELSE /\ tools' = [tools EXCEPT ![w][f] = ServersOf(now.mcp, f)]
          /\ torn' = (torn \/ TimeOf(now.mcp, f) # listed[w][f])
  /\ UNCHANGED <<table, observed, engine, seen, rows, listed, changes, told, steady, unheard,
                 crossed, partial, raced, ctxDone, crashed, events>>

(* Then every server is asked, each for at most twenty seconds; one that   *)
(* does not answer is left out.                                            *)
ListTools(w) ==
  /\ pc[w] = "tools" /\ Goto(w, IF listed[w] = Nothing THEN "attach" ELSE "keep")
  /\ LET all == McpTools(tools[w]) IN
     \/ /\ tools' = [tools EXCEPT ![w] = all] /\ UNCHANGED <<events, partial>>
     \/ /\ Fails /\ partial' = TRUE
        /\ \E silent \in SUBSET DOMAIN all \ {{}} :
             tools' = [tools EXCEPT ![w] = [name \in DOMAIN all \ silent |-> all[name]]]
  /\ UNCHANGED <<table, observed, engine, seen, rows, listed, changes, told, steady, unheard,
                 crossed, raced, torn, ctxDone, crashed>>

InTools(v) == pc[v] \in {"keep", "use", "key", "store"}
Races(w) == raced' = (raced \/ \E v \in Others(w) : InTools(v))

KeepBug(w) ==   \* whatever was kept is used
  /\ pc[w] = "keep"
  /\ LET kept == DOMAIN toolsCache # {} IN
     Goto(w, CASE kept -> "use"
               [] ~kept /\ DOMAIN tools[w] # {} -> "key"
               [] OTHER -> "attach")
  /\ Races(w)
  /\ UNCHANGED <<table, observed, engine, seen, rows, listed, tools, changes, told, steady, unheard,
                 crossed, partial, torn, ctxDone, crashed, events>>

(* What was kept for the same files, as of their times, is used instead.   *)
Keep(w) ==
  /\ pc[w] = "keep"
  /\ LET kept == listed[w] = toolsKey /\ DOMAIN toolsCache # {} IN
     Goto(w, CASE kept -> "use"
               [] ~kept /\ DOMAIN tools[w] # {} -> "key"
               [] OTHER -> "attach")
  /\ Races(w)
  /\ UNCHANGED <<table, observed, engine, seen, rows, listed, tools, changes, told, steady, unheard,
                 crossed, partial, torn, ctxDone, crashed, events>>

UseTools(w) ==
  /\ pc[w] = "use"
  /\ tools' = [tools EXCEPT ![w] = toolsCache]
  /\ Races(w) /\ Goto(w, "attach")
  /\ UNCHANGED <<table, observed, engine, seen, rows, listed, changes, told, steady, unheard,
                 crossed, partial, torn, ctxDone, crashed, events>>

StoreKey(w) ==
  /\ pc[w] = "key"
  /\ toolsKey' = listed[w]
  /\ Races(w) /\ Goto(w, "store")
  /\ UNCHANGED <<table, observed, installs, containers, toolsCache, seen, rows, listed, tools,
                 changes, told, steady, unheard, crossed, partial, torn, ctxDone, crashed, events>>

StoreTools(w) ==
  /\ pc[w] = "store"
  /\ toolsCache' = tools[w]
  /\ Races(w) /\ Goto(w, "attach")
  /\ UNCHANGED <<table, observed, installs, containers, toolsKey, seen, rows, listed, tools,
                 changes, told, steady, unheard, crossed, partial, torn, ctxDone, crashed, events>>

(* The servers are read from the files again; the second rebuild; rows of  *)
(* no product are dropped.                                                 *)
Attach(w) ==
  /\ pc[w] = "attach" /\ Goto(w, "compare")
  /\ \E local \in LocalChoices(rows[w]) :
       LET done == {e \in WithCapabilities(rows[w], now.mcp, tools[w], local) : e.product # None}
       IN rows' = [rows EXCEPT ![w] = done] /\ installs' \in Indexes(done)
  /\ UNCHANGED <<table, observed, containers, toolsKey, toolsCache, seen, listed, tools, changes,
                 ghosts, ctxDone, crashed, events>>

-----------------------------------------------------------------------------
(* The rest of Monitor.Poll, under its lock.  A change tells the payload   *)
(* of an id, or nothing: that it was removed.                              *)
News(es) ==
  LET current == Current(es)
      gone == {a.id : a \in seen} \ {a.id : a \in current}
  IN {[id |-> a.id, now |-> <<a.payload>>] : a \in current \ seen}
     \cup {[id |-> id, now |-> <<>>] : id \in gone}

CompareBug(w) ==   \* the table is replaced before it is compared
  /\ pc[w] = "compare" /\ Goto(w, "enqueue")
  /\ seen' = Current(rows[w])
  /\ rows' = [rows EXCEPT ![w] = {}] /\ listed' = [listed EXCEPT ![w] = <<>>]
  /\ tools' = [tools EXCEPT ![w] = <<>>]
  /\ UNCHANGED <<table, observed, engine, changes, told, steady, unheard, crossed, partial, raced,
                 torn, ctxDone, crashed, events>>

(* The first poll finds the table empty and tells everything.              *)
Compare(w) ==
  /\ pc[w] = "compare" /\ Goto(w, "enqueue")
  /\ changes' = [changes EXCEPT ![w] = News(rows[w])]
  /\ seen' = Current(rows[w])
  /\ crossed' = (crossed \/ \E v \in Others(w) : changes[v] # {})
  /\ rows' = [rows EXCEPT ![w] = {}] /\ listed' = [listed EXCEPT ![w] = <<>>]
  /\ tools' = [tools EXCEPT ![w] = <<>>]
  /\ UNCHANGED <<table, observed, engine, told, steady, unheard, partial, raced, torn, ctxDone,
                 crashed, events>>

EnqueueBug(w) ==   \* the wakes that came during the poll are taken as answered
  /\ pc[w] = "enqueue"
  /\ IF changes[w] = {}
     THEN /\ Goto(w, "idle") /\ steady' = [steady EXCEPT ![w] = {}]
          /\ wakes' = IF w = Worker THEN 0 ELSE wakes
          /\ UNCHANGED <<changes, told>>
     ELSE \E a \in changes[w] :
            /\ changes' = [changes EXCEPT ![w] = @ \ {a}]
            /\ told' = {b \in told : b.id # a.id}
                         \cup {[id |-> a.id, payload |-> p] : p \in Range(a.now)}
            /\ UNCHANGED <<pc, steady, wakes>>
  /\ UNCHANGED <<table, notices, feed, interesting, engine, seen, rows, listed, tools, unheard,
                 crossed, partial, raced, torn, ctxDone, crashed, events>>

(* The caller enqueues the changes, in the order of a map.                 *)
Enqueue(w) ==
  /\ pc[w] = "enqueue"
  /\ IF changes[w] = {}
     THEN /\ Goto(w, "idle") /\ steady' = [steady EXCEPT ![w] = {}]
          /\ UNCHANGED <<changes, told>>
     ELSE \E a \in changes[w] :
            /\ changes' = [changes EXCEPT ![w] = @ \ {a}]
            /\ told' = {b \in told : b.id # a.id}
                         \cup {[id |-> a.id, payload |-> p] : p \in Range(a.now)}
            /\ UNCHANGED <<pc, steady>>
  /\ UNCHANGED <<table, observed, engine, seen, rows, listed, tools, unheard, crossed, partial,
                 raced, torn, ctxDone, crashed, events>>

Observe == \E ev \in notices : ObserveChange(ev)
Poll(w) ==
  \/ Discover(w) \/ Remember(w) \/ Processes(w) \/ Listeners(w) \/ Clients(w)
  \/ \E f \in McpFiles : StatConfig(w, f) \/ ReadConfig(w, f)
  \/ ListTools(w) \/ Keep(w) \/ UseTools(w) \/ StoreKey(w) \/ StoreTools(w) \/ Attach(w) \/ Compare(w) \/ Enqueue(w)

Next ==
  /\ ~crashed
  /\ \/ HostChange \/ Cancel \/ Observe \/ RunFeed \/ Tick \/ TakeWake
     \/ \E w \in Pollers : Poll(w)

Spec == Init /\ [][Next]_vars

(* The goroutines run, the ticker ticks, and a poll that begins ends: its  *)
(* steps are enabled one after the other, the slow ones have timeouts.     *)
(* Nothing makes the host change or a reading fail.                        *)
Fairness ==
  /\ WF_vars(~crashed /\ Observe) /\ WF_vars(~crashed /\ RunFeed)
  /\ WF_vars(~crashed /\ Tick) /\ WF_vars(~crashed /\ TakeWake)
  /\ \A w \in Pollers : []<>(crashed \/ pc[w] = "idle")

FairSpec == Spec /\ Fairness

-----------------------------------------------------------------------------
(* Hosts on which what is found does not depend on when each reading is    *)
(* made.  Extensions have folders of their own.  ResolveBundle reads a     *)
(* bundle as what lies there; one that the discovery does not list though  *)
(* it can be read is outside of the folders it lists, on every host.  And  *)
(* a bundle that it does not list either can be read, and runs under its   *)
(* path and not a bare name, or is of no product.                          *)
Discoverable(path) ==
  \E h \in Hosts :
    LET r == Reading[h] IN
    \/ \E app \in Range(r.apps) : path \in KeysOf(app)
    \/ \E e \in Editors : \E app \in r.extensions[e] : path = app.path

HostIsPlain(r) ==
  /\ \A e \in Editors : \A x \in r.extensions[e], app \in Range(r.apps) : x.path \notin KeysOf(app)
  /\ \A b \in DOMAIN r.bundleAt : r.bundleAt[b].path = b
  /\ \A pick \in HostChoices(Installed(r, Parts)) :
       LET all == OnDisk(r, Parts, pick) IN
       /\ \A b \in DOMAIN r.bundleAt : At(all, b) = {} => ~Discoverable(b)
       /\ \A index \in Indexes(all), p \in Range(r.procs) :
            LET exe == Executable(p, index, r.links)
                b == EnclosingAppPath(exe)
            IN b # <<>> /\ At(all, b) = {} =>
                 IF b \in DOMAIN r.bundleAt THEN Len(p.exe) > 1 ELSE ProductOf[Last(exe)] = None

HostsArePlain == \A h \in Hosts : HostIsPlain(Reading[h])

(* A removal is never told of an app that was there during the whole poll, *)
(* unless a reading that would have shown it failed: not by an older poll  *)
(* that compares last, nor by the failure of another reading, nor because  *)
(* rows share a path (monitor.go:80-95, engine.go:166-197).                *)
RemovalsAreExplained ==
  \A w \in Pollers : pc[w] = "enqueue" =>
    \A a \in changes[w] : a.now = <<>> => a.id \notin steady[w]

(* What a poll found under these times was declared by configurations that *)
(* there have been: that of each file by one no older than the time of the *)
(* file, and but for a change between the two by the very one.             *)
FoundAt(times, found) ==
  \E read \in [McpFiles -> DOMAIN configs] :
    /\ \A f \in McpFiles : \E s \in DOMAIN configs :
         s <= read[f] /\ times[f] = TimeOf(configs[s], f) /\ (torn \/ s = read[f])
    /\ found = McpTools([f \in McpFiles |->
                  IF times[f] = None THEN <<>> ELSE ServersOf(configs[read[f]], f)])

(* The tools a poll reports, its own or those that were kept, are never of *)
(* older configurations than the times it took, and are of the same unless *)
(* one was written while a poll read it; as long as every server answered  *)
(* and no two polls were in the unlocked cache at a time                   *)
(* (extension_capabilities.go:109-115, mcp_discovery.go:36-82).            *)
ToolsFollowConfig ==
  \A w \in Pollers : pc[w] = "attach" =>
    partial \/ raced \/ FoundAt(listed[w], tools[w])

(* A start of a candidate, which is one by the name of the process alone,  *)
(* is followed by a listing of the processes by the worker once the feed   *)
(* could take it (runtime_feed.go:104-140).                                *)
StartReachesPoll == unheard ~> (~unheard \/ ctxDone \/ crashed)

(* Whatever the readings of the past missed, what the agent has told is in *)
(* the end an inventory that the host deserves; except when a poll has     *)
(* compared while another was still enqueueing, so that an older report    *)
(* may come last, and for MCP tools that were kept in part or for another  *)
(* configuration (monitor.go:38-96, extension_capabilities.go:110-115).    *)
InventoryConverges ==
  <>[](\/ ctxDone \/ crashed \/ crossed
       \/ toolsKey = McpKey(now.mcp) /\ toolsCache # ToolsOf(now.mcp)
       \/ told \in deserved)
============================================================================
