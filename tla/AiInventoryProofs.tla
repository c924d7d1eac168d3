------------------------- MODULE AiInventoryProofs -------------------------
(* The inventory of AI software, for any hosts and bounds: the tools of    *)
(* the MCP servers, whose files may be written while they are read and     *)
(* whose cache the two polls use without a lock; and the removals, from a  *)
(* discovery that misses what only a process shows to a comparison with    *)
(* the table another poll has written.                                     *)
EXTENDS AiInventory, FiniteSetTheorems, SequenceTheorems, WellFoundedInduction, TLAPS

(* Where a poll reads the configurations, and where it works on the cache. *)
ReadingPlaces ==
  {"stat 1", "stat 2", "read 1", "read 2", "stat 3", "stat 4", "read 3", "read 4", "tools"}
Busy == {"use", "key", "store"}

(* Where the time of each file was taken, and where the file was read.     *)
Timed ==
  <<ReadingPlaces \ {"stat 1"}, ReadingPlaces \ {"stat 1", "stat 2"},
    {"stat 4", "read 3", "read 4", "tools"}, {"read 3", "read 4", "tools"}>>
Done ==
  <<ReadingPlaces \ {"stat 1", "stat 2", "read 1"}, {"stat 3", "stat 4", "read 3", "read 4", "tools"},
    {"read 4", "tools"}, {"tools"}>>

LEMMA StatPlaces ==
  ASSUME NEW f \in McpFiles
  PROVE  /\ StatAt[f] \in ReadingPlaces /\ AfterStat[f] \in ReadingPlaces
         /\ \A g \in McpFiles : /\ AfterStat[f] \in Timed[g] => StatAt[f] \in Timed[g] \/ g = f
                                /\ AfterStat[f] \in Done[g] <=> StatAt[f] \in Done[g]
         /\ StatAt[f] \notin Done[f]
<1>1. f \in {1, 2, 3, 4} /\ McpFiles = {1, 2, 3, 4}
  BY DEF McpFiles
<1>2. CASE f = 1
  BY <1>1, <1>2 DEF StatAt, AfterStat, Timed, Done, ReadingPlaces
<1>3. CASE f = 2
  BY <1>1, <1>3 DEF StatAt, AfterStat, Timed, Done, ReadingPlaces
<1>4. CASE f = 3
  BY <1>1, <1>4 DEF StatAt, AfterStat, Timed, Done, ReadingPlaces
<1>5. CASE f = 4
  BY <1>1, <1>5 DEF StatAt, AfterStat, Timed, Done, ReadingPlaces
<1> QED
  BY <1>1, <1>2, <1>3, <1>4, <1>5

LEMMA ReadPlaces ==
  ASSUME NEW f \in McpFiles
  PROVE  /\ ReadAt[f] \in ReadingPlaces /\ AfterRead[f] \in ReadingPlaces
         /\ \A g \in McpFiles : /\ AfterRead[f] \in Timed[g] <=> ReadAt[f] \in Timed[g]
                                /\ AfterRead[f] \in Done[g] <=> ReadAt[f] \in Done[g] \/ g = f
         /\ ReadAt[f] \in Timed[f] /\ ReadAt[f] \notin Done[f]
<1>1. f \in {1, 2, 3, 4} /\ McpFiles = {1, 2, 3, 4}
  BY DEF McpFiles
<1>2. CASE f = 1
  BY <1>1, <1>2 DEF ReadAt, AfterRead, Timed, Done, ReadingPlaces
<1>3. CASE f = 2
  BY <1>1, <1>3 DEF ReadAt, AfterRead, Timed, Done, ReadingPlaces
<1>4. CASE f = 3
  BY <1>1, <1>4 DEF ReadAt, AfterRead, Timed, Done, ReadingPlaces
<1>5. CASE f = 4
  BY <1>1, <1>5 DEF ReadAt, AfterRead, Timed, Done, ReadingPlaces
<1> QED
  BY <1>1, <1>2, <1>3, <1>4, <1>5

LEMMA ReadingApart ==
  /\ \A f \in McpFiles : "tools" \in Timed[f] /\ "tools" \in Done[f]
  /\ ReadingPlaces \cap (Busy \cup {"keep", "attach"}) = {}
  /\ \A f \in McpFiles : "stat 1" \notin Timed[f] /\ "stat 1" \notin Done[f]
BY DEF McpFiles, Timed, Done, ReadingPlaces, Busy

(* What was read of one file, and of all of them, against the history of   *)
(* the configurations; "mixed" where a write came in between.              *)
Settled(history, mixed, f, time, servers) ==
  \E s, r \in DOMAIN history :
    /\ s <= r /\ time = TimeOf(history[s], f) /\ (mixed \/ s = r)
    /\ servers = IF time = None THEN <<>> ELSE ServersOf(history[r], f)

FoundIn(history, mixed, times, found) ==
  \E read \in [McpFiles -> DOMAIN history] :
    /\ \A f \in McpFiles : \E s \in DOMAIN history :
         s <= read[f] /\ times[f] = TimeOf(history[s], f) /\ (mixed \/ s = read[f])
    /\ found = McpTools([f \in McpFiles |->
                  IF times[f] = None THEN <<>> ELSE ServersOf(history[read[f]], f)])

LEMMA SettledIsFound ==
  ASSUME NEW history, NEW mixed, NEW times, NEW servers,
         servers = [f \in McpFiles |-> servers[f]],
         \A f \in McpFiles : Settled(history, mixed, f, times[f], servers[f])
  PROVE  FoundIn(history, mixed, times, McpTools(servers))
<1> DEFINE Of(f, r) ==
      /\ \E s \in DOMAIN history : s <= r /\ times[f] = TimeOf(history[s], f) /\ (mixed \/ s = r)
      /\ servers[f] = IF times[f] = None THEN <<>> ELSE ServersOf(history[r], f)
    read == [f \in McpFiles |-> CHOOSE r \in DOMAIN history : Of(f, r)]
<1>1. \A f \in McpFiles : \E r \in DOMAIN history : Of(f, r)
  BY DEF Settled
<1>2. \A f \in McpFiles : read[f] \in DOMAIN history /\ Of(f, read[f])
  BY <1>1
<1>3. read \in [McpFiles -> DOMAIN history]
  BY <1>2
<1> HIDE DEF read
<1>4. servers = [f \in McpFiles |-> IF times[f] = None THEN <<>> ELSE ServersOf(history[read[f]], f)]
  BY <1>2
<1> QED
  BY <1>2, <1>3, <1>4 DEF FoundIn

Extended(history, mixed, longer, mixedMore) ==
  /\ DOMAIN history \subseteq DOMAIN longer
  /\ \A s \in DOMAIN history : longer[s] = history[s]
  /\ mixed => mixedMore

LEMMA ReadStays ==
  ASSUME NEW history, NEW mixed, NEW longer, NEW mixedMore,
         Extended(history, mixed, longer, mixedMore)
  PROVE  /\ \A f \in McpFiles : \A time, servers :
              Settled(history, mixed, f, time, servers) => Settled(longer, mixedMore, f, time, servers)
         /\ \A times, found :
              FoundIn(history, mixed, times, found) => FoundIn(longer, mixedMore, times, found)
<1>1. \A f \in McpFiles : \A time, servers :
        Settled(history, mixed, f, time, servers) => Settled(longer, mixedMore, f, time, servers)
  BY DEF Settled, Extended
<1>2. ASSUME NEW times, NEW found, FoundIn(history, mixed, times, found)
      PROVE  FoundIn(longer, mixedMore, times, found)
  <2>1. PICK read \in [McpFiles -> DOMAIN history] :
          /\ \A f \in McpFiles : \E s \in DOMAIN history :
               s <= read[f] /\ times[f] = TimeOf(history[s], f) /\ (mixed \/ s = read[f])
          /\ found = McpTools([f \in McpFiles |->
                        IF times[f] = None THEN <<>> ELSE ServersOf(history[read[f]], f)])
    BY <1>2 DEF FoundIn
  <2>2. read \in [McpFiles -> DOMAIN longer] /\ \A f \in McpFiles : longer[read[f]] = history[read[f]]
    BY DEF Extended
  <2>3. \A f \in McpFiles : \E s \in DOMAIN longer :
          s <= read[f] /\ times[f] = TimeOf(longer[s], f) /\ (mixedMore \/ s = read[f])
    BY <2>1 DEF Extended
  <2>4. [f \in McpFiles |-> IF times[f] = None THEN <<>> ELSE ServersOf(history[read[f]], f)]
          = [f \in McpFiles |-> IF times[f] = None THEN <<>> ELSE ServersOf(longer[read[f]], f)]
    BY <2>2
  <2> QED
    BY <2>1, <2>2, <2>3, <2>4 DEF FoundIn
<1> QED
  BY <1>1, <1>2

(* What a poll at a place has read so far.                                 *)
ReadSoFar(history, mixed, place, times, servers) ==
  place \in ReadingPlaces =>
    /\ times = [f \in McpFiles |-> times[f]] /\ servers = [f \in McpFiles |-> servers[f]]
    /\ \A f \in McpFiles :
         /\ place \in Timed[f] => \E s \in DOMAIN history : times[f] = TimeOf(history[s], f)
         /\ place \notin Done[f] => servers[f] = <<>>
         /\ place \in Done[f] => Settled(history, mixed, f, times[f], servers[f])

LEMMA ReadSoFarStays ==
  ASSUME NEW history, NEW mixed, NEW longer, NEW mixedMore,
         Extended(history, mixed, longer, mixedMore),
         NEW place, NEW times, NEW servers, ReadSoFar(history, mixed, place, times, servers)
  PROVE  ReadSoFar(longer, mixedMore, place, times, servers)
<1>1. \A f \in McpFiles : \A s \in DOMAIN history : s \in DOMAIN longer /\ longer[s] = history[s]
  BY DEF Extended
<1>2. \A f \in McpFiles : Settled(history, mixed, f, times[f], servers[f])
                            => Settled(longer, mixedMore, f, times[f], servers[f])
  BY ReadStays
<1> QED
  BY <1>1, <1>2 DEF ReadSoFar

-----------------------------------------------------------------------------
Shapes ==
  /\ pc = [w \in Pollers |-> pc[w]] /\ listed = [w \in Pollers |-> listed[w]]
  /\ tools = [w \in Pollers |-> tools[w]]
Configs ==
  /\ host \in Hosts /\ now = Reading[host]
  /\ configs \in Seq({Reading[h].mcp : h \in Hosts}) /\ configs # <<>>
  /\ now.mcp = configs[Len(configs)]
Progress == \A w \in Pollers : ReadSoFar(configs, torn, pc[w], listed[w], tools[w])

(* What a poll of two that are never in the cache at once can rely on: it  *)
(* is alone, what it has was found under its times, and so was what is     *)
(* kept under the key, but between the two writes of the cache.            *)
Alone == \A w, v \in Pollers : w # v /\ pc[w] \in Busy => pc[v] \notin Busy
Listing ==
  \A w \in Pollers : pc[w] \in Busy \cup {"keep", "attach"} =>
    FoundIn(configs, torn, listed[w], tools[w])
Kept ==
  \/ \E w \in Pollers : pc[w] = "store"
  \/ DOMAIN toolsCache = {}
  \/ FoundIn(configs, torn, toolsKey, toolsCache)
Steps ==
  \A w \in Pollers :
    /\ pc[w] = "use" => toolsKey = listed[w] /\ DOMAIN toolsCache # {}
    /\ pc[w] = "store" => toolsKey = listed[w]
Sound == Alone /\ Listing /\ Kept /\ Steps

ToolsInv == Shapes /\ Configs /\ Progress /\ (partial \/ raced \/ Sound)

(* At the start nothing is kept.                                           *)
LEMMA InitTools == Init => ToolsInv
<1> SUFFICES ASSUME Init PROVE ToolsInv
  OBVIOUS
<1>1. Shapes
  BY DEF Init, Shapes
<1>2. Configs
  <2>1. Reading[host].mcp \in {Reading[h].mcp : h \in Hosts} /\ now = Reading[host]
    BY DEF Init
  <2> QED
    BY <2>1 DEF Init, Configs
<1>3. Progress
  BY DEF Init, Progress, ReadSoFar, ReadingPlaces
<1>4. Sound
  BY DEF Init, Sound, Alone, Listing, Kept, Steps, Busy
<1> QED
  BY <1>1, <1>2, <1>3, <1>4 DEF ToolsInv

(* A step away from the cache: other configurations change nothing about   *)
(* those that were read.                                                   *)
Away(v) ==
  \/ pc'[v] = pc[v] /\ listed'[v] = listed[v] /\ tools'[v] = tools[v]
  \/ /\ pc[v] \notin Busy /\ pc'[v] \notin Busy \cup {"keep", "attach"}
     /\ ReadSoFar(configs', torn', pc'[v], listed'[v], tools'[v])

LEMMA AwayKeepsTools ==
  ASSUME ToolsInv, Shapes', Configs', Extended(configs, torn, configs', torn'),
         UNCHANGED <<toolsKey, toolsCache, partial, raced>>,
         \A v \in Pollers : Away(v)
  PROVE  ToolsInv'
<1>1. Progress'
  BY ReadSoFarStays DEF ToolsInv, Progress, Away
<1>2. ASSUME Sound
      PROVE  Sound'
  <2>1. \A times, found :
          FoundIn(configs, torn, times, found) => FoundIn(configs', torn', times, found)
    BY ReadStays
  <2>2. Alone' /\ Steps'
    BY <1>2 DEF Sound, Alone, Steps, Away, Busy
  <2>3. Listing'
    BY <1>2, <2>1 DEF Sound, Listing, Away
  <2>4. Kept'
    BY <1>2, <2>1 DEF Sound, Kept, Away, Busy
  <2> QED
    BY <2>2, <2>3, <2>4 DEF Sound
<1> QED
  BY <1>1, <1>2 DEF ToolsInv

LEMMA ExtendedBySame == \A history, mixed : Extended(history, mixed, history, mixed)
BY DEF Extended

(* Where a step takes one poll.                                            *)
LEMMA GotoMoves ==
  ASSUME pc = [w \in Pollers |-> pc[w]], NEW w \in Pollers, NEW place, Goto(w, place)
  PROVE  /\ pc' = [v \in Pollers |-> pc'[v]]
         /\ \A v \in Pollers : pc'[v] = IF v = w THEN place ELSE pc[v]
BY DEF Goto

(* The steps before and after the tools.                                   *)
OutsidePlaces ==
  {"idle", "discover", "remember", "processes", "listeners", "clients", "compare", "enqueue"}

LEMMA OutsideApart ==
  /\ OutsidePlaces \cap (ReadingPlaces \cup Busy \cup {"keep", "attach"}) = {}
  /\ {"stat 1", "attach"} \cap Busy = {} /\ "stat 1" \notin {"keep", "attach"}
BY DEF OutsidePlaces, ReadingPlaces, Busy

Clears(w) ==
  listed' = [listed EXCEPT ![w] = Nothing] /\ tools' = [tools EXCEPT ![w] = [f \in McpFiles |-> <<>>]]

LEMMA OutsideKeepsTools ==
  ASSUME ToolsInv, NEW w \in Pollers,
         \/ w = Ticker /\ Tick
         \/ w = Worker /\ TakeWake
         \/ Discover(w) \/ Remember(w) \/ Processes(w) \/ Listeners(w) \/ Clients(w)
         \/ Attach(w) \/ Compare(w) \/ Enqueue(w)
  PROVE  ToolsInv'
<1>1. UNCHANGED <<host, now, configs, torn, toolsKey, toolsCache, partial, raced>>
  BY DEF Tick, TakeWake, Discover, Remember, Processes, Listeners, Clients, Attach, Compare,
         Enqueue, table, engine, ghosts
<1>2. PICK place :
        /\ Goto(w, place) \/ (pc' = pc /\ place = pc[w])
        /\ pc[w] \in OutsidePlaces \/ pc[w] = "attach"
        /\ place \in OutsidePlaces \/ (place = "stat 1" /\ Clears(w))
  <2>1. CASE (w = Ticker /\ Tick) \/ (w = Worker /\ TakeWake)
    BY <2>1 DEF Tick, TakeWake, Begin, OutsidePlaces
  <2>2. CASE Discover(w)
    BY <2>2 DEF Discover, OutsidePlaces
  <2>3. CASE Remember(w) \/ Processes(w) \/ Listeners(w)
    BY <2>3 DEF Remember, Processes, Listeners, OutsidePlaces
  <2>4. CASE Clients(w)
    BY <2>4 DEF Clients, Clears, OutsidePlaces
  <2>5. CASE Attach(w)
    BY <2>5 DEF Attach, OutsidePlaces
  <2>6. CASE Compare(w)
    BY <2>6 DEF Compare, OutsidePlaces
  <2>7. CASE Enqueue(w)
    BY <2>7 DEF Enqueue, OutsidePlaces
  <2> QED
    BY <2>1, <2>2, <2>3, <2>4, <2>5, <2>6, <2>7
<1>3. /\ pc' = [v \in Pollers |-> pc'[v]]
      /\ \A v \in Pollers : pc'[v] = IF v = w THEN place ELSE pc[v]
  BY <1>2, GotoMoves DEF ToolsInv, Shapes
<1>4. /\ tools' = [v \in Pollers |-> tools'[v]] /\ listed' = [v \in Pollers |-> listed'[v]]
      /\ \A v \in Pollers \ {w} : tools'[v] = tools[v] /\ listed'[v] = listed[v]
  <2>1. listed' = listed \/ \E x : listed' = [listed EXCEPT ![w] = x]
    BY DEF Tick, TakeWake, Discover, Remember, Processes, Listeners, Clients, Attach, Compare,
           Enqueue
  <2>2. tools' = tools \/ \E x : tools' = [tools EXCEPT ![w] = x]
    BY DEF Tick, TakeWake, Discover, Remember, Processes, Listeners, Clients, Attach, Compare,
           Enqueue
  <2> QED
    BY <2>1, <2>2 DEF ToolsInv, Shapes
<1>5. Shapes' /\ Configs'
  BY <1>1, <1>3, <1>4 DEF ToolsInv, Shapes, Configs
<1>6. ReadSoFar(configs', torn', pc'[w], listed'[w], tools'[w])
  <2>1. ASSUME place = "stat 1", Clears(w)
        PROVE  ReadSoFar(configs', torn', pc'[w], listed'[w], tools'[w])
    <3>1. listed'[w] = [f \in McpFiles |-> None] /\ tools'[w] = [f \in McpFiles |-> <<>>]
      BY <2>1 DEF Clears, ToolsInv, Shapes, Nothing
    <3>2. pc'[w] = "stat 1"
      BY <1>3, <2>1
    <3> QED
      BY <3>1, <3>2, ReadingApart DEF ReadSoFar
  <2> QED
    BY <1>2, <1>3, <2>1, OutsideApart DEF ReadSoFar
<1>7. \A v \in Pollers : Away(v)
  BY <1>2, <1>3, <1>4, <1>6, OutsideApart DEF Away
<1>8. Extended(configs, torn, configs', torn')
  BY <1>1, ExtendedBySame
<1> QED
  BY <1>1, <1>5, <1>7, <1>8, AwayKeepsTools

(* The time of a file is that of a configuration there has been.           *)
LEMMA StatKeepsTools ==
  ASSUME ToolsInv, NEW w \in Pollers, NEW f \in McpFiles, StatConfig(w, f)
  PROVE  ToolsInv'
<1>1. UNCHANGED <<host, now, configs, torn, tools, toolsKey, toolsCache, partial, raced>>
  BY DEF StatConfig, table, engine, ghosts
<1>2. /\ pc[w] = StatAt[f] /\ pc' = [v \in Pollers |-> pc'[v]]
      /\ \A v \in Pollers : pc'[v] = IF v = w THEN AfterStat[f] ELSE pc[v]
  BY GotoMoves DEF StatConfig, ToolsInv, Shapes
<1>3. /\ listed' = [v \in Pollers |-> listed'[v]]
      /\ \A v \in Pollers \ {w} : listed'[v] = listed[v]
      /\ listed'[w] = [listed[w] EXCEPT ![f] = TimeOf(now.mcp, f)]
  BY DEF StatConfig, ToolsInv, Shapes
<1>4. Shapes' /\ Configs'
  BY <1>1, <1>2, <1>3 DEF ToolsInv, Shapes, Configs
<1>5. ReadSoFar(configs', torn', pc'[w], listed'[w], tools'[w])
  <2>1. /\ pc[w] \in ReadingPlaces /\ pc[w] \notin Done[f]
        /\ \A g \in McpFiles : /\ pc'[w] \in Timed[g] => pc[w] \in Timed[g] \/ g = f
                               /\ pc'[w] \in Done[g] <=> pc[w] \in Done[g]
    BY <1>2, StatPlaces
  <2>2. ReadSoFar(configs, torn, pc[w], listed[w], tools[w])
    BY DEF ToolsInv, Progress
  <2>3. /\ listed'[w] = [g \in McpFiles |-> listed'[w][g]] /\ listed'[w][f] = TimeOf(now.mcp, f)
        /\ \A g \in McpFiles \ {f} : listed'[w][g] = listed[w][g]
    BY <1>3, <2>1, <2>2 DEF ReadSoFar
  <2>4. Len(configs) \in DOMAIN configs /\ now.mcp = configs[Len(configs)]
    BY DEF ToolsInv, Configs
  <2>5. \A g \in McpFiles : pc'[w] \in Timed[g] =>
          \E s \in DOMAIN configs : listed'[w][g] = TimeOf(configs[s], g)
    BY <2>1, <2>2, <2>3, <2>4 DEF ReadSoFar
  <2>6. \A g \in McpFiles : /\ pc'[w] \notin Done[g] => tools[w][g] = <<>>
                            /\ pc'[w] \in Done[g] => Settled(configs, torn, g, listed'[w][g], tools[w][g])
    BY <2>1, <2>2, <2>3 DEF ReadSoFar
  <2> QED
    BY <1>1, <2>1, <2>2, <2>3, <2>5, <2>6 DEF ReadSoFar
<1>6. \A v \in Pollers : Away(v)
  BY <1>1, <1>2, <1>3, <1>5, StatPlaces, ReadingApart DEF Away
<1>7. Extended(configs, torn, configs', torn')
  BY <1>1, ExtendedBySame
<1> QED
  BY <1>1, <1>4, <1>6, <1>7, AwayKeepsTools

(* What a file declares is read from the last of the configurations; a     *)
(* change since its time was taken mixes the two.                          *)
LEMMA ReadKeepsTools ==
  ASSUME ToolsInv, NEW w \in Pollers, NEW f \in McpFiles, ReadConfig(w, f)
  PROVE  ToolsInv'
<1>1. /\ UNCHANGED <<host, now, configs, listed, toolsKey, toolsCache, partial, raced>>
      /\ torn => torn'
  BY DEF ReadConfig, table, engine
<1>2. /\ pc[w] = ReadAt[f] /\ pc' = [v \in Pollers |-> pc'[v]]
      /\ \A v \in Pollers : pc'[v] = IF v = w THEN AfterRead[f] ELSE pc[v]
  BY GotoMoves DEF ReadConfig, ToolsInv, Shapes
<1>3. /\ pc[w] \in ReadingPlaces /\ pc'[w] \in ReadingPlaces
      /\ pc[w] \in Timed[f] /\ pc[w] \notin Done[f]
      /\ \A g \in McpFiles : /\ pc'[w] \in Timed[g] <=> pc[w] \in Timed[g]
                             /\ pc'[w] \in Done[g] <=> pc[w] \in Done[g] \/ g = f
  BY <1>2, ReadPlaces
<1>4. ReadSoFar(configs, torn, pc[w], listed[w], tools[w])
  BY DEF ToolsInv, Progress
<1>5. /\ tools' = [v \in Pollers |-> tools'[v]]
      /\ \A v \in Pollers \ {w} : tools'[v] = tools[v]
      /\ tools'[w] = [g \in McpFiles |-> tools'[w][g]]
      /\ \A g \in McpFiles \ {f} : tools'[w][g] = tools[w][g]
      /\ tools'[w][f] = IF listed[w][f] = None THEN <<>> ELSE ServersOf(now.mcp, f)
  <2>1. tools = [v \in Pollers |-> tools[v]] /\ tools[w] = [g \in McpFiles |-> tools[w][g]]
    BY <1>3, <1>4 DEF ToolsInv, Shapes, ReadSoFar
  <2>2. CASE listed[w][f] = None
    <3>1. tools' = tools /\ tools[w][f] = <<>>
      BY <1>3, <1>4, <2>2 DEF ReadConfig, ReadSoFar
    <3> QED
      BY <2>1, <2>2, <3>1
  <2>3. CASE listed[w][f] # None
    <3>1. tools' = [tools EXCEPT ![w] = [tools[w] EXCEPT ![f] = ServersOf(now.mcp, f)]]
      BY <2>3 DEF ReadConfig
    <3>2. /\ tools' = [v \in Pollers |-> tools'[v]]
          /\ \A v \in Pollers \ {w} : tools'[v] = tools[v]
          /\ tools'[w] = [tools[w] EXCEPT ![f] = ServersOf(now.mcp, f)]
      BY <2>1, <3>1
    <3> QED
      BY <2>1, <2>3, <3>2
  <2> QED
    BY <2>2, <2>3
<1>6. Shapes' /\ Configs'
  BY <1>1, <1>2, <1>5 DEF ToolsInv, Shapes, Configs
<1>7. Settled(configs, torn', f, listed[w][f], tools'[w][f])
  <2>1. PICK s \in DOMAIN configs : listed[w][f] = TimeOf(configs[s], f)
    BY <1>3, <1>4 DEF ReadSoFar
  <2>2. /\ DOMAIN configs = 1 .. Len(configs) /\ Len(configs) \in Nat
        /\ Len(configs) \in DOMAIN configs /\ now.mcp = configs[Len(configs)]
    BY DEF ToolsInv, Configs
  <2>3. CASE listed[w][f] = None
    <3>1. s <= s /\ tools'[w][f] = <<>>
      BY <1>5, <2>2, <2>3
    <3> QED
      BY <2>1, <2>3, <3>1 DEF Settled
  <2>4. CASE listed[w][f] # None /\ TimeOf(now.mcp, f) = listed[w][f]
    <3>1. Len(configs) <= Len(configs) /\ tools'[w][f] = ServersOf(configs[Len(configs)], f)
      BY <1>5, <2>2, <2>4
    <3> QED
      BY <2>2, <2>4, <3>1 DEF Settled
  <2>5. CASE listed[w][f] # None /\ TimeOf(now.mcp, f) # listed[w][f]
    <3>1. torn'
      BY <2>5, Zenon DEF ReadConfig
    <3>2. s <= Len(configs) /\ tools'[w][f] = ServersOf(configs[Len(configs)], f)
      BY <1>5, <2>1, <2>2, <2>5
    <3> QED
      BY <2>1, <2>2, <2>5, <3>1, <3>2, Zenon DEF Settled
  <2> QED
    BY <2>3, <2>4, <2>5
<1>8. Extended(configs, torn, configs', torn')
  BY <1>1 DEF Extended
<1>9. ReadSoFar(configs', torn', pc'[w], listed'[w], tools'[w])
  <2>1. \A g \in McpFiles : Settled(configs, torn, g, listed[w][g], tools[w][g])
                              => Settled(configs', torn', g, listed[w][g], tools[w][g])
    BY <1>8, ReadStays
  <2>2. \A g \in McpFiles : pc'[w] \in Done[g] =>
          Settled(configs', torn', g, listed'[w][g], tools'[w][g])
    <3> SUFFICES ASSUME NEW g \in McpFiles, pc'[w] \in Done[g]
                 PROVE  Settled(configs', torn', g, listed'[w][g], tools'[w][g])
      OBVIOUS
    <3>1. CASE g = f
      BY <1>1, <1>7, <3>1
    <3>2. CASE g # f
      <4>1. tools'[w][g] = tools[w][g] /\ Settled(configs, torn, g, listed[w][g], tools[w][g])
        BY <1>3, <1>4, <1>5, <3>2 DEF ReadSoFar
      <4> QED
        BY <1>1, <2>1, <4>1
    <3> QED
      BY <3>1, <3>2
  <2>3. \A g \in McpFiles : pc'[w] \notin Done[g] => tools'[w][g] = <<>>
    BY <1>3, <1>4, <1>5 DEF ReadSoFar
  <2>4. \A g \in McpFiles : pc'[w] \in Timed[g] =>
          \E s \in DOMAIN configs' : listed'[w][g] = TimeOf(configs'[s], g)
    BY <1>1, <1>3, <1>4 DEF ReadSoFar
  <2>5. listed'[w] = [g \in McpFiles |-> listed'[w][g]]
    BY <1>1, <1>3, <1>4 DEF ReadSoFar
  <2> QED
    BY <1>5, <2>2, <2>3, <2>4, <2>5 DEF ReadSoFar
<1>10. \A v \in Pollers : Away(v)
  BY <1>1, <1>2, <1>3, <1>5, <1>9, ReadingApart DEF Away
<1> QED
  BY <1>1, <1>6, <1>8, <1>10, AwayKeepsTools

-----------------------------------------------------------------------------
(* A step of a poll that has read everything leaves the configurations and *)
(* the other poll as they are.                                             *)
Inside(w) ==
  /\ Shapes' /\ pc'[w] \in Busy \cup {"keep", "attach"}
  /\ \A v \in Pollers \ {w} : pc'[v] = pc[v] /\ listed'[v] = listed[v] /\ tools'[v] = tools[v]
  /\ UNCHANGED <<host, now, configs, torn>>
  /\ partial => partial'
  /\ raced => raced'

LEMMA InsideKeepsTools ==
  ASSUME ToolsInv, NEW w \in Pollers, Inside(w),
         Sound /\ ~partial' /\ ~raced' => Sound'
  PROVE  ToolsInv'
<1>1. Configs'
  BY DEF ToolsInv, Inside, Configs
<1>2. Progress'
  <2>1. ReadSoFar(configs', torn', pc'[w], listed'[w], tools'[w])
    BY ReadingApart DEF Inside, ReadSoFar
  <2> QED
    BY <2>1 DEF ToolsInv, Inside, Progress
<1> QED
  BY <1>1, <1>2 DEF ToolsInv, Inside

(* A listing without failure was found under its times; without files it   *)
(* passes the cache by.                                                    *)
LEMMA ListToolsKeepsTools ==
  ASSUME ToolsInv, NEW w \in Pollers, ListTools(w)
  PROVE  ToolsInv'
<1>1. PICK place : place \in {"attach", "keep"} /\ Goto(w, place)
  BY DEF ListTools
<1>2. /\ pc[w] = "tools" /\ pc' = [v \in Pollers |-> pc'[v]]
      /\ \A v \in Pollers : pc'[v] = IF v = w THEN place ELSE pc[v]
  BY <1>1, GotoMoves DEF ListTools, ToolsInv, Shapes
<1>3. /\ UNCHANGED <<host, now, configs, torn, toolsKey, toolsCache, listed, raced>>
      /\ partial => partial'
  BY DEF ListTools, table, engine
<1>4. /\ \E found : tools' = [tools EXCEPT ![w] = found]
      /\ partial' \/ tools' = [tools EXCEPT ![w] = McpTools(tools[w])]
  BY DEF ListTools
<1>5. /\ tools' = [v \in Pollers |-> tools'[v]]
      /\ \A v \in Pollers \ {w} : tools'[v] = tools[v]
      /\ partial' \/ tools'[w] = McpTools(tools[w])
  BY <1>4 DEF ToolsInv, Shapes
<1>6. Inside(w)
  BY <1>1, <1>2, <1>3, <1>5 DEF Inside, ToolsInv, Shapes
<1>7. FoundIn(configs, torn, listed[w], McpTools(tools[w]))
  <2>1. ReadSoFar(configs, torn, "tools", listed[w], tools[w]) /\ "tools" \in ReadingPlaces
    BY <1>2 DEF ToolsInv, Progress, ReadingPlaces
  <2>2. /\ tools[w] = [f \in McpFiles |-> tools[w][f]]
        /\ \A f \in McpFiles : Settled(configs, torn, f, listed[w][f], tools[w][f])
    BY <2>1, ReadingApart DEF ReadSoFar
  <2> QED
    BY <2>2, SettledIsFound
<1>8. ASSUME Sound, ~partial'
      PROVE  Sound'
  <2>1. pc[w] \notin Busy /\ pc'[w] \notin Busy /\ \A v \in Pollers \ {w} : pc'[v] = pc[v]
    BY <1>1, <1>2 DEF Busy
  <2>2. Alone' /\ Steps'
    BY <1>3, <1>8, <2>1 DEF Sound, Alone, Steps, Busy
  <2>3. Listing'
    BY <1>3, <1>5, <1>7, <1>8, <2>1 DEF Sound, Listing
  <2>4. Kept'
    BY <1>3, <1>8, <2>1 DEF Sound, Kept, Busy
  <2> QED
    BY <2>2, <2>3, <2>4 DEF Sound
<1> QED
  BY <1>6, <1>8, InsideKeepsTools

(* A step in the cache of the tools, with the poll alone there.            *)
LEMMA RaceOrAlone ==
  ASSUME NEW w \in Pollers, Races(w), ~raced'
  PROVE  ~raced /\ \A v \in Pollers \ {w} : ~InTools(v)
BY DEF Races, Others

LEMMA KeepKeepsTools ==
  ASSUME ToolsInv, NEW w \in Pollers, Keep(w)
  PROVE  ToolsInv'
<1>1. PICK place :
        /\ Goto(w, place) /\ place \in {"use", "key", "attach"}
        /\ place = "use" => toolsKey = listed[w] /\ DOMAIN toolsCache # {}
  BY DEF Keep
<1>2. /\ pc[w] = "keep" /\ pc' = [v \in Pollers |-> pc'[v]]
      /\ \A v \in Pollers : pc'[v] = IF v = w THEN place ELSE pc[v]
  BY <1>1, GotoMoves DEF Keep, ToolsInv, Shapes
<1>3. /\ Races(w)
      /\ UNCHANGED <<host, now, configs, torn, toolsKey, toolsCache, listed, tools, partial>>
  BY DEF Keep, table, engine
<1>4. Inside(w)
  BY <1>1, <1>2, <1>3 DEF Inside, ToolsInv, Shapes, Races, Busy
<1>5. ASSUME Sound, ~raced'
      PROVE  Sound'
  <2>1. \A v \in Pollers \ {w} : pc'[v] = pc[v] /\ pc'[v] \notin Busy
    BY <1>2, <1>3, <1>5, RaceOrAlone DEF InTools, Busy
  <2>2. Alone'
    BY <2>1 DEF Alone
  <2>3. Listing'
    BY <1>2, <1>3, <1>5, <2>1 DEF Sound, Listing
  <2>4. Kept'
    BY <1>2, <1>3, <1>5, <2>1 DEF Sound, Kept, Busy
  <2>5. Steps'
    BY <1>1, <1>2, <1>3, <2>1 DEF Steps, Busy
  <2> QED
    BY <2>2, <2>3, <2>4, <2>5 DEF Sound
<1> QED
  BY <1>4, <1>5, InsideKeepsTools

(* What was kept under the key was found under the same times.             *)
LEMMA UseToolsKeepsTools ==
  ASSUME ToolsInv, NEW w \in Pollers, UseTools(w)
  PROVE  ToolsInv'
<1>1. /\ pc[w] = "use" /\ pc' = [v \in Pollers |-> pc'[v]]
      /\ \A v \in Pollers : pc'[v] = IF v = w THEN "attach" ELSE pc[v]
  BY GotoMoves DEF UseTools, ToolsInv, Shapes
<1>2. Races(w) /\ UNCHANGED <<host, now, configs, torn, toolsKey, toolsCache, listed, partial>>
  BY DEF UseTools, table, engine
<1>3. /\ tools' = [v \in Pollers |-> tools'[v]]
      /\ \A v \in Pollers : tools'[v] = IF v = w THEN toolsCache ELSE tools[v]
  BY DEF UseTools, ToolsInv, Shapes
<1>4. Inside(w)
  BY <1>1, <1>2, <1>3 DEF Inside, ToolsInv, Shapes, Races
<1>5. ASSUME Sound, ~raced'
      PROVE  Sound'
  <2>1. \A v \in Pollers \ {w} : pc'[v] = pc[v] /\ pc'[v] \notin Busy
    BY <1>1, <1>2, <1>5, RaceOrAlone DEF InTools, Busy
  <2>2. toolsKey = listed[w] /\ FoundIn(configs, torn, toolsKey, toolsCache)
    BY <1>1, <1>5, <2>1 DEF Sound, Kept, Steps, Busy
  <2>3. Alone' /\ Steps'
    BY <1>1, <2>1 DEF Alone, Steps, Busy
  <2>4. Listing'
    BY <1>2, <1>3, <1>5, <2>1, <2>2 DEF Sound, Listing
  <2>5. Kept'
    BY <1>2, <2>2 DEF Kept
  <2> QED
    BY <2>3, <2>4, <2>5 DEF Sound
<1> QED
  BY <1>4, <1>5, InsideKeepsTools

(* Between the two writes the key is that of the tools to be kept.         *)
LEMMA StoreKeyKeepsTools ==
  ASSUME ToolsInv, NEW w \in Pollers, StoreKey(w)
  PROVE  ToolsInv'
<1>1. /\ pc[w] = "key" /\ pc' = [v \in Pollers |-> pc'[v]]
      /\ \A v \in Pollers : pc'[v] = IF v = w THEN "store" ELSE pc[v]
  BY GotoMoves DEF StoreKey, ToolsInv, Shapes
<1>2. /\ Races(w) /\ toolsKey' = listed[w]
      /\ UNCHANGED <<host, now, configs, torn, toolsCache, listed, tools, partial>>
  BY DEF StoreKey, table
<1>3. Inside(w)
  BY <1>1, <1>2 DEF Inside, ToolsInv, Shapes, Races, Busy
<1>4. ASSUME Sound, ~raced'
      PROVE  Sound'
  <2>1. \A v \in Pollers \ {w} : pc'[v] = pc[v] /\ pc'[v] \notin Busy
    BY <1>1, <1>2, <1>4, RaceOrAlone DEF InTools, Busy
  <2>2. Alone' /\ Kept'
    BY <1>1, <2>1 DEF Alone, Kept
  <2>3. Listing'
    BY <1>1, <1>2, <1>4, <2>1 DEF Sound, Listing, Busy
  <2>4. Steps'
    BY <1>1, <1>2, <2>1 DEF Steps, Busy
  <2> QED
    BY <2>2, <2>3, <2>4 DEF Sound
<1> QED
  BY <1>3, <1>4, InsideKeepsTools

(* After them what is kept was found under the key again.                  *)
LEMMA StoreToolsKeepsTools ==
  ASSUME ToolsInv, NEW w \in Pollers, StoreTools(w)
  PROVE  ToolsInv'
<1>1. /\ pc[w] = "store" /\ pc' = [v \in Pollers |-> pc'[v]]
      /\ \A v \in Pollers : pc'[v] = IF v = w THEN "attach" ELSE pc[v]
  BY GotoMoves DEF StoreTools, ToolsInv, Shapes
<1>2. /\ Races(w) /\ toolsCache' = tools[w]
      /\ UNCHANGED <<host, now, configs, torn, toolsKey, listed, tools, partial>>
  BY DEF StoreTools, table
<1>3. Inside(w)
  BY <1>1, <1>2 DEF Inside, ToolsInv, Shapes, Races
<1>4. ASSUME Sound, ~raced'
      PROVE  Sound'
  <2>1. \A v \in Pollers \ {w} : pc'[v] = pc[v] /\ pc'[v] \notin Busy
    BY <1>1, <1>2, <1>4, RaceOrAlone DEF InTools, Busy
  <2>2. toolsKey = listed[w] /\ FoundIn(configs, torn, listed[w], tools[w])
    BY <1>1, <1>4 DEF Sound, Steps, Listing, Busy
  <2>3. Alone' /\ Steps'
    BY <1>1, <2>1 DEF Alone, Steps, Busy
  <2>4. Listing'
    BY <1>1, <1>2, <1>4, <2>1, <2>2 DEF Sound, Listing
  <2>5. Kept'
    BY <1>2, <2>2 DEF Kept
  <2> QED
    BY <2>3, <2>4, <2>5 DEF Sound
<1> QED
  BY <1>3, <1>4, InsideKeepsTools

(* Every step keeps the invariant.                                         *)
toolVars == <<pc, listed, tools, toolsKey, toolsCache, partial, raced, torn>>

LEMMA ToolsStep == ToolsInv /\ [Next]_vars => ToolsInv'
<1> SUFFICES ASSUME ToolsInv, [Next]_vars PROVE ToolsInv'
  OBVIOUS
<1>1. CASE HostChange
  <2>1. UNCHANGED toolVars
    BY <1>1 DEF HostChange, toolVars, poll, engine
  <2>2. /\ host' \in Near[host] /\ now' = Reading[host']
        /\ configs' = IF now'.mcp = now.mcp THEN configs ELSE Append(configs, now'.mcp)
    BY <1>1 DEF HostChange
  <2>3. PICK Mcps : Mcps = {Reading[h].mcp : h \in Hosts}
    OBVIOUS
  <2>4. host' \in Hosts /\ now'.mcp \in Mcps
    BY <2>2, <2>3, AiInventoryAssumption DEF ToolsInv, Configs
  <2>5. configs \in Seq(Mcps) /\ configs # <<>> /\ now.mcp = configs[Len(configs)]
    BY <2>3 DEF ToolsInv, Configs
  <2>6. CASE now'.mcp = now.mcp
    <3>1. configs' = configs
      BY <2>2, <2>6
    <3>2. Configs' /\ Extended(configs, torn, configs', torn')
      BY <2>1, <2>2, <2>3, <2>4, <2>5, <2>6, <3>1, ExtendedBySame DEF Configs, toolVars
    <3> QED
      BY <2>1, <3>2, AwayKeepsTools DEF ToolsInv, Shapes, toolVars, Away
  <2>7. CASE now'.mcp # now.mcp
    <3>1. configs' = Append(configs, now'.mcp)
      BY <2>2, <2>7
    <3>2. /\ configs' \in Seq(Mcps) /\ configs' # <<>> /\ configs'[Len(configs')] = now'.mcp
          /\ DOMAIN configs \subseteq DOMAIN configs'
          /\ \A s \in DOMAIN configs : configs'[s] = configs[s]
      BY <2>4, <2>5, <3>1
    <3>3. Configs' /\ Extended(configs, torn, configs', torn')
      BY <2>1, <2>2, <2>3, <2>4, <3>2 DEF Configs, Extended, toolVars
    <3> QED
      BY <2>1, <3>3, AwayKeepsTools DEF ToolsInv, Shapes, toolVars, Away
  <2> QED
    BY <2>6, <2>7
<1>2. CASE Cancel \/ Observe \/ RunFeed \/ UNCHANGED vars
  <2>1. UNCHANGED <<host, now, configs>> /\ UNCHANGED toolVars
    BY <1>2 DEF Cancel, Observe, ObserveChange, RunFeed, vars, table, engine, poll, ghosts, toolVars
  <2>2. Configs' /\ Shapes'
    BY <2>1 DEF ToolsInv, Configs, Shapes, toolVars
  <2> QED
    BY <2>1, <2>2, ExtendedBySame, AwayKeepsTools DEF toolVars, Away
<1>3. CASE Tick \/ TakeWake
  <2>1. PICK w \in Pollers : (w = Ticker /\ Tick) \/ (w = Worker /\ TakeWake)
    BY <1>3 DEF Pollers
  <2> QED
    BY <2>1, OutsideKeepsTools
<1>4. ASSUME NEW w \in Pollers, Poll(w)
      PROVE  ToolsInv'
  <2>1. CASE Discover(w) \/ Remember(w) \/ Processes(w) \/ Listeners(w) \/ Clients(w)
               \/ Attach(w) \/ Compare(w) \/ Enqueue(w)
    BY <2>1, OutsideKeepsTools
  <2>2. CASE \E f \in McpFiles : StatConfig(w, f) \/ ReadConfig(w, f)
    BY <2>2, StatKeepsTools, ReadKeepsTools
  <2>3. CASE ListTools(w)
    BY <2>3, ListToolsKeepsTools
  <2>4. CASE Keep(w)
    BY <2>4, KeepKeepsTools
  <2>5. CASE UseTools(w)
    BY <2>5, UseToolsKeepsTools
  <2>6. CASE StoreKey(w)
    BY <2>6, StoreKeyKeepsTools
  <2>7. CASE StoreTools(w)
    BY <2>7, StoreToolsKeepsTools
  <2> QED
    BY <1>4, <2>1, <2>2, <2>3, <2>4, <2>5, <2>6, <2>7 DEF Poll
<1> QED
  BY <1>1, <1>2, <1>3, <1>4 DEF Next

(* The tools a poll reports, its own or those that were kept, are never of *)
(* older configurations than the times it took, and are of the same unless *)
(* one was written while a poll read it; as long as every server answered  *)
(* and no two polls were in the unlocked cache at a time: for any hosts,   *)
(* configurations and bounds (extension_capabilities.go:109-115,           *)
(* mcp_discovery.go:36-82).                                                *)
THEOREM ToolsAreOfTheirConfig == Spec => []ToolsFollowConfig
<1>1. \A times, found : FoundIn(configs, torn, times, found) <=> FoundAt(times, found)
  BY DEF FoundIn, FoundAt
<1>2. ToolsInv => ToolsFollowConfig
  BY <1>1 DEF ToolsInv, Sound, Listing, ToolsFollowConfig
<1> QED
  BY <1>2, InitTools, ToolsStep, PTL DEF Spec

-----------------------------------------------------------------------------
(* A nonempty set of numbers has a least one: of the intervals from 0 to a *)
(* member, one is within no other.                                         *)
LEMMA LeastNumber ==
  ASSUME NEW S, S \subseteq Nat, S # {}
  PROVE  \E x \in S : \A y \in S : x <= y
<1>1. PICK n \in S : n \in Nat
  OBVIOUS
<1>2. PICK T : T = {0 .. m : m \in S \cap (0 .. n)}
  OBVIOUS
<1>3. IsFiniteSet(0 .. n) /\ FiniteSubsetsOf(0 .. n) = SUBSET (0 .. n)
  <2>1. PICK I : I = 0 .. n
    OBVIOUS
  <2>2. IsFiniteSet(I)
    BY <1>1, <2>1, FS_Interval
  <2>3. FiniteSubsetsOf(I) = SUBSET I
    BY <2>2, FS_FiniteSubsetsOfFinite
  <2> QED
    BY <2>1, <2>2, <2>3
<1>4. T \subseteq FiniteSubsetsOf(0 .. n) /\ T # {}
  <2>1. \A m \in 0 .. n : 0 .. m \subseteq 0 .. n
    BY <1>1
  <2>2. n \in S \cap (0 .. n)
    BY <1>1
  <2> QED
    BY <1>2, <1>3, <2>1, <2>2
<1>5. PICK I \in T : \A J \in T : ~(<<J, I>> \in StrictSubsetOrdering(0 .. n))
  BY <1>4, FS_StrictSubsetOrderingWellFounded, WFMin
<1>6. PICK x \in S \cap (0 .. n) : I = 0 .. x
  BY <1>2
<1>7. ASSUME NEW y \in S, y < x PROVE FALSE
  <2>1. y \in 0 .. n /\ x \in Nat
    BY <1>1, <1>6, <1>7
  <2>2. 0 .. y \in T /\ 0 .. y \subseteq 0 .. x /\ 0 .. y # 0 .. x
    BY <1>2, <1>7, <2>1
  <2>3. 0 .. y \subseteq 0 .. n /\ 0 .. x \subseteq 0 .. n
    BY <1>1, <1>6, <2>1
  <2> QED
    BY <1>5, <1>6, <2>2, <2>3 DEF StrictSubsetOrdering
<1> QED
  BY <1>6, <1>7

(* What holds of 0 and of the next number holds up to n.                   *)
LEMMA UpTo ==
  ASSUME NEW n \in Nat, NEW S, 0 \in S, \A i \in 1 .. n : i - 1 \in S => i \in S
  PROVE  0 .. n \subseteq S
<1> SUFFICES ASSUME ~(0 .. n \subseteq S) PROVE FALSE
  OBVIOUS
<1>1. (0 .. n) \ S \subseteq Nat /\ (0 .. n) \ S # {}
  OBVIOUS
<1>2. PICK i \in (0 .. n) \ S : \A j \in (0 .. n) \ S : i <= j
  BY <1>1, LeastNumber
<1>3. i \in 1 .. n /\ i - 1 \in 0 .. n /\ i - 1 \in Nat /\ i - 1 < i
  BY <1>2
<1> QED
  BY <1>2, <1>3

(* A row, and what of it no reading after the discovery changes.           *)
IsRow(e) == {"app", "product", "installed", "keys"} \subseteq DOMAIN e
Same(e, x) ==
  /\ x.app = e.app /\ x.product = e.product /\ x.installed = e.installed /\ x.keys = e.keys
SameRows(es, xs) ==
  /\ \A e \in es : \E x \in xs : Same(e, x)
  /\ \A x \in xs : IsRow(x) /\ \E e \in es : Same(e, x)
AreRows(es) == \A e \in es : IsRow(e)

(* What a poll tells of rows.                                              *)
ToldIds(es) == {IdOf(e) : e \in {x \in es : x.product # None /\ x.installed}}

(* Rows that are the same tell the same ids.                               *)
LEMMA SameIds ==
  ASSUME NEW es, NEW xs, SameRows(es, xs)
  PROVE  ToldIds(xs) = ToldIds(es) /\ AreRows(xs)
BY DEF SameRows, Same, ToldIds, IdOf, AreRows

(* Two readings that each leave the rows the same do so together.          *)
LEMMA SameTransitive ==
  ASSUME NEW es, NEW xs, NEW ys, SameRows(es, xs), SameRows(xs, ys)
  PROVE  SameRows(es, ys)
BY DEF SameRows, Same

(* A process that is found changes no such part of its row.                *)
LEMMA RunsIs ==
  ASSUME NEW e, NEW pid, IsRow(e)
  PROVE  IsRow(Runs(e, pid)) /\ Same(e, Runs(e, pid))
BY DEF IsRow, Same, Runs

(* Nor do the readings of extension hosts, listeners and clients, and the  *)
(* capabilities.                                                           *)
LEMMA ExtensionHostsSame ==
  ASSUME NEW es, AreRows(es), NEW procs
  PROVE  SameRows(es, WithExtensionHosts(es, procs))
<1>1. PICK from : WithExtensionHosts(es, procs) =
        {IF IsExtension(e) THEN [e EXCEPT !.running = FALSE, !.hostSeen = e.host \in from] ELSE e :
           e \in es}
  BY DEF WithExtensionHosts
<1>2. ASSUME NEW e, IsRow(e), NEW x,
             x = e \/ x = [e EXCEPT !.running = FALSE, !.hostSeen = e.host \in from]
      PROVE  IsRow(x) /\ Same(e, x)
  BY <1>2 DEF IsRow, Same
<1>3. \A x \in WithExtensionHosts(es, procs) : \E e \in es :
        x = e \/ x = [e EXCEPT !.running = FALSE, !.hostSeen = e.host \in from]
  BY <1>1, Zenon
<1>4. \A e \in es : \E x \in WithExtensionHosts(es, procs) :
        x = e \/ x = [e EXCEPT !.running = FALSE, !.hostSeen = e.host \in from]
  BY <1>1, Zenon
<1> QED
  BY <1>2, <1>3, <1>4 DEF SameRows, AreRows

(* attachRuntimeListeners, the fingerprint and the artifacts.              *)
LEMMA ListenersSame ==
  ASSUME NEW es, AreRows(es), NEW socks, NEW boxes, NEW answer, NEW h
  PROVE  SameRows(es, WithListeners(es, socks, boxes, answer, h))
<1>1. ASSUME NEW e, IsRow(e)
      PROVE  IsRow(Listening(e, socks, boxes)) /\ Same(e, Listening(e, socks, boxes))
  BY <1>1 DEF Listening, Serves, IsRow, Same
<1>2. ASSUME NEW e, IsRow(e)
      PROVE  IsRow(Fingerprint(e, answer)) /\ Same(e, Fingerprint(e, answer))
  BY <1>2 DEF Fingerprint, IsRow, Same
<1>3. ASSUME NEW e, IsRow(e)
      PROVE  IsRow(Artifacts(e, h)) /\ Same(e, Artifacts(e, h))
  BY <1>3 DEF Artifacts, IsRow, Same
<1>4. ASSUME NEW e, IsRow(e)
      PROVE  LET x == Artifacts(Fingerprint(Listening(e, socks, boxes), answer), h)
             IN IsRow(x) /\ Same(e, x)
  <2>1. PICK y : y = Listening(e, socks, boxes) /\ IsRow(y) /\ Same(e, y)
    BY <1>1, <1>4
  <2>2. PICK z : z = Fingerprint(y, answer) /\ IsRow(z) /\ Same(y, z)
    BY <1>2, <2>1
  <2>3. IsRow(Artifacts(z, h)) /\ Same(z, Artifacts(z, h))
    BY <1>3, <2>2
  <2> QED
    BY <2>1, <2>2, <2>3 DEF Same
<1> QED
  BY <1>4 DEF WithListeners, SameRows, AreRows

(* attachLocalClients.                                                     *)
LEMMA ClientsSame ==
  ASSUME NEW es, AreRows(es), NEW conns
  PROVE  SameRows(es, WithClients(es, conns))
<1>1. ASSUME NEW e, IsRow(e), NEW x, x = e \/ \E c : x = [e EXCEPT !.clients = c]
      PROVE  IsRow(x) /\ Same(e, x)
  BY <1>1 DEF IsRow, Same
<1>2. \A x \in WithClients(es, conns) : \E e \in es : x = e \/ \E c : x = [e EXCEPT !.clients = c]
  BY Zenon DEF WithClients
<1>3. \A e \in es : \E x \in WithClients(es, conns) : x = e \/ \E c : x = [e EXCEPT !.clients = c]
  BY Zenon DEF WithClients
<1> QED
  BY <1>1, <1>2, <1>3 DEF SameRows, AreRows

(* attachExtensionCapabilities.                                            *)
LEMMA CapabilitiesSame ==
  ASSUME NEW es, AreRows(es), NEW mcp, NEW used, NEW local
  PROVE  SameRows(es, WithCapabilities(es, mcp, used, local))
<1> DEFINE files(e) == FilesOf[IF IsEditor(e) THEN e.product.id ELSE e.host] \cap DOMAIN mcp
           mcpOf(e) == [e EXCEPT !.servers = UNION {DOMAIN mcp[f].servers : f \in files(e)},
                                 !.tools = used, !.configured = files(e) # {}]
<1> DEFINE ways(e, x) == x = e \/ x = mcpOf(e) \/ x = [mcpOf(e) EXCEPT !.local = local[e]]
<1>1. ASSUME NEW e, IsRow(e), NEW x, ways(e, x) PROVE IsRow(x) /\ Same(e, x)
  <2>1. IsRow(mcpOf(e)) /\ Same(e, mcpOf(e))
    BY <1>1 DEF IsRow, Same
  <2>2. ASSUME NEW y, IsRow(y) PROVE LET z == [y EXCEPT !.local = local[e]] IN IsRow(z) /\ Same(y, z)
    BY <2>2 DEF IsRow, Same
  <2>3. PICK y : y = mcpOf(e)
    OBVIOUS
  <2> HIDE DEF mcpOf
  <2> QED
    BY <1>1, <2>1, <2>2, <2>3 DEF Same
<1>2. WithCapabilities(es, mcp, used, local) =
        {IF IsExtension(e) THEN [mcpOf(e) EXCEPT !.local = local[e]]
         ELSE IF IsEditor(e) THEN mcpOf(e) ELSE e : e \in es}
  BY Zenon DEF WithCapabilities
<1> HIDE DEF mcpOf
<1>3. \A x \in WithCapabilities(es, mcp, used, local) : \E e \in es : ways(e, x)
  BY <1>2, Zenon
<1>4. \A e \in es : \E x \in WithCapabilities(es, mcp, used, local) : ways(e, x)
  BY <1>2, Zenon
<1> HIDE DEF ways
<1> QED
  BY <1>1, <1>3, <1>4 DEF SameRows, AreRows

(* A process is marked in a row that is there, or has a new one: of its    *)
(* bundle, or of an executable that is not installed.                      *)
Found(exe, h) ==
  LET b == EnclosingAppPath(exe)
  IN IF b \in DOMAIN h.bundleAt THEN h.bundleAt[b]
     ELSE [Bare(exe, ProductOf[Last(exe)]) EXCEPT !.path = b, !.resolved = <<>>]

OfBundle(es, x, exe, h) ==
  LET b == EnclosingAppPath(exe)
  IN /\ b # <<>> /\ At(es, b) = {} /\ x.keys = {b} /\ x.installed
     /\ x.app = Found(exe, h) /\ x.product = Found(exe, h).product

Marks(es, xs) == \E e \in es : \E pid : xs = Update(es, e, Runs(e, pid))

(* A row that is marked as running is the same row.                        *)
LEMMA MarksSame ==
  ASSUME NEW es, AreRows(es), NEW xs, Marks(es, xs)
  PROVE  SameRows(es, xs)
<1>1. PICK e \in es : \E pid : xs = (es \ {e}) \cup {Runs(e, pid)}
  BY DEF Marks, Update
<1>2. PICK pid : xs = (es \ {e}) \cup {Runs(e, pid)}
  BY <1>1
<1>3. IsRow(Runs(e, pid)) /\ Same(e, Runs(e, pid))
  BY RunsIs DEF AreRows
<1> QED
  BY <1>2, <1>3 DEF SameRows, Same, AreRows

BundleRow(app, b, pid) == Runs([Entry(app, TRUE) EXCEPT !.keys = {b}], pid)
BareRow(app, pid) == Runs([Entry(app, FALSE) EXCEPT !.keys = {}], pid)

(* The row of a running bundle is installed, under its path.               *)
LEMMA BundleRowIs ==
  ASSUME NEW app, NEW b, NEW pid
  PROVE  LET y == BundleRow(app, b, pid)
         IN IsRow(y) /\ y.app = app /\ y.product = app.product /\ y.installed /\ y.keys = {b}
<1>1. PICK e : e = Entry(app, TRUE)
  OBVIOUS
<1>2. PICK x : x = [e EXCEPT !.keys = {b}]
  OBVIOUS
<1>3. IsRow(x) /\ x.app = app /\ x.product = app.product /\ x.installed /\ x.keys = {b}
  BY <1>1, <1>2 DEF Entry, IsRow
<1>4. IsRow(Runs(x, pid)) /\ Same(x, Runs(x, pid))
  BY <1>3, RunsIs
<1>5. BundleRow(app, b, pid) = Runs(x, pid)
  BY <1>1, <1>2 DEF BundleRow
<1> QED
  BY <1>3, <1>4, <1>5 DEF Same

(* The row of a bare executable is not installed and has no key.           *)
LEMMA BareRowIs ==
  ASSUME NEW app, NEW pid
  PROVE  LET y == BareRow(app, pid)
         IN IsRow(y) /\ ~y.installed /\ y.keys = {}
<1>1. PICK e : e = Entry(app, FALSE)
  OBVIOUS
<1>2. PICK x : x = [e EXCEPT !.keys = {}]
  OBVIOUS
<1>3. IsRow(x) /\ ~x.installed /\ x.keys = {}
  BY <1>1, <1>2 DEF Entry, IsRow
<1>4. IsRow(Runs(x, pid)) /\ Same(x, Runs(x, pid))
  BY <1>3, RunsIs
<1>5. BareRow(app, pid) = Runs(x, pid)
  BY <1>1, <1>2 DEF BareRow
<1> QED
  BY <1>3, <1>4, <1>5 DEF Same

Ways(es, xs, b, exe, h) ==
  \/ b # <<>> /\ At(es, b) # {} /\ Marks(es, xs)
  \/ b # <<>> /\ At(es, b) = {} /\ \E pid : xs = es \cup {BundleRow(Found(exe, h), b, pid)}
  \/ b = <<>> /\ Marks(es, xs)
  \/ b = <<>> /\ xs = es
  \/ b = <<>> /\ \E app, pid : xs = es \cup {BareRow(app, pid)}

(* The cases of correlateProcess.                                          *)
LEMMA CorrelateWays ==
  ASSUME NEW es, NEW proc, NEW index, NEW h,
         NEW exe, exe = Executable(proc, index, h.links),
         NEW b, b = EnclosingAppPath(exe),
         NEW xs, xs = Correlate(es, proc, index, h)
  PROVE  Ways(es, xs, b, exe, h)
<1> DEFINE X == Executable(proc, index, h.links)
<1> DEFINE B == EnclosingAppPath(X)
<1> DEFINE known == IF X \in DOMAIN index.byPath THEN index.byPath[X] ELSE None
<1> DEFINE cands == IF known = None THEN <<X>>
                    ELSE <<X, known.path, known.resolved, known.invocation>>
<1> DEFINE hits == {i \in DOMAIN cands : \E r \in At(es, cands[i]) : r.installed}
<1> DEFINE first == CHOOSE i \in hits : \A j \in hits : i <= j
<1> DEFINE product == ProductOf[Last(X)]
<1> DEFINE mark(mine) == Update(es, CHOOSE r \in mine : TRUE, Runs(CHOOSE r \in mine : TRUE, proc.pid))
<1>1. Correlate(es, proc, index, h) =
        CASE B # <<>> /\ At(es, B) # {} -> mark(At(es, B))
          [] B # <<>> /\ At(es, B) = {} ->
               es \cup {BundleRow(Found(X, h), B, proc.pid)}
          [] B = <<>> /\ hits # {} -> mark(At(es, cands[first]))
          [] B = <<>> /\ hits = {} /\ product = None -> es
          [] B = <<>> /\ hits = {} /\ product # None /\ RunningAs(es, X) # {} ->
               mark(RunningAs(es, X))
          [] OTHER -> es \cup {BareRow(Bare(X, product), proc.pid)}
  BY Zenon DEF Correlate, Found, BundleRow, BareRow
<1>2. ASSUME NEW mine, mine # {}, mine \subseteq es PROVE Marks(es, mark(mine))
  BY <1>2 DEF Marks
<1>3. \A key : At(es, key) \subseteq es
  BY DEF At
<1>4. RunningAs(es, X) \subseteq es
  BY DEF RunningAs
<1>5. hits # {} => At(es, cands[first]) # {}
  <2>1. DOMAIN cands \subseteq Nat
    OBVIOUS
  <2> HIDE DEF cands
  <2> SUFFICES ASSUME hits # {} PROVE At(es, cands[first]) # {}
    OBVIOUS
  <2>2. hits \subseteq Nat
    BY <2>1
  <2>3. \E i \in hits : \A j \in hits : i <= j
    BY <2>2, LeastNumber
  <2>4. first \in hits
    BY <2>3
  <2> QED
    BY <2>4
<1>6. xs = Correlate(es, proc, index, h) /\ exe = X /\ b = B
  OBVIOUS
<1> HIDE DEF X, B, mark, hits, first, cands, known, product
<1>7. CASE B # <<>> /\ At(es, B) # {}
  <2>1. xs = mark(At(es, B))
    BY <1>6, <1>1, <1>7
  <2> QED
    BY <1>6, <1>2, <1>3, <1>7, <2>1 DEF Ways
<1>8. CASE B # <<>> /\ At(es, B) = {}
  <2>1. xs = es \cup {BundleRow(Found(X, h), B, proc.pid)}
    BY <1>6, <1>1, <1>8
  <2> QED
    BY <1>6, <1>8, <2>1 DEF Ways
<1>9. CASE B = <<>> /\ hits # {}
  <2>1. xs = mark(At(es, cands[first]))
    BY <1>6, <1>1, <1>9
  <2> QED
    BY <1>6, <1>2, <1>3, <1>5, <1>9, <2>1 DEF Ways
<1>10. CASE B = <<>> /\ hits = {} /\ product = None
  <2>1. xs = es
    BY <1>6, <1>1, <1>10
  <2> QED
    BY <1>6, <1>10, <2>1 DEF Ways
<1>11. CASE B = <<>> /\ hits = {} /\ product # None /\ RunningAs(es, X) # {}
  <2>1. xs = mark(RunningAs(es, X))
    BY <1>6, <1>1, <1>11
  <2> QED
    BY <1>6, <1>2, <1>4, <1>11, <2>1 DEF Ways
<1>12. CASE B = <<>> /\ hits = {} /\ product # None /\ RunningAs(es, X) = {}
  <2>1. xs = es \cup {BareRow(Bare(X, product), proc.pid)}
    BY <1>6, <1>1, <1>12
  <2> QED
    BY <1>6, <1>12, <2>1 DEF Ways
<1> QED
  BY <1>6, <1>7, <1>8, <1>9, <1>10, <1>11, <1>12 DEF Ways

(* One process keeps the rows that are there; one of a bundle has a row    *)
(* after it.                                                               *)
LEMMA CorrelateKeeps ==
  ASSUME NEW es, AreRows(es), NEW proc, NEW index, NEW h,
         NEW exe, exe = Executable(proc, index, h.links),
         NEW b, b = EnclosingAppPath(exe),
         NEW xs, xs = Correlate(es, proc, index, h)
  PROVE  /\ AreRows(xs)
         /\ \A e \in es : \E x \in xs : Same(e, x)
         /\ \A x \in xs : \/ \E e \in es : Same(e, x)
                          \/ OfBundle(es, x, exe, h)
                          \/ ~x.installed /\ x.keys = {}
         /\ b # <<>> => At(xs, b) # {}
<1>1. \A e : Same(e, e)
  BY DEF Same
<1>2. CASE Marks(es, xs) /\ (b # <<>> => At(es, b) # {})
  <2>1. SameRows(es, xs)
    BY <1>2, MarksSame
  <2> QED
    BY <1>2, <2>1 DEF SameRows, AreRows, At, Same
<1>3. CASE b # <<>> /\ At(es, b) = {}
           /\ \E pid : xs = es \cup {BundleRow(Found(exe, h), b, pid)}
  <2>1. PICK pid : xs = es \cup {BundleRow(Found(exe, h), b, pid)}
    BY <1>3
  <2>2. PICK y : y = BundleRow(Found(exe, h), b, pid)
    OBVIOUS
  <2>3. xs = es \cup {y}
    BY <2>1, <2>2
  <2>4. /\ IsRow(y) /\ y.app = Found(exe, h) /\ y.product = Found(exe, h).product
        /\ y.installed /\ y.keys = {b}
    BY <2>2, BundleRowIs
  <2>5. OfBundle(es, y, exe, h)
    BY <1>3, <2>4 DEF OfBundle
  <2> QED
    BY <1>1, <2>3, <2>4, <2>5 DEF AreRows, At
<1>4. CASE b = <<>> /\ xs = es
  BY <1>1, <1>4
<1>5. CASE b = <<>> /\ \E app, pid : xs = es \cup {BareRow(app, pid)}
  <2>1. PICK app, pid : xs = es \cup {BareRow(app, pid)}
    BY <1>5
  <2>2. PICK y : y = BareRow(app, pid)
    OBVIOUS
  <2>3. xs = es \cup {y}
    BY <2>1, <2>2
  <2>4. IsRow(y) /\ ~y.installed /\ y.keys = {}
    BY <2>2, BareRowIs
  <2> QED
    BY <1>1, <1>5, <2>3, <2>4 DEF AreRows
<1>6. Ways(es, xs, b, exe, h)
  BY CorrelateWays
<1> QED
  BY <1>2, <1>3, <1>4, <1>5, <1>6 DEF Ways

(* The listing of the processes is gone through one by one.                *)
Correlates(es, procs, index, h, f, n) ==
  /\ f = [i \in 0 .. n |-> f[i]] /\ f[0] = es
  /\ \A i \in 1 .. n : f[i] = Correlate(f[i - 1], procs[i], index, h)

(* There is such a sequence of rows.                                       *)
LEMMA SomeCorrelates ==
  ASSUME NEW es, NEW procs, NEW index, NEW h, NEW m \in Nat
  PROVE  \E f : Correlates(es, procs, index, h, f, m)
<1>1. PICK S : S = {n \in 0 .. m : \E f : Correlates(es, procs, index, h, f, n)}
  OBVIOUS
<1>2. 0 \in S
  <2>1. PICK f : f = [i \in 0 .. 0 |-> es]
    OBVIOUS
  <2>2. Correlates(es, procs, index, h, f, 0)
    BY <2>1 DEF Correlates
  <2> QED
    BY <1>1, <2>2
<1>3. ASSUME NEW n \in 1 .. m, n - 1 \in S PROVE n \in S
  <2>1. PICK g : Correlates(es, procs, index, h, g, n - 1)
    BY <1>1, <1>3
  <2>2. PICK f : f = [i \in 0 .. n |-> IF i = n THEN Correlate(g[n - 1], procs[n], index, h) ELSE g[i]]
    OBVIOUS
  <2>3. \A i \in 0 .. n : f[i] = IF i = n THEN Correlate(g[n - 1], procs[n], index, h) ELSE g[i]
    BY <2>2
  <2>4. f = [i \in 0 .. n |-> f[i]]
    BY <2>2
  <2>5. f[0] = es
    <3>1. 0 \in 0 .. n /\ 0 # n
      OBVIOUS
    <3>2. g[0] = es
      BY <2>1 DEF Correlates
    <3> QED
      BY <2>3, <3>1, <3>2
  <2>6. ASSUME NEW i \in 1 .. n PROVE f[i] = Correlate(f[i - 1], procs[i], index, h)
    <3>1. f[i - 1] = g[i - 1]
      BY <2>3
    <3>2. CASE i = n
      BY <2>3, <3>1, <3>2
    <3>3. CASE i # n
      <4>1. i \in 1 .. n - 1 /\ i \in 0 .. n
        BY <3>3
      <4>2. g[i] = Correlate(g[i - 1], procs[i], index, h)
        BY <2>1, <4>1 DEF Correlates
      <4>3. f[i] = g[i]
        BY <2>3, <3>3, <4>1
      <4> QED
        BY <3>1, <4>2, <4>3
    <3> QED
      BY <3>2, <3>3
  <2>7. Correlates(es, procs, index, h, f, n)
    BY <2>4, <2>5, <2>6 DEF Correlates
  <2> QED
    BY <1>1, <2>7
<1> QED
  BY <1>1, <1>2, <1>3, UpTo

(* The reading of the processes is the last of it.                         *)
LEMMA ProcessesAre ==
  ASSUME NEW es, NEW procs, Len(procs) \in Nat, NEW index, NEW h
  PROVE  \E f : /\ Correlates(es, procs, index, h, f, Len(procs))
                /\ WithProcesses(es, procs, index, h) = f[Len(procs)]
<1>1. PICK g : Correlates(es, procs, index, h, g, Len(procs))
  BY SomeCorrelates
<1>2. g = [i \in 0 .. Len(procs) |->
             IF i = 0 THEN es ELSE Correlate(g[i - 1], procs[i], index, h)]
  BY <1>1 DEF Correlates
<1>3. PICK f : /\ f = (CHOOSE t : t = [i \in 0 .. Len(procs) |->
                         IF i = 0 THEN es ELSE Correlate(t[i - 1], procs[i], index, h)])
               /\ WithProcesses(es, procs, index, h) = f[Len(procs)]
  BY DEF WithProcesses
<1>4. f = [i \in 0 .. Len(procs) |->
             IF i = 0 THEN es ELSE Correlate(f[i - 1], procs[i], index, h)]
  BY <1>2, <1>3
<1>5. \A i \in 0 .. Len(procs) :
        f[i] = IF i = 0 THEN es ELSE Correlate(f[i - 1], procs[i], index, h)
  BY <1>4
<1>6. f = [i \in 0 .. Len(procs) |-> f[i]]
  BY <1>4
<1>7. Correlates(es, procs, index, h, f, Len(procs))
  BY <1>5, <1>6 DEF Correlates
<1> QED
  BY <1>3, <1>7

(* A running bundle that has no row when the processes are read.           *)
Unlisted(es, x, procs, index, h) ==
  \E p \in Range(procs) :
    LET exe == Executable(p, index, h.links)
    IN /\ EnclosingAppPath(exe) # <<>> /\ At(es, EnclosingAppPath(exe)) = {}
       /\ x.app = Found(exe, h) /\ x.product = Found(exe, h).product

(* Rows stay, and what is installed of the new ones are bundles that run.  *)
LEMMA ProcessesKeep ==
  ASSUME NEW es, AreRows(es), NEW procs, NEW index, NEW h,
         procs \in Seq(Range(procs)), NEW ys, ys = WithProcesses(es, procs, index, h)
  PROVE  /\ AreRows(ys)
         /\ \A e \in es : \E x \in ys : Same(e, x)
         /\ \A x \in ys : x.installed => (\E e \in es : Same(e, x)) \/ Unlisted(es, x, procs, index, h)
<1> DEFINE n == Len(procs)
<1> DEFINE Carried(xs) ==
      /\ AreRows(xs)
      /\ \A e \in es : \E x \in xs : Same(e, x)
      /\ \A x \in xs : x.installed => (\E e \in es : Same(e, x)) \/ Unlisted(es, x, procs, index, h)
<1>1. n \in Nat /\ \A i \in 1 .. n : procs[i] \in Range(procs)
  BY LenProperties, ElementOfSeq
<1>2. PICK f : Correlates(es, procs, index, h, f, n) /\ ys = f[n]
  BY <1>1, ProcessesAre
<1>3. PICK S : S = {i \in 0 .. n : Carried(f[i])}
  OBVIOUS
<1>4. 0 \in S
  BY <1>2, <1>3, <1>1 DEF Correlates, Same
<1>5. ASSUME NEW i \in 1 .. n, i - 1 \in S PROVE i \in S
  <2>1. PICK xs : xs = f[i - 1] /\ Carried(xs)
    BY <1>3, <1>5
  <2>2. PICK p \in Range(procs) : p = procs[i]
    BY <1>1
  <2>3. PICK exe, b : exe = Executable(p, index, h.links) /\ b = EnclosingAppPath(exe)
    OBVIOUS
  <2>4. PICK zs : zs = f[i] /\ zs = Correlate(xs, p, index, h)
    BY <1>2, <2>1, <2>2 DEF Correlates
  <2>5. /\ AreRows(zs)
        /\ \A e \in xs : \E x \in zs : Same(e, x)
        /\ \A x \in zs : \/ \E e \in xs : Same(e, x)
                         \/ OfBundle(xs, x, exe, h)
                         \/ ~x.installed /\ x.keys = {}
    BY <2>1, <2>3, <2>4, CorrelateKeeps
  <2>6. \A e \in es : \E x \in zs : Same(e, x)
    BY <2>1, <2>5 DEF Same
  <2>7. ASSUME NEW x \in zs, x.installed
        PROVE  (\E e \in es : Same(e, x)) \/ Unlisted(es, x, procs, index, h)
    <3>1. CASE \E e \in xs : Same(e, x)
      <4>1. PICK e \in xs : Same(e, x)
        BY <3>1
      <4>2. (\E d \in es : Same(d, e)) \/ Unlisted(es, e, procs, index, h)
        BY <2>1, <2>7, <4>1 DEF Same
      <4> QED
        BY <4>1, <4>2 DEF Same, Unlisted
    <3>2. CASE OfBundle(xs, x, exe, h)
      <4>1. At(es, b) = {}
        BY <2>1, <2>3, <3>2 DEF OfBundle, At, Same
      <4> QED
        BY <2>2, <2>3, <3>2, <4>1 DEF OfBundle, Unlisted
    <3> QED
      BY <2>5, <2>7, <3>1, <3>2
  <2>8. Carried(f[i])
    BY <2>4, <2>5, <2>6, <2>7
  <2>9. i \in 0 .. n
    BY <1>1
  <2> HIDE DEF Carried, n
  <2> QED
    BY <1>3, <2>8, <2>9
<1> HIDE DEF Carried, n
<1>6. 0 .. n \subseteq S
  BY <1>4, <1>5, <1>1, UpTo
<1>7. n \in S
  BY <1>6, <1>1
<1>8. Carried(ys)
  BY <1>2, <1>3, <1>7
<1> QED
  BY <1>8 DEF Carried

(* A bundle that can be read gets its row, if it has none and it runs.     *)
LEMMA ProcessesFind ==
  ASSUME NEW es, AreRows(es), NEW procs, NEW index, NEW h,
         procs \in Seq(Range(procs)), NEW ys, ys = WithProcesses(es, procs, index, h),
         NEW p \in Range(procs), NEW b, b = EnclosingAppPath(Executable(p, index, h.links)),
         b # <<>>, b \in DOMAIN h.bundleAt, At(es, b) = {}
  PROVE  \E x \in ys : x.installed /\ x.app = h.bundleAt[b] /\ x.product = h.bundleAt[b].product
<1> DEFINE n == Len(procs)
<1> DEFINE good(x) == x.installed /\ x.app = h.bundleAt[b] /\ x.product = h.bundleAt[b].product
<1>1. n \in Nat /\ DOMAIN procs = 1 .. n /\ \A i \in 1 .. n : procs[i] \in Range(procs)
  BY LenProperties, ElementOfSeq
<1>2. PICK k \in 1 .. n : procs[k] = p
  BY <1>1 DEF Range
<1>3. PICK f : Correlates(es, procs, index, h, f, n) /\ ys = f[n]
  BY <1>1, ProcessesAre
<1> DEFINE Made(i) == /\ AreRows(f[i])
                      /\ \A x \in f[i] : b \in x.keys => good(x)
                      /\ i >= k => At(f[i], b) # {}
<1>4. PICK S : S = {i \in 0 .. n : Made(i)}
  OBVIOUS
<1>5. 0 \in S
  BY <1>3, <1>4, <1>1 DEF Correlates, At
<1>6. ASSUME NEW i \in 1 .. n, i - 1 \in S PROVE i \in S
  <2>1. PICK xs : /\ xs = f[i - 1] /\ AreRows(xs)
                  /\ \A x \in xs : b \in x.keys => good(x)
                  /\ i - 1 >= k => At(xs, b) # {}
    BY <1>4, <1>6
  <2>2. PICK q : q = procs[i]
    OBVIOUS
  <2>3. PICK exe, c : exe = Executable(q, index, h.links) /\ c = EnclosingAppPath(exe)
    OBVIOUS
  <2>4. PICK zs : zs = f[i] /\ zs = Correlate(xs, q, index, h)
    BY <1>3, <2>1, <2>2 DEF Correlates
  <2>5. /\ AreRows(zs)
        /\ \A e \in xs : \E x \in zs : Same(e, x)
        /\ \A x \in zs : \/ \E e \in xs : Same(e, x)
                         \/ OfBundle(xs, x, exe, h)
                         \/ ~x.installed /\ x.keys = {}
        /\ c # <<>> => At(zs, c) # {}
    BY <2>1, <2>3, <2>4, CorrelateKeeps
  <2>6. ASSUME NEW x \in zs, b \in x.keys PROVE good(x)
    <3>1. CASE \E e \in xs : Same(e, x)
      BY <2>1, <2>6, <3>1 DEF Same
    <3>2. CASE OfBundle(xs, x, exe, h)
      <4>1. c = b /\ x.installed /\ x.app = Found(exe, h) /\ x.product = Found(exe, h).product
        BY <2>3, <2>6, <3>2 DEF OfBundle
      <4>2. Found(exe, h) = h.bundleAt[b]
        BY <2>3, <4>1 DEF Found
      <4> QED
        BY <4>1, <4>2
    <3> QED
      BY <2>5, <2>6, <3>1, <3>2
  <2>7. ASSUME i >= k PROVE At(zs, b) # {}
    <3>1. CASE i = k
      BY <1>2, <2>2, <2>3, <2>5, <3>1
    <3>2. CASE i # k
      <4>1. i - 1 >= k
        BY <2>7, <3>2
      <4> QED
        BY <2>1, <2>5, <4>1 DEF At, Same
    <3> QED
      BY <3>1, <3>2
  <2>8. Made(i)
    BY <2>4, <2>5, <2>6, <2>7
  <2>9. i \in 0 .. n
    BY <1>1
  <2> HIDE DEF Made, n
  <2> QED
    BY <1>4, <2>8, <2>9
<1>7. n >= k
  BY <1>1
<1> HIDE DEF Made, n
<1>8. 0 .. n \subseteq S
  BY <1>5, <1>6, <1>1, UpTo
<1>9. n \in S
  BY <1>8, <1>1
<1>10. Made(n)
  BY <1>4, <1>9
<1>11. At(ys, b) # {} /\ \A x \in ys : b \in x.keys => good(x)
  BY <1>3, <1>7, <1>10 DEF Made
<1> QED
  BY <1>11 DEF At

(* The rows of the disk are of its apps, under some of their keys.         *)
OfApps(e, r) ==
  /\ IsRow(e) /\ e.installed /\ e.keys # {} /\ e.app \in Range(r.apps)
  /\ e.keys \subseteq KeysOf(e.app)

(* A row of the map is a new one, or one that was there under keys it had. *)
LEMMA IndexIs ==
  ASSUME NEW es, AreRows(es), NEW new, NEW x \in Index(es, new)
  PROVE  \/ x \in new
         \/ \E e \in es : /\ IsRow(x) /\ x.app = e.app /\ x.product = e.product
                          /\ x.installed = e.installed /\ x.keys \subseteq e.keys /\ x.keys # {}
<1>1. PICK taken :
        Index(es, new) = {z \in {[e EXCEPT !.keys = e.keys \ taken] : e \in es} : z.keys # {}} \cup new
  BY DEF Index
<1>2. ASSUME x \notin new
      PROVE  \E e \in es : x = [e EXCEPT !.keys = e.keys \ taken] /\ x.keys # {}
  BY <1>1, <1>2
<1>3. ASSUME NEW e \in es, x = [e EXCEPT !.keys = e.keys \ taken]
      PROVE  /\ IsRow(x) /\ x.app = e.app /\ x.product = e.product
             /\ x.installed = e.installed /\ x.keys \subseteq e.keys
  BY <1>3 DEF AreRows, IsRow
<1> QED
  BY <1>2, <1>3

Puts(r, parts, f, n) ==
  /\ f = [i \in 0 .. n |-> f[i]] /\ f[0] = {}
  /\ \A i \in 1 .. n :
       f[i] = IF r.apps[i].part \in parts THEN Index(f[i - 1], {Entry(r.apps[i], TRUE)})
              ELSE f[i - 1]

(* There is such a sequence of rows.                                       *)
LEMMA SomePuts ==
  ASSUME NEW r, NEW parts, NEW m \in Nat
  PROVE  \E f : Puts(r, parts, f, m)
<1> DEFINE put(es, app) == IF app.part \in parts THEN Index(es, {Entry(app, TRUE)}) ELSE es
<1>1. PICK S : S = {n \in 0 .. m : \E f : Puts(r, parts, f, n)}
  OBVIOUS
<1>2. 0 \in S
  <2>1. PICK f : f = [i \in 0 .. 0 |-> {}]
    OBVIOUS
  <2>2. Puts(r, parts, f, 0)
    BY <2>1 DEF Puts
  <2> QED
    BY <1>1, <2>2
<1>3. ASSUME NEW n \in 1 .. m, n - 1 \in S PROVE n \in S
  <2>1. PICK g : Puts(r, parts, g, n - 1)
    BY <1>1, <1>3
  <2>2. g[0] = {} /\ \A i \in 1 .. n - 1 : g[i] = put(g[i - 1], r.apps[i])
    BY <2>1 DEF Puts
  <2> HIDE DEF put
  <2>3. PICK f : f = [i \in 0 .. n |-> IF i = n THEN put(g[n - 1], r.apps[n]) ELSE g[i]]
    OBVIOUS
  <2>4. \A i \in 0 .. n : f[i] = IF i = n THEN put(g[n - 1], r.apps[n]) ELSE g[i]
    BY <2>3
  <2>5. f = [i \in 0 .. n |-> f[i]]
    BY <2>3
  <2>6. f[0] = {}
    <3>1. 0 \in 0 .. n /\ 0 # n
      OBVIOUS
    <3> QED
      BY <2>2, <2>4, <3>1
  <2>7. ASSUME NEW i \in 1 .. n PROVE f[i] = put(f[i - 1], r.apps[i])
    <3>1. f[i - 1] = g[i - 1]
      BY <2>4
    <3>2. CASE i = n
      BY <2>4, <3>1, <3>2
    <3>3. CASE i # n
      <4>1. i \in 1 .. n - 1 /\ i \in 0 .. n
        BY <3>3
      <4>2. f[i] = g[i]
        BY <2>4, <3>3, <4>1
      <4> QED
        BY <2>2, <3>1, <4>1, <4>2
    <3> QED
      BY <3>2, <3>3
  <2>8. Puts(r, parts, f, n)
    BY <2>5, <2>6, <2>7 DEF Puts, put
  <2> QED
    BY <1>1, <2>8
<1> QED
  BY <1>1, <1>2, <1>3, UpTo

(* The discovery gives the last of it.                                     *)
LEMMA InstalledIs ==
  ASSUME NEW r, NEW parts, Len(r.apps) \in Nat
  PROVE  \E f : Puts(r, parts, f, Len(r.apps)) /\ Installed(r, parts) = f[Len(r.apps)]
<1> DEFINE put(es, app) == IF app.part \in parts THEN Index(es, {Entry(app, TRUE)}) ELSE es
<1>1. PICK g : Puts(r, parts, g, Len(r.apps))
  BY SomePuts
<1>2. g = [i \in 0 .. Len(r.apps) |-> IF i = 0 THEN {} ELSE put(g[i - 1], r.apps[i])]
  BY <1>1 DEF Puts
<1>3. PICK f : /\ f = (CHOOSE t : t = [i \in 0 .. Len(r.apps) |->
                         IF i = 0 THEN {} ELSE put(t[i - 1], r.apps[i])])
               /\ Installed(r, parts) = f[Len(r.apps)]
  BY DEF Installed
<1> HIDE DEF put
<1>4. f = [i \in 0 .. Len(r.apps) |-> IF i = 0 THEN {} ELSE put(f[i - 1], r.apps[i])]
  BY <1>2, <1>3
<1>5. \A i \in 0 .. Len(r.apps) : f[i] = IF i = 0 THEN {} ELSE put(f[i - 1], r.apps[i])
  BY <1>4
<1>6. f = [i \in 0 .. Len(r.apps) |-> f[i]]
  BY <1>4
<1>7. f[0] = {} /\ \A i \in 1 .. Len(r.apps) : f[i] = put(f[i - 1], r.apps[i])
  BY <1>5
<1>8. Puts(r, parts, f, Len(r.apps))
  BY <1>6, <1>7 DEF Puts, put
<1> QED
  BY <1>3, <1>8

(* So its rows are of the apps on the disk.                                *)
LEMMA InstalledOfApps ==
  ASSUME NEW r, r.apps \in Seq(Range(r.apps)), \A app \in Range(r.apps) : app.path # <<>>,
         NEW parts
  PROVE  \A e \in Installed(r, parts) : OfApps(e, r)
<1> DEFINE n == Len(r.apps)
<1>1. n \in Nat /\ \A i \in 1 .. n : r.apps[i] \in Range(r.apps)
  BY LenProperties, ElementOfSeq
<1>2. PICK f : Puts(r, parts, f, n) /\ Installed(r, parts) = f[n]
  BY <1>1, InstalledIs
<1>3. PICK S : S = {i \in 0 .. n : \A e \in f[i] : OfApps(e, r)}
  OBVIOUS
<1>4. 0 \in S
  BY <1>2, <1>3, <1>1 DEF Puts
<1>5. ASSUME NEW i \in 1 .. n, i - 1 \in S PROVE i \in S
  <2>1. PICK es : es = f[i - 1] /\ \A e \in es : OfApps(e, r)
    BY <1>3, <1>5
  <2>2. PICK app \in Range(r.apps) : app = r.apps[i]
    BY <1>1
  <2>3. PICK y : y = Entry(app, TRUE)
    OBVIOUS
  <2>4. OfApps(y, r)
    BY <2>2, <2>3 DEF Entry, OfApps, IsRow, KeysOf
  <2>5. f[i] = Index(es, {y}) \/ f[i] = es
    BY <1>2, <2>1, <2>2, <2>3 DEF Puts
  <2>6. AreRows(es)
    BY <2>1 DEF AreRows, OfApps
  <2>7. \A x \in Index(es, {y}) : OfApps(x, r)
    BY <2>1, <2>4, <2>6, IndexIs DEF OfApps
  <2>8. \A x \in f[i] : OfApps(x, r)
    BY <2>1, <2>5, <2>7
  <2>9. i \in 0 .. n
    BY <1>1
  <2> QED
    BY <1>3, <2>8, <2>9
<1> HIDE DEF n
<1>6. 0 .. n \subseteq S
  BY <1>4, <1>5, <1>1, UpTo
<1>7. n \in S
  BY <1>6, <1>1
<1> QED
  BY <1>2, <1>3, <1>7

(* Extensions have rows of their own, under their folders.                 *)
OfExtensions(e, r, hosts) ==
  /\ IsRow(e) /\ e.installed /\ e.keys = {e.app.path} /\ e.product = e.app.product
  /\ e.product # None /\ \E ed \in hosts : e.app \in r.extensions[ed]

ExtensionIds(r, hosts) ==
  {<<x.product.id, x.path>> :
     x \in {y \in UNION {r.extensions[ed] : ed \in hosts} : y.product # None}}

AllExtensions(new, r, hosts) ==
  /\ \A y \in new : OfExtensions(y, r, hosts)
  /\ \A ed \in hosts : \A x \in r.extensions[ed] : x.product # None => \E y \in new : y.app = x

(* attachIDEExtensions has rows for all the extensions it knows, and no    *)
(* others.                                                                 *)
LEMMA ExtensionsAre ==
  ASSUME NEW es, NEW r, NEW pick
  PROVE  \E new : WithExtensions(es, r, pick) = Index(es, new) /\ AllExtensions(new, r, DOMAIN pick)
<1> DEFINE row(app, ed) ==
      [Entry(app, TRUE) EXCEPT !.host = ed, !.hostPath = pick[ed], !.keys = {app.path},
         !.enabled = Enabled(app.id, r.disabled[ed])]
<1> DEFINE known(ed) == {e \in {row(app, ed) : app \in r.extensions[ed]} : e.product # None}
<1>1. WithExtensions(es, r, pick) = Index(es, UNION {known(ed) : ed \in DOMAIN pick})
  BY DEF WithExtensions
<1>2. ASSUME NEW ed \in DOMAIN pick, NEW app \in r.extensions[ed]
      PROVE  LET y == row(app, ed)
             IN /\ IsRow(y) /\ y.installed /\ y.keys = {app.path} /\ y.product = app.product
                /\ y.app = app
  BY DEF Entry, IsRow
<1> HIDE DEF row
<1>3. PICK new : new = UNION {known(ed) : ed \in DOMAIN pick}
  OBVIOUS
<1>4. \A y \in new : OfExtensions(y, r, DOMAIN pick)
  <2> SUFFICES ASSUME NEW y \in new PROVE OfExtensions(y, r, DOMAIN pick)
    OBVIOUS
  <2>1. PICK ed \in DOMAIN pick : y \in known(ed)
    BY <1>3
  <2>2. PICK app \in r.extensions[ed] : y = row(app, ed) /\ y.product # None
    BY <2>1
  <2> QED
    BY <1>2, <2>1, <2>2 DEF OfExtensions
<1>5. ASSUME NEW ed \in DOMAIN pick, NEW x \in r.extensions[ed], x.product # None
      PROVE  \E y \in new : y.app = x
  <2>1. PICK y : y = row(x, ed) /\ y.app = x /\ y.product # None
    BY <1>2, <1>5
  <2>2. y \in known(ed)
    BY <2>1
  <2> QED
    BY <1>3, <2>1, <2>2
<1> QED
  BY <1>1, <1>3, <1>4, <1>5 DEF AllExtensions

(* attachAgentSkills.                                                      *)
LEMMA SkillsSame ==
  ASSUME NEW es, AreRows(es), NEW r
  PROVE  SameRows(es, WithSkills(es, r))
<1>1. ASSUME NEW e, IsRow(e), NEW x, x = e \/ \E s : x = [e EXCEPT !.skills = s]
      PROVE  IsRow(x) /\ Same(e, x)
  BY <1>1 DEF IsRow, Same
<1>2. \A x \in WithSkills(es, r) : \E e \in es : x = e \/ \E s : x = [e EXCEPT !.skills = s]
  BY Zenon DEF WithSkills
<1>3. \A e \in es : \E x \in WithSkills(es, r) : x = e \/ \E s : x = [e EXCEPT !.skills = s]
  BY Zenon DEF WithSkills
<1> QED
  BY <1>1, <1>2, <1>3 DEF SameRows, AreRows

EditorsOf(es) == {e.product.id : e \in {x \in es : IsEditor(x)}}

(* A choice is of the editors that are there.                              *)
LEMMA ChoicesAre ==
  ASSUME NEW es, NEW pick \in HostChoices(es)
  PROVE  DOMAIN pick = EditorsOf(es) /\ EditorsOf(es) \subseteq Editors
<1>1. DOMAIN pick = EditorsOf(es)
  BY DEF HostChoices, EditorsOf
<1>2. EditorsOf(es) \subseteq Editors
  BY DEF EditorsOf, IsEditor
<1> QED
  BY <1>1, <1>2

(* What a row of the disk is.                                              *)
OfDisk(e, r) == OfApps(e, r) \/ OfExtensions(e, r, Editors)

(* The rows of the disk are those of apps and of extensions.               *)
LEMMA OnDiskOfDisk ==
  ASSUME NEW r, r.apps \in Seq(Range(r.apps)), \A app \in Range(r.apps) : app.path # <<>>,
         NEW parts, NEW pick \in HostChoices(Installed(r, parts))
  PROVE  AreRows(OnDisk(r, parts, pick)) /\ \A x \in OnDisk(r, parts, pick) : OfDisk(x, r)
<1>1. PICK es : es = Installed(r, parts) /\ \A e \in es : OfApps(e, r)
  BY InstalledOfApps
<1>2. PICK new : WithExtensions(es, r, pick) = Index(es, new) /\ AllExtensions(new, r, DOMAIN pick)
  BY ExtensionsAre
<1>3. \A y \in new : OfExtensions(y, r, DOMAIN pick)
  BY <1>2 DEF AllExtensions
<1>4. DOMAIN pick \subseteq Editors
  BY <1>1, ChoicesAre
<1>5. AreRows(es)
  BY <1>1 DEF AreRows, OfApps
<1>6. PICK zs : zs = WithExtensions(es, r, pick)
  OBVIOUS
<1>7. \A z \in zs : OfDisk(z, r)
  BY <1>1, <1>2, <1>4, <1>5, <1>6, <1>3, IndexIs DEF OfDisk, OfApps, OfExtensions
<1>8. AreRows(zs)
  BY <1>7 DEF AreRows, OfDisk, OfApps, OfExtensions
<1>9. PICK xs : xs = OnDisk(r, parts, pick) /\ SameRows(zs, xs)
  BY <1>1, <1>6, <1>8, SkillsSame DEF OnDisk
<1>10. ASSUME NEW z, OfDisk(z, r), NEW x, Same(z, x), IsRow(x) PROVE OfDisk(x, r)
  BY <1>10 DEF OfDisk, OfApps, OfExtensions, Same
<1>11. \A x \in xs : OfDisk(x, r)
  BY <1>7, <1>9, <1>10 DEF SameRows
<1> QED
  BY <1>9, <1>11 DEF SameRows, AreRows

(* What is told of the disk, when extensions have folders of their own: of *)
(* the choice of a host for each editor it does not depend.                *)
LEMMA OnDiskTells ==
  ASSUME NEW r, r.apps \in Seq(Range(r.apps)), \A app \in Range(r.apps) : app.path # <<>>,
         \A e \in Editors : \A x \in r.extensions[e], app \in Range(r.apps) : x.path \notin KeysOf(app),
         NEW parts, NEW es, es = Installed(r, parts), NEW pick \in HostChoices(es)
  PROVE  ToldIds(OnDisk(r, parts, pick)) = ToldIds(es) \cup ExtensionIds(r, EditorsOf(es))
<1>1. AreRows(es) /\ \A e \in es : OfApps(e, r)
  BY InstalledOfApps DEF AreRows, OfApps
<1>2. PICK new : WithExtensions(es, r, pick) = Index(es, new) /\ AllExtensions(new, r, DOMAIN pick)
  BY ExtensionsAre
<1>3. /\ \A y \in new : OfExtensions(y, r, DOMAIN pick)
      /\ \A ed \in DOMAIN pick : \A x \in r.extensions[ed] :
           x.product # None => \E y \in new : y.app = x
  BY <1>2 DEF AllExtensions
<1>4. DOMAIN pick = EditorsOf(es) /\ EditorsOf(es) \subseteq Editors
  BY ChoicesAre
<1>5. PICK taken : taken = UNION {y.keys : y \in new}
  OBVIOUS
<1>6. PICK zs : zs = WithExtensions(es, r, pick)
  OBVIOUS
<1>7. zs = {z \in {[e EXCEPT !.keys = e.keys \ taken] : e \in es} : z.keys # {}} \cup new
  BY <1>2, <1>5, <1>6 DEF Index
<1>8. ASSUME NEW e \in es
      PROVE  LET z == [e EXCEPT !.keys = e.keys \ taken] IN z \in zs /\ Same(e, z)
  <2>1. e.keys \cap taken = {}
    BY <1>1, <1>3, <1>4, <1>5 DEF OfApps, OfExtensions
  <2>2. e.keys \ taken = e.keys /\ e.keys # {} /\ IsRow(e)
    BY <1>1, <2>1 DEF OfApps
  <2>3. PICK z : z = [e EXCEPT !.keys = e.keys \ taken]
    OBVIOUS
  <2>4. Same(e, z) /\ z.keys # {}
    BY <2>2, <2>3 DEF Same, IsRow
  <2>5. z \in zs
    BY <1>7, <2>3, <2>4
  <2> QED
    BY <2>3, <2>4, <2>5
<1>9. \A z \in zs : z \in new \/ \E e \in es : Same(e, z)
  BY <1>7, <1>8
<1>10. \A e \in es : \E z \in zs : Same(e, z)
  BY <1>8
<1>11. new \subseteq zs
  BY <1>7
<1>12. ToldIds(es) \subseteq ToldIds(zs)
  BY <1>10 DEF ToldIds, IdOf, Same
<1>13. ToldIds(new) = ExtensionIds(r, EditorsOf(es))
  <2>1. \A y \in new : y.product = y.app.product /\ y.product # None /\ y.installed
    BY <1>3 DEF OfExtensions
  <2>2. ToldIds(new) \subseteq ExtensionIds(r, EditorsOf(es))
    BY <1>3, <1>4 DEF ToldIds, IdOf, ExtensionIds, OfExtensions
  <2>3. ExtensionIds(r, EditorsOf(es)) \subseteq ToldIds(new)
    <3> SUFFICES ASSUME NEW id \in ExtensionIds(r, EditorsOf(es)) PROVE id \in ToldIds(new)
      OBVIOUS
    <3>1. PICK x \in UNION {r.extensions[ed] : ed \in EditorsOf(es)} :
            x.product # None /\ id = <<x.product.id, x.path>>
      BY DEF ExtensionIds
    <3>2. PICK ed \in EditorsOf(es) : x \in r.extensions[ed]
      OBVIOUS
    <3>3. PICK y \in new : y.app = x
      BY <1>3, <1>4, <3>1, <3>2
    <3> QED
      BY <2>1, <3>1, <3>3 DEF ToldIds, IdOf
  <2> QED
    BY <2>2, <2>3
<1>14. ToldIds(zs) = ToldIds(es) \cup ToldIds(new)
  <2>1. ToldIds(new) \subseteq ToldIds(zs)
    BY <1>11 DEF ToldIds
  <2>2. ToldIds(zs) \subseteq ToldIds(es) \cup ToldIds(new)
    BY <1>9 DEF ToldIds, IdOf, Same
  <2> QED
    BY <1>12, <2>1, <2>2
<1>15. AreRows(zs)
  <2>1. \A z \in new : IsRow(z)
    BY <1>3 DEF OfExtensions
  <2>2. ASSUME NEW e \in es, NEW z, z = [e EXCEPT !.keys = e.keys \ taken] PROVE IsRow(z)
    BY <1>1, <2>2 DEF IsRow, AreRows
  <2> QED
    BY <1>7, <2>1, <2>2 DEF AreRows
<1>16. SameRows(zs, OnDisk(r, parts, pick))
  BY <1>6, <1>15, SkillsSame DEF OnDisk
<1> QED
  BY <1>13, <1>14, <1>15, <1>16, SameIds

(* One reading after another tells what the reading of the processes does. *)
LEMMA CurrentIds ==
  ASSUME NEW es
  PROVE  {a.id : a \in Current(es)} = ToldIds(es)
<1> DEFINE news(e) == [id |-> IdOf(e), payload |-> Payload(e)]
<1>1. Current(es) = {news(e) : e \in {x \in es : x.product # None /\ x.installed}}
  BY DEF Current
<1>2. \A e : news(e).id = IdOf(e)
  OBVIOUS
<1> HIDE DEF news
<1> QED
  BY <1>1, <1>2 DEF ToldIds

(* A pass tells the ids that are told when the processes have been read.   *)
LEMMA PassIds ==
  ASSUME NEW r, NEW id \in Ids(Passes(r)), r.procs \in Seq(Range(r.procs)),
         \A pick \in HostChoices(Installed(r, Parts)) : AreRows(OnDisk(r, Parts, pick))
  PROVE  \E pick \in HostChoices(Installed(r, Parts)) : \E index \in Indexes(OnDisk(r, Parts, pick)) :
           id \in ToldIds(WithProcesses(OnDisk(r, Parts, pick), r.procs, index, r))
<1> DEFINE told1(es, index) == WithProcesses(es, r.procs, index, r)
<1> DEFINE run(es, index) ==
      WithClients(WithListeners(WithExtensionHosts(told1(es, index), r.procs),
                                r.socks, r.containers, r.answer, r), r.conns)
<1> DEFINE done(es) == {Current(WithCapabilities(es, r.mcp, ToolsOf(r.mcp), l)) : l \in LocalChoices(es)}
<1>1. Passes(r) = UNION {UNION {done(run(OnDisk(r, Parts, pick), index)) :
                                  index \in Indexes(OnDisk(r, Parts, pick))} :
                           pick \in HostChoices(Installed(r, Parts))}
  BY DEF Passes
<1>2. ASSUME NEW es, AreRows(es), NEW index
      PROVE  AreRows(run(es, index)) /\ ToldIds(run(es, index)) = ToldIds(told1(es, index))
  <2>1. PICK as : as = told1(es, index) /\ AreRows(as)
    BY <1>2, ProcessesKeep
  <2>2. PICK bs : bs = WithExtensionHosts(as, r.procs) /\ SameRows(as, bs)
    BY <2>1, ExtensionHostsSame
  <2>3. PICK cs : cs = WithListeners(bs, r.socks, r.containers, r.answer, r) /\ SameRows(bs, cs)
    BY <2>1, <2>2, SameIds, ListenersSame
  <2>4. PICK ds : ds = WithClients(cs, r.conns) /\ SameRows(cs, ds)
    BY <2>2, <2>3, SameIds, ClientsSame
  <2>5. SameRows(as, ds)
    BY <2>2, <2>3, <2>4, SameTransitive
  <2>6. ds = run(es, index)
    BY <2>1, <2>2, <2>3, <2>4
  <2> HIDE DEF run, told1
  <2> QED
    BY <2>1, <2>5, <2>6, SameIds
<1> HIDE DEF run, told1
<1>3. PICK inventory \in Passes(r) : id \in {a.id : a \in inventory}
  BY DEF Ids
<1>4. PICK pick \in HostChoices(Installed(r, Parts)) :
        \E index \in Indexes(OnDisk(r, Parts, pick)) : inventory \in done(run(OnDisk(r, Parts, pick), index))
  BY <1>1, <1>3
<1>5. PICK es : es = OnDisk(r, Parts, pick) /\ AreRows(es)
  BY <1>4
<1>6. PICK index \in Indexes(es) : inventory \in done(run(es, index))
  BY <1>4, <1>5
<1>7. PICK ds : ds = run(es, index) /\ AreRows(ds) /\ ToldIds(ds) = ToldIds(told1(es, index))
  BY <1>2, <1>5
<1>8. PICK l : inventory = Current(WithCapabilities(ds, r.mcp, ToolsOf(r.mcp), l))
  BY <1>6, <1>7
<1>9. ToldIds(WithCapabilities(ds, r.mcp, ToolsOf(r.mcp), l)) = ToldIds(ds)
  BY <1>7, CapabilitiesSame, SameIds
<1>10. id \in ToldIds(told1(es, index))
  BY <1>3, <1>7, <1>8, <1>9, CurrentIds
<1> QED
  BY <1>5, <1>6, <1>10 DEF told1

(* A process whose path is known runs what the disk says, whatever the     *)
(* index.                                                                  *)
OnPath(p, links) == IF p.exe \in DOMAIN links THEN links[p.exe] ELSE p.exe

(* The index is asked for bare names only.                                *)
LEMMA ExecutableOnPath ==
  ASSUME NEW p, Len(p.exe) > 1, NEW index, NEW links
  PROVE  Executable(p, index, links) = OnPath(p, links)
<1>1. p.exe # <<>>
  OBVIOUS
<1>2. PICK exe : exe = p.exe
  OBVIOUS
<1> QED
  BY <1>1, <1>2 DEF Executable, OnPath

(* An id that only a running bundle has.                                   *)
RunningBundle(id, r) ==
  \E p \in Range(r.procs) :
    LET b == EnclosingAppPath(OnPath(p, r.links))
    IN /\ Len(p.exe) > 1 /\ b # <<>> /\ b \in DOMAIN r.bundleAt /\ ~Discoverable(b)
       /\ r.bundleAt[b].product # None /\ id = <<r.bundleAt[b].product.id, b>>

Listed(r) ==
  /\ r.apps \in Seq(Range(r.apps)) /\ r.procs \in Seq(Range(r.procs))
  /\ \A app \in Range(r.apps) : app.path # <<>>

(* What a pass over a plain host tells is on the disk or is a running      *)
(* bundle.                                                                 *)
LEMMA PassesFrom ==
  ASSUME NEW r, Listed(r), HostIsPlain(r), NEW id \in Ids(Passes(r))
  PROVE  \/ \E pick \in HostChoices(Installed(r, Parts)) : id \in ToldIds(OnDisk(r, Parts, pick))
         \/ RunningBundle(id, r)
<1>1. \A pick \in HostChoices(Installed(r, Parts)) : AreRows(OnDisk(r, Parts, pick))
  BY OnDiskOfDisk DEF Listed
<1>2. PICK pick \in HostChoices(Installed(r, Parts)) : \E index \in Indexes(OnDisk(r, Parts, pick)) :
        id \in ToldIds(WithProcesses(OnDisk(r, Parts, pick), r.procs, index, r))
  BY <1>1, PassIds DEF Listed
<1>3. PICK es : es = OnDisk(r, Parts, pick) /\ AreRows(es)
  BY <1>1
<1>4. PICK index \in Indexes(es) : id \in ToldIds(WithProcesses(es, r.procs, index, r))
  BY <1>2, <1>3
<1>5. PICK ys : ys = WithProcesses(es, r.procs, index, r)
  OBVIOUS
<1>6. PICK x \in ys : x.product # None /\ x.installed /\ id = IdOf(x)
  BY <1>4, <1>5 DEF ToldIds
<1>7. (\E e \in es : Same(e, x)) \/ Unlisted(es, x, r.procs, index, r)
  BY <1>3, <1>5, <1>6, ProcessesKeep DEF Listed
<1>8. CASE \E e \in es : Same(e, x)
  <2>1. id \in ToldIds(es)
    BY <1>6, <1>8 DEF Same, ToldIds, IdOf
  <2> QED
    BY <1>3, <2>1
<1>9. CASE Unlisted(es, x, r.procs, index, r)
  <2>1. PICK p \in Range(r.procs) :
          LET exe == Executable(p, index, r.links)
          IN /\ EnclosingAppPath(exe) # <<>> /\ At(es, EnclosingAppPath(exe)) = {}
             /\ x.app = Found(exe, r) /\ x.product = Found(exe, r).product
    BY <1>9 DEF Unlisted
  <2>2. PICK exe : exe = Executable(p, index, r.links)
    OBVIOUS
  <2>3. PICK b : b = EnclosingAppPath(exe)
    OBVIOUS
  <2>4. /\ b # <<>> /\ At(es, b) = {} /\ x.app = Found(exe, r) /\ x.product = Found(exe, r).product
    BY <2>1, <2>2, <2>3
  <2>5. IF b \in DOMAIN r.bundleAt THEN Len(p.exe) > 1 ELSE ProductOf[Last(exe)] = None
    BY <1>3, <1>4, <2>2, <2>3, <2>4 DEF HostIsPlain
  <2>6. /\ \A d \in DOMAIN r.bundleAt : r.bundleAt[d].path = d
        /\ b \in DOMAIN r.bundleAt => ~Discoverable(b)
    BY <1>3, <2>4 DEF HostIsPlain
  <2>7. b \in DOMAIN r.bundleAt
    <3> SUFFICES ASSUME b \notin DOMAIN r.bundleAt PROVE FALSE
      OBVIOUS
    <3>1. Found(exe, r).product = None
      BY <2>3, <2>5 DEF Found, Bare
    <3> QED
      BY <1>6, <2>4, <3>1
  <2>8. Found(exe, r) = r.bundleAt[b] /\ exe = OnPath(p, r.links) /\ Len(p.exe) > 1
    BY <2>2, <2>3, <2>5, <2>7, ExecutableOnPath DEF Found
  <2>9. id = <<r.bundleAt[b].product.id, b>> /\ r.bundleAt[b].product # None
    BY <1>6, <2>4, <2>6, <2>7, <2>8 DEF IdOf
  <2>10. RunningBundle(id, r)
    BY <2>3, <2>4, <2>6, <2>7, <2>8, <2>9 DEF RunningBundle
  <2> QED
    BY <2>10
<1> QED
  BY <1>7, <1>8, <1>9

(* What is assumed of the readings.                                        *)
LEMMA ReadingsAreListed == \A h \in Hosts : Listed(Reading[h])
BY AiInventoryAssumption DEF Listed

(* Rows the discovery can give on some host.                               *)
FromDisk(es) ==
  \A e \in es : /\ IsRow(e) /\ e.installed
                /\ \A path \in e.keys \cup {e.app.path} : Discoverable(path)

(* The rows of the disk are such rows.                                     *)
LEMMA DiskIsDiscoverable ==
  ASSUME NEW h \in Hosts, NEW r, r = Reading[h], NEW parts,
         NEW pick \in HostChoices(Installed(r, parts))
  PROVE  FromDisk(OnDisk(r, parts, pick))
<1> SUFFICES ASSUME NEW e \in OnDisk(r, parts, pick)
             PROVE  /\ IsRow(e) /\ e.installed
                    /\ \A path \in e.keys \cup {e.app.path} : Discoverable(path)
  BY DEF FromDisk
<1>1. Listed(r)
  BY ReadingsAreListed
<1>2. OfDisk(e, r)
  BY <1>1, OnDiskOfDisk DEF Listed
<1>3. CASE OfApps(e, r)
  <2>1. e.app \in Range(r.apps) /\ e.app.path \in KeysOf(e.app)
    BY <1>1, <1>3 DEF OfApps, Listed, KeysOf
  <2>2. \A path \in KeysOf(e.app) : Discoverable(path)
    BY <2>1 DEF Discoverable
  <2> QED
    BY <1>3, <2>1, <2>2 DEF OfApps
<1>4. CASE OfExtensions(e, r, Editors)
  <2>1. PICK ed \in Editors : e.app \in r.extensions[ed]
    BY <1>4 DEF OfExtensions
  <2>2. Discoverable(e.app.path)
    BY <2>1 DEF Discoverable
  <2> QED
    BY <1>4, <2>2 DEF OfExtensions
<1> QED
  BY <1>2, <1>3, <1>4 DEF OfDisk

(* What the discovery loses of a pass over the host it reads: what a part  *)
(* that failed would have shown, and bundles that only run.                *)
LEMMA DiscoverTells ==
  ASSUME NEW h \in Hosts, NEW r, r = Reading[h], HostIsPlain(r),
         NEW parts, NEW pick \in HostChoices(Installed(r, parts)),
         NEW mine, mine = OnDisk(r, parts, pick),
         NEW id \in Ids(Passes(r)),
         parts # Parts => id \notin (UNION {IdsOf(OnDisk(r, Parts, k)) :
                                              k \in HostChoices(Installed(r, Parts))}) \ IdsOf(mine)
  PROVE  id \in ToldIds(mine) \/ ~Discoverable(id[2])
<1>1. Listed(r)
  BY ReadingsAreListed
<1>2. \A es : FromDisk(es) => IdsOf(es) = ToldIds(es)
  BY DEF FromDisk, IdsOf, ToldIds
<1>3. CASE RunningBundle(id, r)
  BY <1>3 DEF RunningBundle
<1>4. ASSUME NEW k \in HostChoices(Installed(r, Parts)), id \in ToldIds(OnDisk(r, Parts, k))
      PROVE  id \in ToldIds(mine)
  <2>1. CASE parts = Parts
    <3>1. PICK es : es = Installed(r, Parts)
      OBVIOUS
    <3>2. \A e \in Editors : \A x \in r.extensions[e], app \in Range(r.apps) : x.path \notin KeysOf(app)
      BY DEF HostIsPlain
    <3>3. ToldIds(OnDisk(r, Parts, k)) = ToldIds(es) \cup ExtensionIds(r, EditorsOf(es))
      BY <1>1, <3>1, <3>2, OnDiskTells DEF Listed
    <3>4. ToldIds(OnDisk(r, Parts, pick)) = ToldIds(es) \cup ExtensionIds(r, EditorsOf(es))
      BY <1>1, <2>1, <3>1, <3>2, OnDiskTells DEF Listed
    <3> QED
      BY <1>4, <2>1, <3>3, <3>4
  <2>2. CASE parts # Parts
    <3>1. IdsOf(OnDisk(r, Parts, k)) = ToldIds(OnDisk(r, Parts, k)) /\ IdsOf(mine) = ToldIds(mine)
      BY <1>2, DiskIsDiscoverable
    <3>2. id \in UNION {IdsOf(OnDisk(r, Parts, j)) : j \in HostChoices(Installed(r, Parts))}
      BY <1>4, <3>1, Zenon
    <3>3. id \in IdsOf(mine)
      BY <2>2, <3>2, Zenon
    <3> QED
      BY <3>1, <3>3
  <2> QED
    BY <2>1, <2>2
<1> QED
  BY <1>1, <1>3, <1>4, PassesFrom

(* The reading of the processes finds those again.                         *)
LEMMA ProcessesTell ==
  ASSUME NEW h \in Hosts, NEW r, r = Reading[h], HostIsPlain(r), NEW es, FromDisk(es), NEW index,
         NEW id \in Ids(Passes(r)), id \in ToldIds(es) \/ ~Discoverable(id[2])
  PROVE  id \in ToldIds(WithProcesses(es, r.procs, index, r))
<1>1. Listed(r) /\ AreRows(es)
  BY ReadingsAreListed DEF FromDisk, AreRows
<1>2. PICK ys : ys = WithProcesses(es, r.procs, index, r)
  OBVIOUS
<1>3. CASE id \in ToldIds(es)
  <2>1. \A e \in es : \E x \in ys : Same(e, x)
    BY <1>1, <1>2, ProcessesKeep DEF Listed
  <2> QED
    BY <1>2, <1>3, <2>1 DEF ToldIds, IdOf, Same
<1>4. CASE ~Discoverable(id[2])
  <2>1. ASSUME NEW pick \in HostChoices(Installed(r, Parts)), id \in ToldIds(OnDisk(r, Parts, pick))
        PROVE  FALSE
    <3>1. PICK e \in OnDisk(r, Parts, pick) : id = IdOf(e)
      BY <2>1 DEF ToldIds
    <3>2. Discoverable(e.app.path)
      BY DiskIsDiscoverable DEF FromDisk
    <3> QED
      BY <1>4, <3>1, <3>2 DEF IdOf
  <2>2. RunningBundle(id, r)
    BY <1>1, <2>1, PassesFrom
  <2>3. PICK p \in Range(r.procs) :
          LET b == EnclosingAppPath(OnPath(p, r.links))
          IN /\ Len(p.exe) > 1 /\ b # <<>> /\ b \in DOMAIN r.bundleAt /\ ~Discoverable(b)
             /\ r.bundleAt[b].product # None /\ id = <<r.bundleAt[b].product.id, b>>
    BY <2>2 DEF RunningBundle
  <2>4. PICK b : b = EnclosingAppPath(Executable(p, index, r.links))
    OBVIOUS
  <2>5. b = EnclosingAppPath(OnPath(p, r.links))
    BY <2>3, <2>4, ExecutableOnPath
  <2>6. /\ b # <<>> /\ b \in DOMAIN r.bundleAt /\ ~Discoverable(b)
        /\ r.bundleAt[b].product # None /\ id = <<r.bundleAt[b].product.id, b>>
    BY <2>3, <2>5
  <2>7. At(es, b) = {}
    BY <2>6 DEF FromDisk, At
  <2>8. PICK x \in ys : x.installed /\ x.app = r.bundleAt[b] /\ x.product = r.bundleAt[b].product
    BY <1>1, <1>2, <2>4, <2>6, <2>7, ProcessesFind DEF Listed
  <2>9. r.bundleAt[b].path = b
    BY <2>6 DEF HostIsPlain
  <2> QED
    BY <1>2, <2>6, <2>8, <2>9 DEF ToldIds, IdOf
<1> QED
  BY <1>3, <1>4

(* Where the rows of a poll are those of the discovery, and where they are *)
(* all that its inventory is made of.                                      *)
Early == {"remember", "processes"}
Late == ReadingPlaces \cup {"listeners", "clients", "keep", "use", "key", "store", "attach", "compare"}

(* What a poll at a place holds of the ids that were there all the time.   *)
Holds(place, es, ids) ==
  /\ place \in Early =>
       FromDisk(es) /\ \A id \in ids : id \in ToldIds(es) \/ ~Discoverable(id[2])
  /\ place \in Late => AreRows(es) /\ ids \subseteq ToldIds(es)
Removed(news) == {a.id : a \in {b \in news : b.now = <<>>}}
Explained(place, news, ids) == place = "enqueue" => Removed(news) \cap ids = {}

Functions ==
  /\ pc = [w \in Pollers |-> pc[w]] /\ rows = [w \in Pollers |-> rows[w]]
  /\ steady = [w \in Pollers |-> steady[w]] /\ changes = [w \in Pollers |-> changes[w]]
OfHost == host \in Hosts /\ now = Reading[host] /\ deserved = Passes(now)
Polls ==
  \A w \in Pollers : /\ steady[w] \subseteq Ids(deserved)
                     /\ Holds(pc[w], rows[w], steady[w])
                     /\ Explained(pc[w], changes[w], steady[w])

RemovalsInv == Functions /\ OfHost /\ Polls

(* At the start no poll holds anything.                                    *)
LEMMA InitRemovals == Init => RemovalsInv
<1> SUFFICES ASSUME Init PROVE RemovalsInv
  OBVIOUS
<1>1. Functions /\ OfHost
  BY DEF Init, Functions, OfHost
<1>2. Polls
  BY DEF Init, Polls, Holds, Explained, Early, Late, ReadingPlaces
<1> QED
  BY <1>1, <1>2 DEF RemovalsInv

(* Fewer ids, and fewer changes, ask less.                                 *)
LEMMA HoldsLess ==
  ASSUME NEW place, NEW es, NEW ids, Holds(place, es, ids), NEW less, less \subseteq ids
  PROVE  Holds(place, es, less)
BY DEF Holds

(* And fewer changes remove less.                                          *)
LEMMA ExplainedLess ==
  ASSUME NEW place, NEW news, NEW ids, Explained(place, news, ids),
         NEW less, less \subseteq ids, NEW left, left \subseteq news
  PROVE  Explained(place, left, less)
BY DEF Explained, Removed

(* A change of the host leaves fewer ids that were there all the time.     *)
LEMMA HostChangeKeepsRemovals ==
  ASSUME RemovalsInv, HostChange
  PROVE  RemovalsInv'
<1>1. pc' = pc /\ rows' = rows /\ changes' = changes
  BY DEF HostChange, poll
<1>2. steady' = [w \in Pollers |-> steady[w] \cap Ids(deserved')]
  BY DEF HostChange
<1>3. Functions'
  BY <1>1, <1>2 DEF RemovalsInv, Functions
<1>4. OfHost'
  <2>1. host' \in Near[host] /\ now' = Reading[host'] /\ deserved' = Passes(now')
    BY DEF HostChange
  <2>2. host' \in Hosts
    BY <2>1, AiInventoryAssumption DEF RemovalsInv, OfHost
  <2> QED
    BY <2>1, <2>2 DEF OfHost
<1>5. Polls'
  <2> SUFFICES ASSUME NEW w \in Pollers
               PROVE  /\ steady'[w] \subseteq Ids(deserved')
                      /\ Holds(pc'[w], rows'[w], steady'[w])
                      /\ Explained(pc'[w], changes'[w], steady'[w])
    BY DEF Polls
  <2>1. steady'[w] = steady[w] \cap Ids(deserved')
    BY <1>2
  <2>2. Holds(pc[w], rows[w], steady[w]) /\ Explained(pc[w], changes[w], steady[w])
    BY DEF RemovalsInv, Polls
  <2> QED
    BY <1>1, <2>1, <2>2, HoldsLess, ExplainedLess
<1> QED
  BY <1>3, <1>4, <1>5 DEF RemovalsInv

(* A step of one poll, on a host that stays.                               *)
StepOf(w) ==
  /\ Functions' /\ UNCHANGED <<host, now, deserved>>
  /\ \A v \in Pollers \ {w} : /\ pc'[v] = pc[v] /\ rows'[v] = rows[v]
                              /\ steady'[v] = steady[v] /\ changes'[v] = changes[v]

(* It is enough to look at that poll.                                      *)
LEMMA StepKeepsRemovals ==
  ASSUME RemovalsInv, NEW w \in Pollers, StepOf(w), steady'[w] \subseteq Ids(deserved),
         Holds(pc'[w], rows'[w], steady'[w]), Explained(pc'[w], changes'[w], steady'[w])
  PROVE  RemovalsInv'
<1>1. Functions' /\ OfHost'
  BY DEF RemovalsInv, StepOf, OfHost
<1>2. Polls'
  <2> SUFFICES ASSUME NEW v \in Pollers
               PROVE  /\ steady'[v] \subseteq Ids(deserved')
                      /\ Holds(pc'[v], rows'[v], steady'[v])
                      /\ Explained(pc'[v], changes'[v], steady'[v])
    BY DEF Polls
  <2>1. deserved' = deserved
    BY DEF StepOf
  <2>2. CASE v = w
    BY <2>1, <2>2
  <2>3. CASE v # w
    <3>1. pc'[v] = pc[v] /\ rows'[v] = rows[v] /\ steady'[v] = steady[v] /\ changes'[v] = changes[v]
      BY <2>3 DEF StepOf
    <3>2. /\ steady[v] \subseteq Ids(deserved) /\ Holds(pc[v], rows[v], steady[v])
          /\ Explained(pc[v], changes[v], steady[v])
      BY DEF RemovalsInv, Polls
    <3> QED
      BY <2>1, <3>1, <3>2
  <2> QED
    BY <2>2, <2>3
<1> QED
  BY <1>1, <1>2 DEF RemovalsInv

(* The steps of a poll are such steps.                                     *)
LEMMA PollIsStep ==
  ASSUME RemovalsInv, NEW w \in Pollers, NEW place, NEW es, NEW ids, NEW news,
         pc' = [pc EXCEPT ![w] = place], rows' = [rows EXCEPT ![w] = es],
         steady' = [steady EXCEPT ![w] = ids], changes' = [changes EXCEPT ![w] = news],
         UNCHANGED <<host, now, deserved>>
  PROVE  /\ StepOf(w) /\ pc'[w] = place /\ rows'[w] = es /\ steady'[w] = ids /\ changes'[w] = news
<1>1. Functions
  BY DEF RemovalsInv
<1>2. Functions'
  BY <1>1 DEF Functions
<1>3. pc'[w] = place /\ rows'[w] = es /\ steady'[w] = ids /\ changes'[w] = news
  BY <1>1 DEF Functions
<1>4. \A v \in Pollers \ {w} : /\ pc'[v] = pc[v] /\ rows'[v] = rows[v]
                               /\ steady'[v] = steady[v] /\ changes'[v] = changes[v]
  BY <1>1 DEF Functions
<1> QED
  BY <1>2, <1>3, <1>4 DEF StepOf

(* So it is enough to look at what the step sets.                          *)
LEMMA Keeps ==
  ASSUME RemovalsInv, NEW w \in Pollers, NEW place, NEW es, NEW ids, NEW news,
         pc' = [pc EXCEPT ![w] = place], rows' = [rows EXCEPT ![w] = es],
         steady' = [steady EXCEPT ![w] = ids], changes' = [changes EXCEPT ![w] = news],
         UNCHANGED <<host, now, deserved>>,
         ids \subseteq Ids(deserved), Holds(place, es, ids), Explained(place, news, ids)
  PROVE  RemovalsInv'
<1>1. StepOf(w) /\ pc'[w] = place /\ rows'[w] = es /\ steady'[w] = ids /\ changes'[w] = news
  BY PollIsStep
<1> QED
  BY <1>1, StepKeepsRemovals

(* What does not change is as good as set.                                 *)
LEMMA Unset ==
  ASSUME RemovalsInv, NEW w \in Pollers
  PROVE  /\ rows = [rows EXCEPT ![w] = rows[w]] /\ steady = [steady EXCEPT ![w] = steady[w]]
         /\ changes = [changes EXCEPT ![w] = changes[w]] /\ pc = [pc EXCEPT ![w] = pc[w]]
BY DEF RemovalsInv, Functions

(* What the invariant says of one poll.                                    *)
LEMMA Held ==
  ASSUME RemovalsInv, NEW w \in Pollers
  PROVE  /\ steady[w] \subseteq Ids(deserved) /\ Holds(pc[w], rows[w], steady[w])
         /\ Explained(pc[w], changes[w], steady[w])
BY DEF RemovalsInv, Polls

(* A poll begins with all that the host deserves.                          *)
LEMMA BeginKeepsRemovals ==
  ASSUME RemovalsInv, NEW w \in Pollers, Begin(w), UNCHANGED <<host, now, deserved, rows, changes>>
  PROVE  RemovalsInv'
<1>1. Holds("discover", rows[w], Ids(deserved)) /\ Explained("discover", changes[w], Ids(deserved))
  BY DEF Holds, Explained, Early, Late, ReadingPlaces
<1> QED
  BY <1>1, Unset, Keeps DEF Begin, Goto

Lost(parts, mine) ==
  IF parts = Parts THEN {}
  ELSE (UNION {IdsOf(OnDisk(now, Parts, k)) : k \in HostChoices(Installed(now, Parts))}) \ IdsOf(mine)

(* The discovery leaves the bundles that only run to the processes.        *)
LEMMA DiscoverKeepsRemovals ==
  ASSUME HostsArePlain, RemovalsInv, NEW w \in Pollers, Discover(w)
  PROVE  RemovalsInv'
<1>1. PICK parts : \E pick \in HostChoices(Installed(now, parts)) :
        LET mine == OnDisk(now, parts, pick)
        IN /\ rows' = [rows EXCEPT ![w] = mine]
           /\ steady' = [steady EXCEPT ![w] = @ \ Lost(parts, mine)]
  BY Zenon DEF Discover, Lost
<1>2. PICK pick \in HostChoices(Installed(now, parts)) :
        LET mine == OnDisk(now, parts, pick)
        IN /\ rows' = [rows EXCEPT ![w] = mine]
           /\ steady' = [steady EXCEPT ![w] = @ \ Lost(parts, mine)]
  BY <1>1
<1>3. PICK mine : mine = OnDisk(now, parts, pick)
  OBVIOUS
<1>4. PICK ids : ids = steady[w] \ Lost(parts, mine)
  OBVIOUS
<1>5. rows' = [rows EXCEPT ![w] = mine] /\ steady' = [steady EXCEPT ![w] = ids]
  BY <1>2, <1>3, <1>4
<1>6. PICK place : Goto(w, place) /\ place \in Early
  BY DEF Discover, Early
<1>7. UNCHANGED <<host, now, deserved, changes>>
  BY DEF Discover, table
<1>8. now = Reading[host] /\ host \in Hosts /\ deserved = Passes(now) /\ HostIsPlain(now)
  BY DEF RemovalsInv, OfHost, HostsArePlain
<1>9. FromDisk(mine)
  BY <1>3, <1>8, DiskIsDiscoverable
<1>10. ASSUME NEW id \in ids PROVE id \in ToldIds(mine) \/ ~Discoverable(id[2])
  <2>1. id \in Ids(Passes(now)) /\ id \notin Lost(parts, mine)
    BY <1>4, <1>8, <1>10, Held
  <2>2. parts # Parts => id \notin (UNION {IdsOf(OnDisk(now, Parts, k)) :
                                   k \in HostChoices(Installed(now, Parts))}) \ IdsOf(mine)
    BY <2>1, Zenon DEF Lost
  <2> QED
    BY <1>3, <1>8, <2>1, <2>2, DiscoverTells
<1>11. ids \subseteq Ids(deserved)
  BY <1>4, Held
<1>12. Holds(place, mine, ids) /\ Explained(place, changes[w], ids)
  BY <1>6, <1>9, <1>10 DEF Holds, Explained, Early, Late, ReadingPlaces
<1> QED
  BY <1>5, <1>6, <1>7, <1>11, <1>12, Unset, Keeps DEF Goto

(* The table of ports has no part in it.                                   *)
LEMMA RememberKeepsRemovals ==
  ASSUME RemovalsInv, NEW w \in Pollers, Remember(w)
  PROVE  RemovalsInv'
<1>1. pc[w] = "remember" /\ Goto(w, "processes")
  BY DEF Remember
<1>2. UNCHANGED <<host, now, deserved, rows, steady, changes>>
  BY DEF Remember, table, ghosts
<1>3. Holds("processes", rows[w], steady[w]) /\ Explained("processes", changes[w], steady[w])
  BY <1>1, Held DEF Holds, Explained, Early, Late, ReadingPlaces
<1> QED
  BY <1>1, <1>2, <1>3, Held, Unset, Keeps DEF Goto

(* After the processes all the ids are told, or their listing failed.      *)
LEMMA ProcessesKeepsRemovals ==
  ASSUME HostsArePlain, RemovalsInv, NEW w \in Pollers, Processes(w)
  PROVE  RemovalsInv'
<1>1. pc[w] = "processes" /\ Goto(w, "listeners")
  BY DEF Processes
<1>2. UNCHANGED <<host, now, deserved, changes>>
  BY DEF Processes, table
<1>3. /\ FromDisk(rows[w]) /\ steady[w] \subseteq Ids(deserved)
      /\ \A id \in steady[w] : id \in ToldIds(rows[w]) \/ ~Discoverable(id[2])
  BY <1>1, Held DEF Holds, Early
<1>4. AreRows(rows[w])
  BY <1>3 DEF FromDisk, AreRows
<1>5. ASSUME NEW es, AreRows(es), NEW xs, SameRows(es, xs), NEW ids, ids \subseteq ToldIds(es)
      PROVE  Holds("listeners", xs, ids) /\ Explained("listeners", changes[w], ids)
  BY <1>5, SameIds DEF Holds, Explained, Early, Late, ReadingPlaces
<1>6. CASE /\ rows' = [rows EXCEPT ![w] =
                        WithExtensionHosts(WithProcesses(@, now.procs, installs, now), now.procs)]
           /\ UNCHANGED steady
  <2>1. PICK ys : ys = WithProcesses(rows[w], now.procs, installs, now)
    OBVIOUS
  <2>2. PICK xs : xs = WithExtensionHosts(ys, now.procs)
    OBVIOUS
  <2>3. now = Reading[host] /\ host \in Hosts /\ deserved = Passes(now) /\ HostIsPlain(now)
        /\ Listed(now)
    BY ReadingsAreListed DEF RemovalsInv, OfHost, HostsArePlain
  <2>4. AreRows(ys)
    BY <1>4, <2>1, <2>3, ProcessesKeep DEF Listed
  <2>5. SameRows(ys, xs)
    BY <2>2, <2>4, ExtensionHostsSame
  <2>6. ASSUME NEW id \in steady[w] PROVE id \in ToldIds(ys)
    <3>1. id \in Ids(Passes(now)) /\ (id \in ToldIds(rows[w]) \/ ~Discoverable(id[2]))
      BY <1>3, <2>3, <2>6
    <3> QED
      BY <1>3, <2>1, <2>3, <3>1, ProcessesTell
  <2>7. Holds("listeners", xs, steady[w]) /\ Explained("listeners", changes[w], steady[w])
    BY <1>5, <2>4, <2>5, <2>6
  <2>8. rows' = [rows EXCEPT ![w] = xs]
    BY <1>6, <2>1, <2>2
  <2>9. steady' = [steady EXCEPT ![w] = steady[w]] /\ changes' = [changes EXCEPT ![w] = changes[w]]
    BY <1>2, <1>6, Unset
  <2> QED
    BY <1>1, <1>2, <1>3, <2>7, <2>8, <2>9, Keeps DEF Goto
<1>7. CASE /\ rows' = [rows EXCEPT ![w] = WithExtensionHosts(@, <<>>)]
           /\ steady' = [steady EXCEPT ![w] = @ \cap IdsOf(rows[w])]
  <2>1. PICK xs : xs = WithExtensionHosts(rows[w], <<>>) /\ SameRows(rows[w], xs)
    BY <1>4, ExtensionHostsSame
  <2>2. IdsOf(rows[w]) = ToldIds(rows[w])
    BY <1>3 DEF FromDisk, IdsOf, ToldIds
  <2>3. PICK ids : ids = steady[w] \cap IdsOf(rows[w])
    OBVIOUS
  <2>4. Holds("listeners", xs, ids) /\ Explained("listeners", changes[w], ids)
    BY <1>4, <1>5, <2>1, <2>2, <2>3
  <2>5. rows' = [rows EXCEPT ![w] = xs] /\ steady' = [steady EXCEPT ![w] = ids]
    BY <1>7, <2>1, <2>3
  <2>6. changes' = [changes EXCEPT ![w] = changes[w]]
    BY <1>2, Unset
  <2>7. ids \subseteq Ids(deserved)
    BY <1>3, <2>3
  <2> QED
    BY <1>1, <1>2, <2>4, <2>5, <2>6, <2>7, Keeps DEF Goto
<1> QED
  BY <1>6, <1>7 DEF Processes

(* After it, readings keep what is told.                                   *)
LEMMA LateKeepsRemovals ==
  ASSUME RemovalsInv, NEW w \in Pollers, pc[w] \in Late, NEW place, place \in Late, Goto(w, place),
         NEW xs, SameRows(rows[w], xs) \/ xs = rows[w], rows' = [rows EXCEPT ![w] = xs],
         UNCHANGED <<host, now, deserved, steady, changes>>
  PROVE  RemovalsInv'
<1>1. AreRows(rows[w]) /\ steady[w] \subseteq ToldIds(rows[w])
  BY Held DEF Holds
<1>2. AreRows(xs) /\ steady[w] \subseteq ToldIds(xs)
  BY <1>1, SameIds
<1>3. Holds(place, xs, steady[w]) /\ Explained(place, changes[w], steady[w])
  BY <1>2 DEF Holds, Explained, Early, Late, ReadingPlaces
<1> QED
  BY <1>3, Held, Unset, Keeps DEF Goto

(* The listeners and the clients.                                          *)
LEMMA ReadingsKeepRemovals ==
  ASSUME RemovalsInv, NEW w \in Pollers, Listeners(w) \/ Clients(w)
  PROVE  RemovalsInv'
<1>1. CASE Listeners(w)
  <2>1. /\ pc[w] \in Late /\ "clients" \in Late /\ Goto(w, "clients")
        /\ UNCHANGED <<host, now, deserved, steady, changes>>
    BY <1>1 DEF Listeners, Late, table, ghosts
  <2>2. PICK socks, answer :
          rows' = [rows EXCEPT ![w] = WithListeners(rows[w], socks, containers, answer, now)]
    BY <1>1 DEF Listeners
  <2>3. AreRows(rows[w])
    BY <2>1, Held DEF Holds
  <2> QED
    BY <2>1, <2>2, <2>3, ListenersSame, LateKeepsRemovals
<1>2. CASE Clients(w)
  <2>1. /\ pc[w] \in Late /\ "stat 1" \in Late /\ Goto(w, "stat 1")
        /\ UNCHANGED <<host, now, deserved, steady, changes>>
    BY <1>2 DEF Clients, Late, ReadingPlaces, table, ghosts
  <2>2. PICK xs : /\ xs = rows[w] \/ xs = WithClients(rows[w], now.conns)
                  /\ rows' = [rows EXCEPT ![w] = xs]
    <3>1. PICK xs : xs = WithClients(rows[w], now.conns)
      OBVIOUS
    <3>2. rows' = [rows EXCEPT ![w] = xs] \/ rows' = rows
      BY <1>2, <3>1, Zenon DEF Clients
    <3> QED
      BY <3>1, <3>2, Unset
  <2>3. AreRows(rows[w])
    BY <2>1, Held DEF Holds
  <2> QED
    BY <2>1, <2>2, <2>3, ClientsSame, LateKeepsRemovals
<1> QED
  BY <1>1, <1>2

(* The configurations and tools, which are not of the rows.                *)
LEMMA ToolsKeepRemovals ==
  ASSUME RemovalsInv, NEW w \in Pollers,
         \/ \E f \in McpFiles : StatConfig(w, f) \/ ReadConfig(w, f)
         \/ ListTools(w) \/ Keep(w) \/ UseTools(w) \/ StoreKey(w) \/ StoreTools(w)
  PROVE  RemovalsInv'
<1>1. /\ pc[w] \in Late /\ UNCHANGED <<host, now, deserved, rows, steady, changes>>
      /\ \E place \in Late : Goto(w, place)
  <2>1. CASE \E f \in McpFiles : StatConfig(w, f)
    BY <2>1, StatPlaces DEF StatConfig, Late, table, ghosts
  <2>2. CASE \E f \in McpFiles : ReadConfig(w, f)
    BY <2>2, ReadPlaces DEF ReadConfig, Late, table
  <2>3. CASE ListTools(w) \/ Keep(w) \/ UseTools(w) \/ StoreKey(w) \/ StoreTools(w)
    BY <2>3 DEF ListTools, Keep, UseTools, StoreKey, StoreTools, Late, ReadingPlaces, table
  <2> QED
    BY <2>1, <2>2, <2>3
<1> QED
  BY <1>1, Unset, LateKeepsRemovals

(* Rows of no product tell nothing.                                        *)
LEMMA AttachKeepsRemovals ==
  ASSUME RemovalsInv, NEW w \in Pollers, Attach(w)
  PROVE  RemovalsInv'
<1>1. /\ pc[w] \in Late /\ Goto(w, "compare") /\ UNCHANGED <<host, now, deserved, steady, changes>>
  BY DEF Attach, Late, table, ghosts
<1>2. PICK local : rows' = [rows EXCEPT ![w] =
        {e \in WithCapabilities(rows[w], now.mcp, tools[w], local) : e.product # None}]
  BY DEF Attach
<1>3. AreRows(rows[w]) /\ steady[w] \subseteq ToldIds(rows[w])
  BY <1>1, Held DEF Holds
<1>4. PICK xs : xs = WithCapabilities(rows[w], now.mcp, tools[w], local) /\ SameRows(rows[w], xs)
  BY <1>3, CapabilitiesSame
<1>5. PICK ys : ys = {e \in xs : e.product # None}
  OBVIOUS
<1>6. AreRows(ys) /\ steady[w] \subseteq ToldIds(ys)
  BY <1>3, <1>4, <1>5, SameIds DEF AreRows, ToldIds
<1>7. Holds("compare", ys, steady[w]) /\ Explained("compare", changes[w], steady[w])
  BY <1>6 DEF Holds, Explained, Early, Late, ReadingPlaces
<1>8. rows' = [rows EXCEPT ![w] = ys]
  BY <1>2, <1>4, <1>5
<1> QED
  BY <1>1, <1>7, <1>8, Held, Unset, Keeps DEF Goto

(* What is told of rows is not removed.                                    *)
LEMMA CompareKeepsRemovals ==
  ASSUME RemovalsInv, NEW w \in Pollers, Compare(w)
  PROVE  RemovalsInv'
<1>1. /\ pc[w] = "compare" /\ Goto(w, "enqueue") /\ UNCHANGED <<host, now, deserved, steady>>
      /\ rows' = [rows EXCEPT ![w] = {}] /\ changes' = [changes EXCEPT ![w] = News(rows[w])]
  BY DEF Compare, table
<1>2. steady[w] \subseteq ToldIds(rows[w])
  BY <1>1, Held DEF Holds, Late, ReadingPlaces
<1>3. Removed(News(rows[w])) \cap ToldIds(rows[w]) = {}
  <2>1. PICK gone : gone = {a.id : a \in seen} \ {a.id : a \in Current(rows[w])}
    OBVIOUS
  <2>2. News(rows[w]) = {[id |-> a.id, now |-> <<a.payload>>] : a \in Current(rows[w]) \ seen}
                          \cup {[id |-> id, now |-> <<>>] : id \in gone}
    BY <2>1 DEF News
  <2>3. \A b \in News(rows[w]) : b.now = <<>> => b.id \in gone
    <3>1. \A x : <<x>> # <<>>
      OBVIOUS
    <3> QED
      BY <2>2, <3>1
  <2>4. Removed(News(rows[w])) \subseteq gone
    BY <2>3 DEF Removed
  <2> QED
    BY <2>1, <2>4, CurrentIds
<1>4. Holds("enqueue", {}, steady[w]) /\ Explained("enqueue", News(rows[w]), steady[w])
  BY <1>2, <1>3 DEF Holds, Explained, Early, Late, ReadingPlaces
<1> QED
  BY <1>1, <1>4, Held, Unset, Keeps DEF Goto

(* What is left to enqueue becomes less.                                   *)
LEMMA EnqueueKeepsRemovals ==
  ASSUME RemovalsInv, NEW w \in Pollers, Enqueue(w)
  PROVE  RemovalsInv'
<1>1. pc[w] = "enqueue" /\ UNCHANGED <<host, now, deserved, rows>>
  BY DEF Enqueue, table
<1>2. CASE changes[w] = {}
  <2>1. Goto(w, "idle") /\ steady' = [steady EXCEPT ![w] = {}] /\ UNCHANGED changes
    BY <1>2 DEF Enqueue
  <2>2. PICK ids : ids = {}
    OBVIOUS
  <2>3. PICK place : place = "idle"
    OBVIOUS
  <2>4. Holds(place, rows[w], ids) /\ Explained(place, changes[w], ids)
    BY <2>2, <2>3 DEF Holds, Explained, Early, Late, ReadingPlaces
  <2>5. /\ pc' = [pc EXCEPT ![w] = place] /\ rows' = [rows EXCEPT ![w] = rows[w]]
        /\ steady' = [steady EXCEPT ![w] = ids] /\ changes' = [changes EXCEPT ![w] = changes[w]]
    BY <1>1, <2>1, <2>2, <2>3, Unset DEF Goto
  <2>6. ids \subseteq Ids(deserved)
    BY <2>2
  <2> QED
    BY <1>1, <2>4, <2>5, <2>6, Keeps
<1>3. CASE changes[w] # {}
  <2>1. PICK a \in changes[w] : changes' = [changes EXCEPT ![w] = @ \ {a}]
    BY <1>3 DEF Enqueue
  <2>2. UNCHANGED <<pc, steady>>
    BY <1>3 DEF Enqueue
  <2>3. PICK left : left = changes[w] \ {a}
    OBVIOUS
  <2>4. Holds(pc[w], rows[w], steady[w]) /\ Explained(pc[w], left, steady[w])
    BY <2>3, Held, ExplainedLess
  <2>5. /\ pc' = [pc EXCEPT ![w] = pc[w]] /\ rows' = [rows EXCEPT ![w] = rows[w]]
        /\ steady' = [steady EXCEPT ![w] = steady[w]] /\ changes' = [changes EXCEPT ![w] = left]
    BY <1>1, <2>1, <2>2, <2>3, Unset
  <2>6. steady[w] \subseteq Ids(deserved)
    BY Held
  <2> QED
    BY <1>1, <2>4, <2>5, <2>6, Keeps
<1> QED
  BY <1>2, <1>3

(* Every step keeps the invariant.                                         *)
LEMMA NextKeepsRemovals ==
  ASSUME HostsArePlain, RemovalsInv, [Next]_vars
  PROVE  RemovalsInv'
<1>1. ASSUME NEW w \in Pollers, Poll(w) PROVE RemovalsInv'
  BY <1>1, DiscoverKeepsRemovals, RememberKeepsRemovals, ProcessesKeepsRemovals,
     ReadingsKeepRemovals, ToolsKeepRemovals, AttachKeepsRemovals, CompareKeepsRemovals,
     EnqueueKeepsRemovals DEF Poll
<1>2. CASE Tick
  <2>1. Begin(Ticker) /\ UNCHANGED <<host, now, deserved, rows, changes>>
    BY <1>2 DEF Tick, table
  <2> QED
    BY <2>1, BeginKeepsRemovals DEF Pollers
<1>3. CASE TakeWake
  <2>1. Begin(Worker) /\ UNCHANGED <<host, now, deserved, rows, changes>>
    BY <1>3 DEF TakeWake, table
  <2> QED
    BY <2>1, BeginKeepsRemovals DEF Pollers
<1>4. CASE UNCHANGED <<host, now, deserved, pc, rows, steady, changes>>
  BY <1>4 DEF RemovalsInv, Functions, OfHost, Polls
<1>5. CASE Cancel \/ Observe \/ RunFeed \/ UNCHANGED vars
  BY <1>4, <1>5 DEF Cancel, Observe, ObserveChange, RunFeed, vars, table, poll, ghosts
<1> QED
  BY <1>1, <1>2, <1>3, <1>5, HostChangeKeepsRemovals DEF Next

(* On plain hosts, whatever the order of the polls, the index of installs  *)
(* they find and the failures of other readings, no removal is told of an  *)
(* app that was there, and not missed by a failed one, during a whole poll *)
(* (monitor.go:80-95, engine.go:166-197).                                  *)
THEOREM RemovalsHaveAReason ==
  ASSUME HostsArePlain
  PROVE  Spec => []RemovalsAreExplained
<1>1. Init => RemovalsInv
  BY InitRemovals
<1>2. RemovalsInv /\ [Next]_vars => RemovalsInv'
  BY NextKeepsRemovals
<1>3. RemovalsInv => RemovalsAreExplained
  BY DEF RemovalsInv, Polls, Explained, Removed, RemovalsAreExplained
<1> QED
  BY <1>1, <1>2, <1>3, PTL DEF Spec
=============================================================================
