------------------------- MODULE RuntimeInventory -------------------------
(* What one pass of Engine.Inventory makes of its readings                 *)
(* (internal/collect/apps): the rows of the discovery, correlated with     *)
(* processes, listening sockets, loopback connections and MCP servers.     *)
(* A path is the sequence of its names; the empty one stands for none.     *)
(* Identification and the disk are the subject of Identification; here a   *)
(* row comes with its product.  The evidence keys a step appends are left  *)
(* out where a field of the row says the same.                             *)
EXTENDS Integers, SequencesExt

CONSTANTS
  None,             \* no product, no version, no key, an unknown state
  ProductOf,        \* ProductOf[name]: what the matcher makes of a bare executable, or None
  BundleNames,      \* the names that end in ".app"
  EditorOf,         \* EditorOf[name]: the editor a process name shows, or None
  ExtensionHosts,   \* process names that contain "extension"
  AddrKind          \* AddrKind[addr]: "any", "loopback", "private" or "other"

Editors == {"cursor", "vscode"}
ExtensionCategories == {"ai_ide_extension", "agentic_ide_extension"}

Category(e) == IF e.product = None THEN None ELSE e.product.category
IsEditor(e) == Category(e) = "code_editor" /\ e.product.id \in Editors
IsExtension(e) == Category(e) \in ExtensionCategories
IsRuntime(e) == Category(e) = "local_model_runtime"   \* isLocalModelRuntime

KeysOf(app) == {app.path, app.resolved, app.invocation} \ {<<>>}

Entry(app, installed) ==
  [app |-> app, product |-> app.product, installed |-> installed, running |-> FALSE, pids |-> {},
   keys |-> KeysOf(app),
   serving |-> FALSE, exposure |-> None, listeners |-> {}, models |-> 0, format |-> None,
   version |-> None, clients |-> {}, host |-> None, hostPath |-> <<>>, enabled |-> None,
   hostSeen |-> FALSE, servers |-> {}, configured |-> FALSE, tools |-> <<>>, skills |-> {},
   local |-> None]

(* byPath is a map from path keys to shared rows: later rows take their    *)
(* keys over, and a row without a key left is lost.                        *)
Index(rows, new) ==
  LET taken == UNION {e.keys : e \in new}
  IN {r \in {[old EXCEPT !.keys = @ \ taken] : old \in rows} : r.keys # {}} \cup new

At(rows, key) == {r \in rows : key \in r.keys}
Update(rows, old, new) == (rows \ {old}) \cup {new}

Installed(h, parts) ==   \* one row after the other
  LET put(rows, app) == IF app.part \in parts THEN Index(rows, {Entry(app, TRUE)}) ELSE rows
      after[i \in 0 .. Len(h.apps)] == IF i = 0 THEN {} ELSE put(after[i - 1], h.apps[i])
  IN after[Len(h.apps)]

(* attachIDEExtensions: an editor product is one host, whichever of its    *)
(* rows the map gives first; folders of no AI extension are dropped.       *)
HostChoices(rows) ==
  LET hosts == {r.product.id : r \in {s \in rows : IsEditor(s)}}
      paths == {r.app.path : r \in {s \in rows : IsEditor(s)}}
  IN {pick \in [hosts -> paths] :
        \A p \in hosts : \E r \in rows : IsEditor(r) /\ r.product.id = p /\ r.app.path = pick[p]}

Enabled(id, disabled) ==   \* None: the editor's state cannot be read
  CASE disabled = None -> None
    [] disabled # None -> IF id \in disabled THEN "no" ELSE "yes"

WithExtensions(rows, h, pick) ==
  LET row(app, host) ==
        [Entry(app, TRUE) EXCEPT !.host = host, !.hostPath = pick[host], !.keys = {app.path},
           !.enabled = Enabled(app.id, h.disabled[host])]
      known(host) == {e \in {row(app, host) : app \in h.extensions[host]} : e.product # None}
  IN Index(rows, UNION {known(host) : host \in DOMAIN pick})

WithSkills(rows, h) ==   \* attachAgentSkills
  {IF Category(e) \in {"code_editor", "cli_agent"}
   THEN [e EXCEPT !.skills = h.skills[e.product.id]] ELSE e : e \in rows}

(* What is on the disk, before anything is known to run.                   *)
OnDisk(h, parts, pick) == WithSkills(WithExtensions(Installed(h, parts), h, pick), h)

(* The install index.  For a name that installs share, the lookups use the *)
(* one rebuild came upon first; for a path, the last.  Its order is that   *)
(* of a map (at the end of a pass a sorted one, until the next pass).      *)
NamesOf(app) ==
  {app.exe} \cup {Last(p) : p \in {app.invocation, app.resolved} \ {<<>>}}
PathsOf(app) == {app.path, app.resolved, app.invocation, app.exePath} \ {<<>>}

Indexes(rows) ==
  LET apps == {e.app : e \in {r \in rows : r.installed}}
      first(order, x) == Head(SelectSeq(order, LAMBDA a : x \in NamesOf(a)))
      last(order, x) == Last(SelectSeq(order, LAMBDA a : x \in PathsOf(a)))
  IN {[byName |-> [x \in UNION {NamesOf(a) : a \in apps} |-> first(order, x)],
       byPath |-> [x \in UNION {PathsOf(a) : a \in apps} |-> last(order, x)]] :
        order \in SetToSeqs(apps)}

(* resolveRuntimeExecutable: a path by the disk, a bare name by the index, *)
(* never by the agent's PATH.                                              *)
FirstPath(paths) == LET given == SelectSeq(paths, LAMBDA p : p # <<>>)
                    IN IF given = <<>> THEN <<>> ELSE Head(given)

Executable(proc, index, links) ==
  LET exe == IF proc.exe = <<>> THEN <<proc.comm>> ELSE proc.exe
      a == IF Last(exe) \in DOMAIN index.byName THEN index.byName[Last(exe)] ELSE None
      b == IF proc.comm \in DOMAIN index.byName THEN index.byName[proc.comm] ELSE None
  IN CASE Len(exe) > 1 -> (IF exe \in DOMAIN links THEN links[exe] ELSE exe)
       [] Len(exe) <= 1 /\ a # None -> FirstPath(<<a.resolved, a.invocation, a.path>>)
       [] Len(exe) <= 1 /\ a = None /\ b # None -> FirstPath(<<b.resolved, b.path>>)
       [] OTHER -> exe

EnclosingAppPath(path) ==   \* the outermost bundle
  LET bundles == {i \in DOMAIN path : path[i] \in BundleNames}
  IN IF bundles = {} THEN <<>>
     ELSE SubSeq(path, 1, CHOOSE i \in bundles : \A j \in bundles : i <= j)

Runs(e, pid) == [e EXCEPT !.running = TRUE, !.pids = IF pid > 0 THEN @ \cup {pid} ELSE @]

(* The rows of bare executables are the only ones that are not installed:  *)
(* their keys begin with "running:", which no path does.                   *)
RunningAs(rows, exe) == {r \in rows : ~r.installed /\ r.app.path = exe}

Bare(exe, product) ==
  [path |-> exe, resolved |-> exe, invocation |-> <<>>, exePath |-> exe, exe |-> Last(exe),
   product |-> product, part |-> None]

(* correlateProcess.  A bundle outside the discovery counts as installed   *)
(* while it runs, as what ResolveBundle reads there or under the name of   *)
(* the executable; a bare executable of a known name never does.           *)
Correlate(rows, proc, index, h) ==
  LET exe == Executable(proc, index, h.links)
      bundle == EnclosingAppPath(exe)
      known == IF exe \in DOMAIN index.byPath THEN index.byPath[exe] ELSE None
      cands == IF known = None THEN <<exe>>
               ELSE <<exe, known.path, known.resolved, known.invocation>>
      hits == {i \in DOMAIN cands : \E r \in At(rows, cands[i]) : r.installed}
      first == CHOOSE i \in hits : \A j \in hits : i <= j
      mark(mine) == LET e == CHOOSE r \in mine : TRUE
                    IN Update(rows, e, Runs(e, proc.pid))
      product == ProductOf[Last(exe)]
      bare == [Entry(Bare(exe, product), FALSE) EXCEPT !.keys = {}]
      found == IF bundle \in DOMAIN h.bundleAt THEN h.bundleAt[bundle]
               ELSE [Bare(exe, product) EXCEPT !.path = bundle, !.resolved = <<>>]
  IN CASE bundle # <<>> /\ At(rows, bundle) # {} -> mark(At(rows, bundle))
       [] bundle # <<>> /\ At(rows, bundle) = {} ->
            rows \cup {Runs([Entry(found, TRUE) EXCEPT !.keys = {bundle}], proc.pid)}
       [] bundle = <<>> /\ hits # {} -> mark(At(rows, cands[first]))
       [] bundle = <<>> /\ hits = {} /\ product = None -> rows
       [] bundle = <<>> /\ hits = {} /\ product # None /\ RunningAs(rows, exe) # {} ->
            mark(RunningAs(rows, exe))
       [] OTHER -> rows \cup {Runs(bare, proc.pid)}

WithProcesses(rows, procs, index, h) ==
  LET after[i \in 0 .. Len(procs)] ==
        IF i = 0 THEN rows ELSE Correlate(after[i - 1], procs[i], index, h)
  IN after[Len(procs)]

(* correlateExtensionRuntime: a shared extension host never says that one  *)
(* extension is active, only that it was seen.  (Of two editors that claim *)
(* a process the code takes the first of a map; no process here has two.)  *)
HostOf(rows, proc) ==
  LET shown == {EditorOf[name] : name \in {proc.comm, Last(<<proc.comm>> \o proc.exe)}}
  IN {e.product.id : e \in {r \in rows : /\ IsEditor(r)
                                         /\ \/ IsPrefix(r.app.path, proc.exe)
                                            \/ r.product.id \in shown}}

WithExtensionHosts(rows, procs) ==
  LET seen == UNION {HostOf(rows, p) : p \in {q \in Range(procs) : q.comm \in ExtensionHosts}}
  IN {IF IsExtension(e) THEN [e EXCEPT !.running = FALSE, !.hostSeen = e.host \in seen] ELSE e :
        e \in rows}

Exposure(listeners) ==   \* ClassifyListenerExposure
  LET kinds == {AddrKind[l.addr] : l \in listeners}
  IN CASE listeners = {} -> None
       [] "any" \in kinds -> "ALL_INTERFACES"
       [] "private" \in kinds /\ "any" \notin kinds -> "LAN_EXPOSED"
       [] "other" \in kinds /\ kinds \cap {"any", "private"} = {} -> "OTHER"
       [] OTHER -> "LOOPBACK_ONLY"

Serves(e, listeners) ==
  [e EXCEPT !.listeners = listeners, !.serving = listeners # {}, !.exposure = Exposure(listeners)]

(* attachRuntimeListeners: a container's by its published ports, of the    *)
(* package's map; another's by the sockets of its processes.               *)
Listening(e, socks, containers) ==
  LET mine == {[addr |-> s.addr, port |-> s.port] : s \in {t \in socks : t.pid \in e.pids}}
      c == containers[e.app.path]
      up == [e EXCEPT !.running = @ \/ c.running]
  IN CASE IsRuntime(e) /\ e.app.part = "docker" /\ e.app.path \in DOMAIN containers ->
            IF c.running /\ c.ports # {} THEN Serves(up, c.ports) ELSE up
       [] IsRuntime(e) /\ e.app.part # "docker" /\ e.running /\ e.pids # {} -> Serves(e, mine)
       [] OTHER -> e

(* applyRuntimeFingerprint: only Ollama is asked, at an address this host  *)
(* reaches over loopback; applyRuntimeArtifacts: the models on the disk.   *)
Fingerprint(e, answer) ==
  IF /\ e.serving /\ IsRuntime(e) /\ e.product.id = "ollama" /\ answer # None
     /\ \E l \in e.listeners : AddrKind[l.addr] \in {"loopback", "any"}
  THEN [e EXCEPT !.version = answer.version, !.models = answer.models] ELSE e

Artifacts(e, h) ==
  IF IsRuntime(e) /\ e.product.id \in DOMAIN h.artifacts
  THEN LET a == h.artifacts[e.product.id]
       IN [e EXCEPT !.models = IF a.models > @ THEN a.models ELSE @, !.format = a.format]
  ELSE e

WithListeners(rows, socks, containers, answer, h) ==
  {Artifacts(Fingerprint(Listening(e, socks, containers), answer), h) : e \in rows}

(* attachLocalClients: whoever is connected to a port that is served, but  *)
(* not the servers' own ends.                                              *)
WithClients(rows, conns) ==
  LET servers == UNION {e.pids : e \in {r \in rows : IsRuntime(r)}}
      client(c) == [pid |-> c.pid, comm |-> c.comm, product |-> ProductOf[c.comm]]
      of(e) == {client(c) : c \in {d \in conns : /\ d.pid \notin servers
                                                 /\ \E l \in e.listeners : l.port = d.port}}
  IN {IF IsRuntime(e) /\ e.serving THEN [e EXCEPT !.clients = of(e)] ELSE e : e \in rows}

(* The MCP configurations: two files of each editor, in the order in which *)
(* they are read.  mcp[f], for a file that is there and not empty, is its  *)
(* time and its servers, each with the tools that it lists.  A server of a *)
(* later file replaces one of the same name; one that has no command or    *)
(* lists nothing is left out.                                              *)
McpFiles == 1 .. 4
FilesOf == [cursor |-> {1, 2}, vscode |-> {3, 4}]   \* mcpConfigCandidates

TimeOf(mcp, f) == IF f \in DOMAIN mcp THEN mcp[f].time ELSE None
ServersOf(mcp, f) == IF f \in DOMAIN mcp THEN mcp[f].servers ELSE <<>>

McpTools(servers) ==
  LET all == servers[4] @@ servers[3] @@ servers[2] @@ servers[1]
  IN [name \in {n \in DOMAIN all : all[n] # {}} |-> all[name]]

McpKey(mcp) == [f \in McpFiles |-> TimeOf(mcp, f)]
ToolsOf(mcp) == McpTools([f \in McpFiles |-> ServersOf(mcp, f)])

(* attachExtensionCapabilities: the tools of every server go to every      *)
(* extension and editor; Ollama before another local model that serves.    *)
LocalModels(rows) ==
  LET live == {e.product.id : e \in {r \in rows : IsRuntime(r) /\ r.serving}}
  IN IF live = {} THEN {None} ELSE IF "ollama" \in live THEN {"ollama"} ELSE live

LocalChoices(rows) == [{e \in rows : IsExtension(e)} -> LocalModels(rows)]

WithCapabilities(rows, mcp, tools, local) ==
  LET host(e) == IF IsEditor(e) THEN e.product.id ELSE e.host
      files(e) == FilesOf[host(e)] \cap DOMAIN mcp
      mcpOf(e) == [e EXCEPT !.servers = UNION {DOMAIN mcp[f].servers : f \in files(e)},
                            !.tools = tools, !.configured = files(e) # {}]
  IN {IF IsExtension(e) THEN [mcpOf(e) EXCEPT !.local = local[e]]
      ELSE IF IsEditor(e) THEN mcpOf(e) ELSE e : e \in rows}

(* Monitor.Poll keeps the installed rows of a known product.  Its          *)
(* fingerprint leaves the process ids out, but those of the clients in.    *)
IdOf(e) == <<e.product.id, e.app.path>>
Payload(e) == [e EXCEPT !.pids = {}, !.keys = {}]
Current(rows) ==
  {[id |-> IdOf(e), payload |-> Payload(e)] : e \in {r \in rows : r.product # None /\ r.installed}}
============================================================================
