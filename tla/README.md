# TrustEdge Agent: TLA+ models and proofs

This directory is a verification development for the TrustEdge agent (Go,
`cmd/`, `internal/`, `scripts/`). It holds TLA+ modules translated from the
source, TLC configurations that check them on small instances, and TLAPS proofs.
All but two of the safety properties that the runs check, and the refinement of
the abstract outbox, are also proved, for every value of the constants
(section 5). `PROJECT.json` is the index: components, runs, mutants (how each
property can be broken by a plausible bug), the map from definitions to source
lines, findings, hazards and theorems.

## 1. The system

The agent runs on an end-user device. Collectors observe the machine and
enqueue events; one batcher uploads them to the ingest API; a gateway, in a
process of its own, proxies MCP traffic of AI clients and drops events into a
directory the agent drains.

    collectors --Enqueue--> EventBatcher --postEvents--> API client --HTTP--> ingest API
     process / network /       |  ring in memory             |
     connections / security /  +- ring file                  +-- 401: auth.go, credential store
     AI inventory / action
          |  process changes --> RuntimeFeed --wake--> AI inventory
    MCP gateway, Cursor hooks --files--> inject directory --drain--> Enqueue

| component | state | operations | hard part | what makes it correct |
|---|---|---|---|---|
| Event ring `internal/agent/ring.go` | events, drop counter, file | Push, Peek, Ack, load, persist | overwrites, failed writes, other capacity after a restart | every loss counted, file as good as memory |
| Event batcher `batcher.go` | wake channel, timer, backoff | Enqueue, Run, Flush, nextBackoff | flush works on a copy while Enqueue goes on; crash between post and ack; shutdown race | order, accounted losses, explained duplicates, no lost wake-up, drains |
| Registration and auth `auth.go` | authMu, device id | ensureRegistered, registerLocked, recoverAuth, postEvents | concurrent 401s, lost answers, failing store | one registration at a time, good tokens kept, recovery |
| API client `internal/api/client.go` | token and its lock | Register, PostEvents | token read again for each request | (with auth) |
| Credential store `internal/credentials` | state.json, keyring, old keyring service | Load, Save, ClearToken | two stores, migrations that stop half way | token implies identity, identity stable |
| Agent process `agent.go`, `cmd/trustedge-agent` | goroutines, context | start, loops, shutdown | main does not wait for the final flush | pending events are on disk |
| Inject directory `inject.go`, `internal/mcp/events`, `turnctx`, `scripts/cursor-governance` | files | write + rename, drain | crashes on both sides, another file in the same directory | never lost, delivered |
| Process monitor `internal/collect/process` | PID table, ready flag, watcher channel | Observe, Poll, applyPollChanges | stale snapshots, missed events, the cap | table is what was told, converges |
| MCP policy `internal/mcp/policy` | the policy file | New, Evaluate | order of rules, undecided rules | (with the gateway) |
| MCP gateway `internal/mcp/gateway`, `interceptor`, `protocol` | two goroutines, pipes, child process | Run, proxy both ways, OnToolsCall | bounded pipes, ends on either side, cancellation | blocked calls stay out, unique answers, delivery, ending |
| Network summary monitor `internal/collect/network` | last summary and link, debounce timer, output channel | Run, emit, checkLink, scheduleEmit, stopDebounce | send with the lock held, late callback, two emits at once | last report converges, Run ends, channel closed safely but for one race |
| Connection monitor `connection_monitor.go`, `connections.go` | fingerprints, name cache | Poll, listings of three systems | cap, baseline, failed listings | repeats explained, one name per address |
| Security monitor `internal/collect/security` | last snapshot, debounce timers, wake channel | Poll from two goroutines, debounceWake | overlapping polls, partial listings, closed channel | reports converge, repeats explained, no wake lost |
| AI inventory `internal/collect/apps` (monitor, engine, runtime feed) | last inventory, install index, tools cache, feed and wake channels | Poll from two goroutines, Inventory in ten readings, ObserveChange | readings that fail, older poll compares last, unlocked caches | removals explained, tools follow the files, starts reach a poll, converges |
| Discovery and identity `internal/collect/apps` discoverers, `internal/identity` | three caches | discover, provenance, signature, match, score | verdict cached in two calls under a stamp; symbolic links | no verdict without evidence, halves agree, stale explained |
| Action tracker `internal/collect/action` | counters of a window | Sample, SnapshotAndReset | sample against the end of a window | windows are exact |
| Config, codec, models, clock, platform probes, sanitizer | none after start | pure functions, I/O | - | not modelled |

## 2. Modules

    EventRing <-- EventBatcher <-- EventBatcherOutbox --(Promise: INSTANCE Outbox)
                                     ^            ^
                       EventBatcherProofs         MCEventBatcher
    AuthRecovery   <-- MCAuthRecovery, AuthRecoveryProofs
    ProcessMonitor <-- MCProcessMonitor, ProcessMonitorProofs
    InjectDir      <-- MCPollers, GatewayProofs
    McpPolicy <-- McpGateway <-- MCMcpGateway, GatewayProofs
    NetworkState <-- NetworkMonitor <-- MCNetworkMonitor, NetworkProofs
    SecurityArtifacts <-- SecurityMonitor <-- MCSecurityMonitor, SecurityMonitorProofs
    SocketTable <-- ConnectionMonitor <--+
                        ActionTracker <--+-- MCPollers, NetworkProofs
    Matcher, AppCaches <-- Discovery <-- Identification <-- MCIdentification,
                                                            IdentificationProofs
    RuntimeInventory <-- AiInventory <-- MCAiInventory, AiInventoryProofs

A proof module that EXTENDS several components (`GatewayProofs`,
`NetworkProofs`) composes nothing: each of its theorems is about the
specification of one of them. `MCPollers` likewise puts three components that
share no state side by side in one run.

Three of the collectors come in two layers. The lower module is pure: what is
read of a host, how it is reduced to what is compared, and what a reading that
fails in part leaves (`NetworkState`, `SecurityArtifacts`, `RuntimeInventory`).
The upper one is the concurrent machine over it: goroutines, locks, channels,
timers. A host is one of a few named records, so that what the code computes is
computed, and how the host changes is a relation (`Near`) given by the instance.

**EventRing** is `ring.go` as pure operators on a record of the pending events
and the drop counter. Events are numbers in the order of their pushes.

**EventBatcher** is the state machine of `batcher.go` over it. The ring's lock
is held by one operation at a time, so Push, Len, Peek and Ack are atomic;
Enqueue is three actions (`EnqueuePush`, `EnqueueTest`, `EnqueueSignal`), for
between them other goroutines run. `pc` follows Run: `select`, then `peek`,
`post`, `ack`, `finish`. The ring's file (`disk`) is replaced by a rename, so a
failed write leaves the previous content; `PersistLocked` is part of each
action that calls it. `PostTaken` and the outcome of a post are separate: the
API may take what the agent thinks failed. `Start`, `ProcessEnds` and `Cancel`
are the process: it may end anywhere, and after a cancellation main returns
without waiting for Run, which is `ProcessEnds` again. History variables
(`pushed`, `accepted`, `droppedAtPeek`, `streak`) are read by no guard except
the bound on pushes.

**Outbox** is what a collector or operator is promised, without rings or files:
an offered event is pending until delivered or lost, both final, and losses
never outnumber what is accounted for. **EventBatcherOutbox** gives the
refinement mapping: an event is lost when it is in none of the ring, the file
and the batch in flight, and losses are accounted for by the persisted drop
counter and the failed writes of the file, each of which is logged.

**AuthRecovery** is `auth.go` with the client and the credential store. `Main`
starts the process and registers; posters call `postEvents`. The token noted
before the post (`failedToken`) and the one the request carries (`usedToken`)
are separate reads, as in the code. `Load`, `Save` and `ClearToken` are
translated with their error paths and half-done migrations.

**InjectDir**: files appear by rename, the agent lists, reads, enqueues and
removes, and both sides may end between two steps. `Turn` is
`.active-turn.json`.

**ProcessMonitor**: the machine's process table, the watcher's bounded channel,
`Observe`, and `Poll` in two steps, because the table is listed before the lock
is taken. `told` records what was last reported of each PID.

**McpPolicy** and **McpGateway**: the evaluation of a policy, and the two proxy
goroutines with bounded pipes to a client and a server of which only reading,
writing and ending is modelled. A message is a call of a tool (a `tools/call`
request), another request, a message without an id (`Notice`) or a line that is
not JSON; `proxyClientToServer` is `cpc`, `proxyServerToClient` is `spc`, and
Run is `rpc`. A `tools/call` without an id is a notice: the code forwards it
without asking the policy and without a report (`gateway.go:150`), so
`BlockedStaysOut` and `ReportedFirst` speak of requests only.

**NetworkState** is `network.go` and `network_state.go`: the usable interfaces,
the link fingerprint, the summary's parts and the five busiest ports, and what
is left of them when the public address, the interfaces or netstat cannot be
read. **NetworkMonitor** is `network_monitor.go`: `pc[Main]` is Run's
goroutine, the other entries of `pc` are callbacks of `time.AfterFunc`. emit is
`Summary` (before the lock), `Post` (under it, with the second reading of the
link) and `Send` (the select, lock still held); `Stop` and `Close` are Run's
deferred calls, in the order in which they run. A send on a closed channel sets
`panicked`, after which nothing happens.

**SecurityArtifacts** is the listing of `security_darwin.go` (plists of the
launch directories, kernel extensions) and `security_windows.go` (the script's
rows) with identifiers and fingerprints. **SecurityMonitor** has the two
pollers (`List`, `Compare` under the lock, `Enqueue` one change after the
other) and `debounceWake`: `Receive` restarts the timer, `Fire`, `Flush` and
`Send` are its callback, `ReceiveClosed`, `ReceiveDone` and `CloseOut` its end.

**SocketTable** says what `connections.go`, `listeners.go` and `loopback.go`
keep of the rows of lsof, ss and netstat. **ConnectionMonitor** is Poll, called
by a single loop: its errors, the silent baseline, the cap, and the cache of
names that keeps failures too. **ActionTracker** is `actions.go`: what a sample
or the end of a window reads before it takes the lock is a step of its own.

**Matcher** is `internal/identity`: candidates, evidence, the factors that
agree or fail, and the ladder from UNKNOWN to VERIFIED; which name is found
within which (`strings.Contains`) is a constant, `Within`. **AppCaches** has the
bounded caches as sequences. **Discovery** finds bundles, commands through
symbolic links, containers and extensions on a disk given as a function from
paths to nodes, with their provenance, package.json and signatures.
**Identification** is `identifyInstalled` of `engine.go` for two polls at once:
look up, read, put the identity, put the verdict, each with the caches as they
are by then.

**RuntimeInventory** is what each step of `Engine.Inventory` makes of its
readings: installed rows, extensions and skills, running processes and the
index that resolves them, listeners and their exposure, clients, MCP servers
and tools. `OnDisk` is what the discovery, the extensions and the skills give
before anything is known to run; rows and processes are gone through one by one
by recursive functions. **AiInventory** composes these steps into the two polls that share
an engine, with `RuntimeFeed` (`ObserveChange`, `RunFeed`) and the comparison
and enqueueing of `monitor.go`. Each reading is an action of its own that may
fail. The four MCP configurations (two of each editor) are taken file by file:
the times of an editor's two (`StatConfig`), then what they declare
(`ReadConfig`), then the other editor's, and then the servers are asked
(`ListTools`); a file may be written between any two of these. The tools cache
takes four actions (`Keep`, `UseTools`, `StoreKey`, `StoreTools`), as nothing
locks it. The feed judges a start by the name of the process alone
(`LooksLikeCandidate`), because the name, which is always a bare one, replaces
the paths (`runtime_feed.go:154`). `configs`, `torn`, `partial` and `raced` are
history: the configurations there have been, a file written between its time
and its content, a server that did not answer, two polls in the cache.

Operators whose names end in `Bug` are not part of any specification. They are
mutated forms of the definition that follows them, used to show that a property
notices such a mistake in the code.

## 3. Runs

| run | what it asks | bounds |
|---|---|---|
| `event_batcher` | all safety of the upload path, and that it implements Outbox | 2 producers, 4 events, capacity 2 or 3 chosen at each start, batches of 2 posted one by one, 1 failed write, 1 failed upload, 3 starts |
| `event_batcher_live` | the queue drains; the shutdown flush ends | 1 producer, 3 events, capacity 2, whole batches, 2 failed uploads, 1 failed write, 2 starts |
| `auth_recovery` | registration, recovery, credentials, from four initial stores | 2 posters, 2 revocations, 1 lost answer, 1 failed store operation, 2 starts |
| `process_monitor` | table = what was told, convergence | 2 PIDs reused by 3 processes, cap 1, channel 2, 1 missed event |
| `mcp_gateway` | policy, answers, delivery, ending | 3 policies, 2 tools, 3 messages, pipes of 1, 1 garbled line |
| `network_monitor` | convergence, stopping, the closed channel | 3 states of the network, 2 changes, 1 failed reading, channels of 1, 2 callbacks |
| `security_monitor` | wakes, repeats, convergence, the closed channel | 3 states of a Mac and 2 of a Windows host, 2 timers, channel of 1, 2 changes or failures |
| `pollers` | repeated reports, names, exact windows; injected events never lost, delivered | macOS and Windows, 6 kinds of rows, cap 1, 4 sockets opened or closed, 1 failed listing; 2 applications, 4 samples, 2 windows; 2 good events, 1 unsupported, 2 turns, 2 crashes, 1 failed removal |
| `identification` | evidence of verdicts, the two halves, stale verdicts | 7 disks, 5 products, 3 polls, 2 at a time, 1 change, 1 failed signature, caches of 1, 2 and 1 entries |
| `manifest_above` | finding: a manifest above an extension | the same |
| `ai_inventory` | removals, tools, starts, convergence | 11 states of 4 hosts, feed of 1, 2 changes or failed readings |
| `candidate_paths` | finding: the paths of the catalog select no candidate | the same |

Why the bounds are enough.

- *Upload path.* Four events over a ring of two or three fill it, overwrite
  during a post and overwrite more than the batch; three starts give two
  crashes or restarts, with any phase before them, so that the capacity can
  shrink and then grow again, which is what it takes for an event cut off by a
  start to come back; one failed write is needed to make file and memory
  differ, and which write fails is free.
- *Auth.* Two posters are what a race of two 401s needs, and with two
  revocations a token can be revoked while another is recovered.
- *Processes.* Two PIDs and a cap of one make the cap absorb a start, and a
  third process reuses a PID.
- *Gateway.* Pipes of one message and three messages fill every pipe between
  client and server.
- *Network.* Three states: one move changes link and summary, one only the
  summary, so a change can be told to the watcher or be left to the heartbeat.
  Two callbacks is the most that overlap: one still in emit and one of a timer
  armed since. A channel of one is full at the second report.
- *Security.* Two changes make a notification arrive while a flush is under
  way and while a poll lists; an entry can change, leave and come back; on a
  Mac a listing can miss any subset of plists.
- *Pollers.* With a cap of one and two connections opened between two polls the
  cap cuts; a row of a connection with another command gives the same
  fingerprint; a private address, one without a process and one on the loopback
  are the rows that are dropped or not named. Four samples cover two
  applications in both orders on both sides of a window's end.
- *Identification.* Every disk is there for one hard case: an update of a
  bundle, an update that keeps the stamp, a signature of another signer, an
  extension with and without a manifest above it, a command behind a link that
  is retargeted, a loop of links, a look-alike, an image behind a registry's
  name. With room for one entry, the other poll evicts an identity between
  its two puts, and the third poll meets what is left of it.
- *AI inventory.* Each host gives one part of the engine its cases (a local
  runtime with listeners and clients, bundles inside and outside the discovery,
  an editor with extensions, skills and MCP servers in up to three files, some
  replaced by those of a later one or without tools, containers). Two events
  allow a change and a failed reading, or two of either, at every point of two
  overlapping polls.

Symmetry is used for the producers of the batcher's safety run and for the two
pollers of the identification runs: they run the same code and the properties
there are all safety properties. `CHECK_DEADLOCK FALSE`
stands where the system may stop: a process that has used its starts, a gateway
or monitor that has returned, a panic. The type invariants are not among the
runs' properties: they are proved (section 5) or say no more than the actions.

**Fairness.** Goroutines that can run do (weak fairness of Run, Enqueue's
remaining steps, the gateway's goroutines, the monitors' loops, callbacks,
ticks). Go's select chooses at random among ready cases, so a done context is
chosen in the end (strong fairness of `SelectDone`, and of `ReceiveSignal`,
`Heartbeat` and `Stop` of the network monitor). A mutex is handed on, so a
poster waiting for authMu gets it (strong fairness of the recovery steps). HTTP
requests end, because the client has a timeout of 30 s; a poll of the AI
inventory that begins ends, because its requests and commands have timeouts.
Nothing requires a process to start or to end, a client to write or close, a
server to stay up, a host to change or an agent to be cancelled; an MCP server
is taken to exit at the end of its stdin, and a client to read what it is sent.
Failures are bounded by counters, so "in the end" means "once failures stop".

**Reading the weaker properties.** Where the code lets something go wrong, the
property names the cause and the model keeps track of it, so that the property
says "this and nothing else": `PanicNeedsLateCallback` and
`PanicNeedsStrayFlush` (each of the two channels can be closed under a callback
that had already begun, and in no other way), `OnlyGapsReannounce` (a listing
that failed without an error), `RepeatsAreExplained` (an artifact that left the
host after the listing it was told from, a listing that missed something, two
polls at a time), `FirstDeliveryInOrder` (`cutOff`: an event that a start with a
smaller capacity left in the file), `HalvesAgree` (`unsure`, and `torn`: an
entry that left the full cache between its two puts), `RemovalsAreExplained`,
`StaleIsExplained`, `ToolsFollowConfig` (`partial` and `raced` excuse; `torn`, a
file written between its time and its content, excuses newer tools under an
older time, never older ones). The causes that appear in them are the
first places a maintainer should look at. For those that are theorems the list
of causes is complete.

## 4. What was found

Two runs are expected to end in a counterexample and are listed in `findings`.

`manifest_above`: an extension is identified through the same package provenance as a
command, so a `package.json` up to eight folders above the extension replaces
the manager and package of its own manifest (`provenance.go:78`), although
`extension_inventory.go:97` calls the extension's own manifest authoritative.

`candidate_paths`: `looksLikeCandidate` looks up the bundle around an executable
and then replaces both paths of the application by its base name
(`runtime_feed.go:154`), on the condition that the name is a bare one, which it
is on every system. So the paths of the catalog, which `identity/models.go:71`
says are there for candidate generation, select nothing in the feed: an
editor's extension host starts inside `/Applications/Cursor.app` and no poll is
woken; the ticker finds it later. `StartReachesPoll` is about what the code
takes for a candidate.

The following disagreements between the code and the repository's words were
met while modelling. The models do what the code does; no run is spent on them.

Upload path and agent:

- Flush acks `len(batch)` events, whatever is in front by then
  (`batcher.go:166`; `docs/architecture.md:260` speaks of the uploaded ones).
  When the ring overflowed during the post, events that were never uploaded are
  removed. `EveryLossCounted` and `BatchInFlight`, both proved, say what holds:
  the number lost this way never exceeds the drop counter, because the
  overwritten events of the batch were delivered though counted as dropped.
- `OpenEventRing` cuts a queue that is longer than the capacity in memory only
  (`ring.go:116`); the file keeps the events that were cut off. If nothing is
  written before the next start, and that start has room, they are restored
  although newer ones may have been delivered: the bounded FIFO of
  `ring.go:14` delivers them late. Capacities 3, 2, 3 show it; no other event
  is ever out of order (`FirstDeliveryInOrder`).
- A wake-up during a failing upload starts the next one at once, without the
  delay (`batcher.go:129`; `docs/agent.md:183`).
- `auth.go:26` says "continuing with stored credentials" also when the
  registration succeeded and only its save failed, in which case the client
  already carries the new token (`client.go:87`).
- The drain removes `.active-turn.json` from the inject directory
  (`inject.go:53`; `turnctx.go:20`).

Processes and gateway:

- If the watcher speaks first, the first poll reports all processes as started
  (`process_monitor.go:79`; `docs/collection.md:98`).
- An exit found by the poll is reported again by the watcher
  (`process_monitor.go:92`; `docs/architecture.md:172`).
- Run waits for a goroutine blocked in a read of the client after its context
  was cancelled (`gateway.go:124`; `gateway.go:69`).
- `docs/mcp-gateway.md` and the package comment of `internal/mcp/protocol`
  speak of Content-Length framing while the gateway reads and writes one
  message per line.

Other collectors:

- A service's or driver's fingerprint is its name, so a change of what it runs
  is no change, though `security_monitor.go:18` promises "new or changed".
- A row of lsof whose command begins with "tcp" is passed over
  (`connections.go:181`).
- A failed name lookup is cached like a name, for as long as the agent runs
  (`connections.go:97`).
- VS Code's product pins no signer, and an empty list counts as satisfied, so
  its name alone gives MEDIUM (`matcher.go:271`).
- The fingerprint of the inventory leaves PIDs out, but `local_clients`, which
  carries PIDs, is in it (`monitor.go:239`): a client that restarts makes a
  report.
- A server that does not answer once leaves the MCP tools in the cache partial
  until `mcp.json` changes (`extension_capabilities.go:110`); the key and the
  tools are two assignments without a lock; and the servers are asked at every
  poll although their tools are cached.
- The times that make the key of the MCP tools are taken before the files are
  read (`mcp_discovery.go:39`, `:52`), so a file written in between leaves the
  tools of the new content under the old key, until the next poll finds the new
  time. `ToolsFollowConfig` says that this is the only mixture there can be.
- `dockerPortsByPath` is a map of the package used by both polls without a
  lock (`docker_discover.go`); the runtime may end the program. The model ends
  too (`crashed`).
- The order of Go's maps decides which of several rows stands for an
  executable, so reports may go back and forth on a host that does not change;
  the model allows every order and `InventoryConverges` accepts any inventory
  the host deserves.
- A bundle outside the application folders counts as installed only while it
  runs.
- The identity and the verdict of a cache entry are put by two calls
  (`engine.go:374`). If the cache is full (320 entries, `cache.go:10`) and the
  entry is evicted between them, the second put files a verdict without an
  identity, and the next put of an identity, after an update that keeps the
  stamp, stands beside the old verdict until its own verdict is put.

## 5. Theorems

Each safety property is proved by an invariant that implies it, holds
initially and is preserved by every step. An action property follows from such
an invariant and the step. What the invariants add to the properties, and why
it is needed:

**The upload path** (`EventBatcherProofs`, about `Spec` of EventBatcher). The
module first says what Push, Peek, Ack and Load do to the held events and the
counter, for every ring, capacity and batch size.

- `TypeCorrect`: `[]TypeOK`.
- `LossesAreCounted`: `[]EveryLossCounted`. Alone it is not inductive: Ack may
  remove events that were never uploaded, so one must know how much of the
  batch was overwritten meanwhile. `LossInv` adds the form of the ring
  (increasing numbers, none beyond `pushed`, never longer than the capacity),
  the relation of file to memory, and `BatchInFlight`: of a batch peeked at
  drop count d, as many events are gone from the ring's front as the counter
  has grown, and the losses outside the batch are covered by d and by the drops
  beyond the batch. At Ack the two cancel: what Ack takes without upload is no
  more than what was counted as dropped though it was uploaded.
- `BatchesTrackTheRing`: `[]BatchInFlight`.
- `PendingIsOnDisk`: `[]PendingIsDurable`. With the types it is inductive: a
  write that succeeds leaves the file equal to the ring, one that fails ends
  the premise, and `Load` restores no more than the file has.
- `DeliveriesAreInOrder`: `FirstDeliveryInOrder`. `OrderInv` says where events
  can be (`KnownInv`) and in which order: ring, file and batch are increasing,
  what is behind the batch in the ring is newer than the batch, the file
  follows the ring, and whatever is held and was neither delivered nor cut off
  is newer than all that was delivered.
- `OutboxIsImplemented`: `ImplementsOutbox`, the refinement. Initial states map
  to initial states, and every step of the batcher is a step of Outbox under
  the mapping (Offer, Deliver, Lose) or a stutter. `OutboxInv` joins the two
  invariants above with `DropsGrow`: the counter in memory is never behind the
  one in the file, so a write of the file takes no loss back.
- `NoWakeupIsLost`: `[]NoLostWakeup`, inductive with the types, by one argument
  for the steps of the loop and one for those of Enqueue: the loop comes to its
  select only by FlushReturns, which leaves a token when a batch is left, or by
  Start, and from there on whoever lengthens the queue signals afterwards.
- `DelaysFollowFailures`: `[]BackoffFollowsFailures`. The property says the
  delay in closed form, by the recursive function `Doubled`.

**Registration and recovery** (`AuthRecoveryProofs`): `TypeCorrect`,
`RegistrationsAreSerial` (`[]OneRegistrationAtATime`), `TokensAreIdentified`
(`[]TokenHasIdentity`), `IdentityStays` (`IdentityIsStable`) and
`GoodTokensAreKept` (`OnlyRejectedTokensAreCleared`). The inductive invariant
has, beside the types, three parts. `Control`: who registers holds authMu,
posters wait until Main runs, and a device id is there from the first
registration on. `Identity`: what is about to be saved is a registered device,
and the one saved before. `Refused`, for the race of two 401s: an answer is
newer than every token that a poster has noted, so once a token has been
replaced no noted token equals it; therefore a poster that finds the token of
memory equal to its noted one has used that very token and was refused.

**The gateway and the inject directory** (`GatewayProofs`). Of McpGateway:
`TypeCorrect`; `EffectsAreReported` (`[]ReportedFirst`), `BlockedCallsStayOut`
(`[]BlockedStaysOut`), `RequestsAreAnsweredOnce` (`[]AnsweredOnce`). Their
invariants say of each place a message can be what it is there. For the first:
it is one the client has sent under its name, and past the interceptor a call is
in `emitted`. For the second (`BlockInv`): what is at the refusal is blocked,
what is bridged or forwarded is not, and every refusal bears the name of a
blocked call; a lemma shows that Evaluate, which takes the least matching rule,
says what `PolicyBlocks` says without it. For the third (`OnceInv`): the names
on the way to the gateway, in its hands, at the server, on the way back and
answered are six sets without common members, and within each queue no name
comes twice. The sequences are over sets that grow as the client sends, so that
a step moves an element from a sequence over one set to one over the same set.
Of InjectDir: `InjectTypeCorrect` and `NothingIsLost` (`[]NeverLost`),
strengthened by `QueuedFirst`: the file in hand, about to be removed, has been
queued.

**The process monitor** (`ProcessMonitorProofs`): `TypeCorrect` and
`TableIsTold` (`[]SeenIsTold`), for which one must add that the table is empty
until the monitor is ready: the baseline replaces the table without reporting
exits.

**Network, connections, action windows** (`NetworkProofs`). Of NetworkMonitor,
`TypeCorrect` and `OneRacePanics` (`[]PanicNeedsLateCallback`): Run stops the
timer before it closes the channel and only Run arms it, so after the close no
callback is born; one that is running then was running at the close. Of
ConnectionMonitor, `AddressesHaveOneName` (`[]OneNamePerAddress`; `NamesInv`:
every address reported is in the cache of names, under the name reported, or
is one that is never looked up) and `OnlyGapsReannounceThem`
(`[]OnlyGapsReannounce`; `GapInv`: while no listing was empty by a failure, a
connection that is known and has not closed is open, and is in the list the
monitor keeps, also when the cap kept it out of a report). Of ActionTracker,
`SamplesAreCountedOnce` (`[]WindowsAreExact`; `WindowInv` adds the types and
that the last application is the last sample, and counts every application, not
only those sampled).

**The security monitor** (`SecurityMonitorProofs`): `OneRacePanics`
(`[]PanicNeedsStrayFlush`) from the state of the timers alone: when the debounce
loop leaves, the timer it remembers is not armed, so what is neither flushing
nor forgotten at the close is free and stays so. `RepeatsHaveAReason`
(`RepeatsAreExplained`): `RepeatInv` says, as long as no listing missed anything
and no polls overlapped, that what was told and has not left is in the table the
next poll compares with, and how a listing, a comparison and the changes still
to be enqueued relate to what has left since.

**Identification** (`IdentificationProofs`): `EntriesAreWhole`
(`[]HalvesAgree`) and `VerdictsHavePins` (`[]PinsBackVerdicts`). `FilingInv`
says that no key is twice in a cache, what a poll has in hand, that a key is in
the hands of one poll unless it is excused, and that an entry is settled or in
the middle of its two puts. For the second, `BackedInv` says that what is kept
and what is reported is backed by evidence; that Identify only gives such
results is proved of the matcher, rung by rung of its ladder, for any catalog
and application.

**The AI inventory** (`AiInventoryProofs`): `ToolsAreOfTheirConfig`
(`[]ToolsFollowConfig`). The configurations there have been are a sequence that
only grows (`configs`), and what a poll has read is stated against its
positions. `Settled`: the time of a file is of position s, its content of r,
s <= r, and s = r unless the file was written in between; `FoundIn`: that is so
of all four files, and the tools are those of what they declare. Both stay true
when the sequence grows (`ReadStays`). `ToolsInv`: at each place of the reading
(`Progress`), the files read so far are settled and the times taken so far are
of some position; and unless a server was missed or two polls were in the cache
at once (`Sound`), at most one poll is in the critical part, what a poll has
was found under its times, and what is kept was found under the key, except
between the two assignments that replace them. `RemovalsHaveAReason`
(`[]RemovalsAreExplained`): what is told of an inventory are the ids of its
installed rows, so the proof follows the ids that were there all the time
(`steady`) through the readings of a poll. Of the operators of
`RuntimeInventory` it shows that every reading after that of the processes
leaves the path, the product and the keys of each row as they are
(`ListenersSame`, `ClientsSame`, ...), that one process or all of them keep the
rows that are there and add at most the bundle they run in (`CorrelateKeeps`,
`ProcessesKeep`, `ProcessesFind`), and which rows the disk gives, whichever row
of an editor is its host (`OnDiskOfDisk`, `OnDiskTells`). Hence a pass over a
host tells what is on its disk or a bundle that runs (`PassesFrom`).
`RemovalsInv`: before the processes are read, an id is told by the rows of the
poll or is of a bundle no discovery lists; after that, the rows tell all of
them; and when the changes are enqueued no removal is of one. The table of the
monitor, which the other poll may have written, need not be in it: a removal is
of an id that the poll's own rows do not have.

The theorem is about hosts that show the same software whenever each reading is
made. `HostsArePlain` says what that is:

- the folder of an extension is not also the path of an application;
- what `ResolveBundle` reads of a bundle lies at the bundle's path
  (`readAppBundle` sets it);
- a bundle that can be read but is not in the rows of the disk is one the
  discovery would not list on any host: it lists the bundles of fixed folders,
  with the reader that `ResolveBundle` uses too;
- a running bundle that is not in the rows of the disk either can be read and
  is run under its path, or its executable is of no product.

Without the third, an app that one reading misses because only a process shows
it, and the next because only the discovery does, would be told as removed
though it never left; without the fourth, whether a bundle has a product would
depend on which of its processes `ps` lists first, or on the install index,
which may be that of the other poll. TLC evaluates `HostsArePlain` on the
instance (`MCHostsArePlain`), whose hosts include a bundle outside the
application folders, run by two processes.

*Induction over numbers.* The library's induction theorems take an operator as
their parameter, which the provers cannot instantiate. Where a proof needs
induction (the first matching rule, the ladder's first rung, `Doubled`, the sums
`Total` of the windows) it uses `LeastNumber`: a nonempty set of numbers has a
least member, which is first-order and follows from the well-foundedness of
strict inclusion of finite sets (FS_StrictSubsetOrderingWellFounded). From it
come `UpTo` (a set that has 0 and with each number the next has all of them) and
the recursive functions: that there is a function with the recursion's
equations is shown from its beginnings, one for each length.

*Assumptions.* The named ones on the constants: capacities, batch size, delays,
caps and channels are positive (as `NewEventBatcher`, `OpenEventRing` and the
constants of the collectors make them), sets of PIDs are finite, names of files,
goroutines and timers are distinct from those of nobody, and bounds are natural
numbers. Besides: the catalog is a sequence (`MatcherAssumption`), an
application on the disk has a path (`AiInventoryAssumption`), and an
application in the foreground has a bundle or a name (`ActionAssumption`,
`validForeground`). The bounds are arbitrary in the theorems, so these hold for
any number of events, failures and restarts.

*Only model-checked.* `StaleIsExplained`. It depends on what the instance's
disks are, not on the machine alone: the discoverers' caches are keyed by
stamps, so a row may join what two disks had under one stamp, and which rows
deserve which verdicts is a matter of the disks that share stamps. And all
liveness (`Drains`, `ShutdownFlushEnds`, `AuthRecovers`, `Reconciles`,
`Delivered`, `EveryRequestAnswered`, `EndsAtEof`, `StopsOnCancel`,
`SummaryConverges`, `WakeReachesPoll`, `ReportsConverge`, `StartReachesPoll`,
`InventoryConverges`), which the prover does not do under fairness.

## 6. Not modelled, and abstractions to know

- Event contents, timestamps and the metrics line; the sanitizer and the agent
  actions, which are functions of a payload.
- Configuration, codec, clock and records: no state after start; what the
  configuration allows is constants here.
- The credential store without a keyring: one file replaced by a rename.
- Platform probes (`ps`, `lsof`, `ss`, netstat, PowerShell, kqueue, netlink,
  EndpointSecurity): what they show is an input, and that they may fail or show
  less is part of the readers. Of their formats only what decides whether a row
  is kept is modelled. The process watchers of macOS and Windows are the
  channel of ProcessMonitor.
- The queue path may be empty (no durability): the model always has a file.
- The ingest API answers a registration with the device id it was sent, as the
  tests' server does; it may take a request whose answer is lost.
- A write of a file by rename is atomic and survives; power loss that undoes
  a rename (there is no fsync) is not considered.
- Process rows are reduced to the process, so payload enrichment by parent and
  previous row is left out.
- The gateway's writes to the client do not fail.
- Instances of an application (`instance.go`), which the agent does not call,
  and the tracker of running processes in the feed, which nothing reads.
- Scans of skills and model files are inputs of the inventory, as are the
  answers of Ollama; `docker ps` is a set of containers.
- What an MCP server lists is taken to be a matter of its configuration (a
  server that lists other tools later under the same one is a change of host),
  and listing to end with its timeout of twenty seconds: a grandchild of the
  server that holds its output open is outside the model.
- Slices of a cached identification share their backing array with its copies;
  the models copy values.
- The inventory's two layers meet in the product of a row: Identification says
  which product a row has, AiInventory takes rows with products. A verdict that
  changes between two polls is a change of host there.

## 7. Plan

1. *Proofs.* That the caches of the discoverers never hold what no disk of the
   past had, under an assumption on how disks share stamps (the way to
   `StaleIsExplained`); `RemovalsAreExplained` for bundles that cannot be read,
   when all the processes of one show the same product.
2. *Composition.* The process monitor's reports through the queue, and the
   gateway's calls through the inject directory into the batcher, with
   end-to-end order and delivery.
3. *More of the code.* The watchers of macOS and Windows, validation of the
   configuration, agent actions.
