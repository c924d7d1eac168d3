--------------------------- MODULE Identification ---------------------------
(* How an inventory identifies what it discovers (apps/engine.go): each    *)
(* poll of the agent's two pollers lists the disk, looks every row up in   *)
(* the identity cache, and reads and matches those it does not find. The   *)
(* two polls share the caches, which are locked one call at a time.        *)
EXTENDS Discovery

CONSTANTS
  Pollers,          \* the ticker, and the worker of the runtime feed
  Disks,            \* the disks there can be, a sequence
  Near,             \* Near[d]: the disks d can change to
  CacheCapacity,    \* DefaultCacheCapacity
  MaxChanges, MaxFailures, MaxPolls     \* bounds

ASSUME IdentificationAssumption ==
  /\ Near \in [DOMAIN Disks -> SUBSET DOMAIN Disks]
  /\ CacheCapacity \in Nat \ {0} /\ CliCapacity \in Nat \ {0} /\ MetaCapacity \in Nat \ {0}
  /\ MaxChanges \in Nat /\ MaxFailures \in Nat /\ MaxPolls \in Nat

VARIABLES
  disk, disks,          \* the index of the disk as it is; Disks
  cache,                \* Engine.cache: first the identity, second the identification
  cliCache, ownCache,   \* Engine.cliCache; the CLI discoverer's cache
  metaCache,            \* the metadata cache of extensions
  pc, todo, ids,        \* each poll: its place, the rows to identify, what it read of the first
  key,                  \* the cache key it took before reading
  found,                \* the rows it has identified
  past,                 \* the disks there have been
  began,                \* the disk its rows were listed from
  verdicts,             \* what each disk's rows deserve
  unsure,               \* keys read without their signature, by two polls at a time, or while
                        \* the disk changed
  torn,                 \* keys whose entry left the full cache between its two puts
  changes, failures, polls    \* counters of the bounds

caches == <<cache, cliCache, ownCache, metaCache>>
poll == <<pc, todo, ids, key, found, began>>
machine == <<disks, verdicts>>
vars == <<disk, machine, caches, poll, past, unsure, torn, changes, failures, polls>>

Now == disks[disk]

\* A reading of all there is on a disk, without the caches.
Rows(d) ==
  LET cli(names) == DiscoverCli(d, <<>>, names).rows
  IN Merge(Merge(DiscoverBundles(d), UNION {cli(n) : n \in Orders}), DiscoverContainers(d))
     \cup DiscoverExtensions(d, <<>>, DOMAIN ExtensionRoot).rows

Deserved(d) ==
  {[key |-> CacheKey(d, app), res |-> Identify(Signed(d, Provenance(d, app), "read"))] :
     app \in Rows(d)}

Init ==
  /\ disks = Disks /\ disk \in DOMAIN Disks
  /\ verdicts = [d \in DOMAIN Disks |-> Deserved(Disks[d])]
  /\ cache = <<>> /\ cliCache = <<>> /\ ownCache = <<>> /\ metaCache = <<>>
  /\ pc = [w \in Pollers |-> "idle"] /\ todo = [w \in Pollers |-> <<>>]
  /\ ids = [w \in Pollers |-> <<>>] /\ key = [w \in Pollers |-> <<>>]
  /\ found = [w \in Pollers |-> {}]
  /\ past = {disk} /\ unsure = {} /\ torn = {} /\ began = [w \in Pollers |-> disk]
  /\ changes = 0 /\ failures = 0 /\ polls = 0

\* Something is installed, updated, replaced or removed.
Change(d) ==
  /\ changes < MaxChanges
  /\ disk' = d /\ past' = past \cup {d} /\ changes' = changes + 1
  /\ UNCHANGED <<machine, caches, poll, unsure, torn, failures, polls>>

\* Inventory begins: the bundles, the tools, the containers.
Discover(w) ==
  /\ pc[w] = "idle" /\ polls < MaxPolls
  /\ \E names \in Orders :
       LET cli == DiscoverCli(Now, ownCache, names)
           rows == Merge(Merge(DiscoverBundles(Now), cli.rows), DiscoverContainers(Now))
       IN /\ todo' = [todo EXCEPT ![w] = SetToSeq(rows)]
          /\ ownCache' = cli.cache
  /\ pc' = [pc EXCEPT ![w] = "apps"] /\ found' = [found EXCEPT ![w] = {}]
  /\ polls' = polls + 1 /\ began' = [began EXCEPT ![w] = disk]
  /\ UNCHANGED <<disk, machine, cache, cliCache, metaCache, ids, key, past, unsure, torn, changes,
                 failures>>

Identified(w, app, res) ==
  /\ found' = [found EXCEPT ![w] = @ \cup {[app |-> app, res |-> res]}]
  /\ todo' = [todo EXCEPT ![w] = Tail(@)]

LookupBug(w) ==
  /\ pc[w] \in {"apps", "extensions"} /\ todo[w] # <<>> /\ key[w] = <<>>
  /\ LET fresh == CacheKey(Now, Head(todo[w]))
         old == {c \in Keys(cache) : c.path = fresh.path}
         k == IF old = {} THEN fresh ELSE CHOOSE c \in old : TRUE IN
     /\ cache' = Get(cache, k)
     /\ IF HasHalf(cache, k, "first") /\ HasHalf(cache, k, "second")
        THEN /\ Identified(w, Entry(cache, k).first[1], Entry(cache, k).second[1])
             /\ UNCHANGED <<key, unsure>>
        ELSE /\ key' = [key EXCEPT ![w] = k]
             /\ unsure' = unsure \cup (IF k \in Range(key) \/ began[w] # disk THEN {k} ELSE {})
             /\ UNCHANGED <<todo, found>>
  /\ UNCHANGED <<disk, machine, cliCache, ownCache, metaCache, pc, ids, began, past, torn,
                 changes, failures, polls>>

\* identifyInstalled looks the next row up; only a whole entry is a hit.
Lookup(w) ==
  /\ pc[w] \in {"apps", "extensions"} /\ todo[w] # <<>> /\ key[w] = <<>>
  /\ LET k == CacheKey(Now, Head(todo[w])) IN
     /\ cache' = Get(cache, k)
     /\ IF HasHalf(cache, k, "first") /\ HasHalf(cache, k, "second")
        THEN /\ Identified(w, Entry(cache, k).first[1], Entry(cache, k).second[1])
             /\ UNCHANGED <<key, unsure>>
        ELSE /\ key' = [key EXCEPT ![w] = k]
             /\ unsure' = unsure \cup (IF k \in Range(key) \/ began[w] # disk THEN {k} ELSE {})
             /\ UNCHANGED <<todo, found>>
  /\ UNCHANGED <<disk, machine, cliCache, ownCache, metaCache, pc, ids, began, past, torn,
                 changes, failures, polls>>

\* enrich: the provenance, cached, and the signature, which may fail.
Enrich(w, outcome) ==
  /\ key[w] # <<>> /\ ids[w] = <<>>
  /\ outcome # "read" => failures < MaxFailures
  /\ LET read == CachedProvenance(Now, cliCache, Head(todo[w])) IN
     /\ ids' = [ids EXCEPT ![w] = <<Signed(Now, read.app, outcome)>>]
     /\ cliCache' = read.cache
  /\ unsure' = IF outcome = "read" /\ began[w] = disk THEN unsure ELSE unsure \cup {key[w]}
  /\ failures' = IF outcome = "read" THEN failures ELSE failures + 1
  /\ UNCHANGED <<disk, machine, cache, ownCache, metaCache, pc, todo, key, found, began, past,
                 torn, changes, polls>>

\* The identity is put into the cache; then, in a call of its own, the verdict.
PutIdentity(w) ==
  /\ Len(ids[w]) = 1
  /\ cache' = PutHalf(cache, CacheCapacity, key[w], "first", ids[w][1])
  /\ ids' = [ids EXCEPT ![w] = Append(@, @[1])]
  /\ UNCHANGED <<disk, machine, cliCache, ownCache, metaCache, pc, todo, key, found, began,
                 past, unsure, torn, changes, failures, polls>>

PutIdentificationBug(w) ==
  /\ Len(ids[w]) = 2
  /\ LET res == Identify(ids[w][1]) IN
     /\ cache' = PutHalf(cache, CacheCapacity, CacheKey(Now, ids[w][1]), "second", res)
     /\ Identified(w, ids[w][1], res)
  /\ ids' = [ids EXCEPT ![w] = <<>>] /\ key' = [key EXCEPT ![w] = <<>>]
  /\ torn' = torn \cup ({key[w]} \ Keys(cache))
  /\ UNCHANGED <<disk, machine, cliCache, ownCache, metaCache, pc, began, past, unsure, changes,
                 failures, polls>>

PutIdentification(w) ==
  /\ Len(ids[w]) = 2
  /\ LET res == Identify(ids[w][1]) IN
     /\ cache' = PutHalf(cache, CacheCapacity, key[w], "second", res)
     /\ Identified(w, ids[w][1], res)
  /\ ids' = [ids EXCEPT ![w] = <<>>] /\ key' = [key EXCEPT ![w] = <<>>]
  /\ torn' = torn \cup ({key[w]} \ Keys(cache))
  /\ UNCHANGED <<disk, machine, cliCache, ownCache, metaCache, pc, began, past, unsure, changes,
                 failures, polls>>

\* The editors among the rows are the hosts whose extensions come next.
HostsOf(rows) == {row.res.product : row \in rows} \cap DOMAIN ExtensionRoot

Extensions(w) ==
  /\ pc[w] = "apps" /\ todo[w] = <<>>
  /\ LET seen == DiscoverExtensions(Now, metaCache, HostsOf(found[w])) IN
     /\ todo' = [todo EXCEPT ![w] = SetToSeq(seen.rows)]
     /\ metaCache' = seen.cache
  /\ pc' = [pc EXCEPT ![w] = "extensions"] /\ began' = [began EXCEPT ![w] = disk]
  /\ UNCHANGED <<disk, machine, cache, cliCache, ownCache, ids, key, found, past, unsure,
                 torn, changes, failures, polls>>

\* Rows of no product are dropped.
Finish(w) ==
  /\ pc[w] = "extensions" /\ todo[w] = <<>>
  /\ pc' = [pc EXCEPT ![w] = "idle"]
  /\ found' = [found EXCEPT ![w] = {row \in @ : row.res.product # None}]
  /\ UNCHANGED <<disk, machine, caches, todo, ids, key, began, past, unsure, torn,
                 changes, failures, polls>>

Next ==
  \/ \E d \in Near[disk] : Change(d)
  \/ \E w \in Pollers :
       \/ Discover(w) \/ Lookup(w) \/ PutIdentity(w) \/ PutIdentification(w)
       \/ Extensions(w) \/ Finish(w)
       \/ \E outcome \in Outcomes : Enrich(w, outcome)

Spec == Init /\ [][Next]_vars

------------------------------------------------------------------------------
(* What a row is worth was seen, not granted: a HIGH or VERIFIED result    *)
(* lists, in its own evidence, a pin of the catalog that agreed and what   *)
(* makes it count: a valid signature or an install provenance. Names and   *)
(* paths alone never do (matcher.go:21-22, confidence.go:4).               *)
Backing(confidence) ==
  {{"bundle_id", "signature_valid"}, {"package_identity", "package_provenance"},
   {"extension_id", "package_provenance"}}
  \cup (IF confidence = "HIGH" THEN {{"docker_image", "package_provenance"}} ELSE {})

PinsBackVerdicts ==
  \A w \in Pollers : \A row \in found[w] :
    row.res.confidence \in {"HIGH", "VERIFIED"} =>
      \E pins \in Backing(row.res.confidence) : pins \subseteq row.res.matched

(* The two halves of an entry are put apart (engine.go:374-375), yet its   *)
(* verdict is the one of its identity, unless two polls read the same file *)
(* at a time, its signature could not be read, or the entry left the full  *)
(* cache between its two puts, after which it is back with a verdict only. *)
HalvesAgree ==
  \A i \in DOMAIN cache :
    LET e == cache[i] IN
    e.first # Absent /\ e.second # Absent /\ e.key \notin unsure \cup torn =>
      e.second[1] = Identify(e.first[1])

(* A verdict taken from the cache is the one that a row with this key      *)
(* deserved on some disk of the past: it is stale only through an update   *)
(* that keeps the stamp of the keyed file, or for a key that was filed     *)
(* with a failed signature, by two polls at a time, or for a disk that     *)
(* changed during its poll (engine.go:356-382, 579-609).                   *)
StaleIsExplained ==
  [][\A w \in Pollers : \A row \in found'[w] \ found[w] :
       key[w] = <<>> =>
         LET k == CacheKey(Now, Head(todo[w])) IN
         k \in unsure \/ \E d \in past : [key |-> k, res |-> row.res] \in verdicts[d]]_vars

(* An extension is who its package.json says, not its folder, nor what     *)
(* lies above it (extension_inventory.go:97).                              *)
PackageJsonIsAuthoritative ==
  \A w \in Pollers : \A row \in found[w] :
    LET file == row.app.path \o <<"package.json">>
        d == disks[began[w]]
    IN Exists(d, file) => row.app.package = d.files[file].id
==============================================================================
