----------------------------- MODULE Discovery -----------------------------
(* What an inventory finds on a disk (internal/collect/apps): application  *)
(* bundles, command-line tools behind symbolic links, containers and IDE   *)
(* extensions; and what it reads of each: package provenance, package.json *)
(* and code signature. A disk d has d.files, a function from the paths     *)
(* that exist to nodes, d.containers, and d.signatures.                    *)
EXTENDS Matcher, AppCaches

CONSTANTS
  AppRoots,          \* the application folders
  BinRoots,          \* the bin folders, in the order they are scanned
  ExtensionRoot,     \* ExtensionRoot[id]: the extension folder of the IDE id
  Hint(_),           \* publisher.name of a folder publisher.name-version
  MaxSymlinkDepth, CliCapacity, MetaCapacity

------------------------------------------------------------------------------
(* Files: Lstat sees the link itself, Stat the file it leads to.           *)
Exists(d, path) == path \in DOMAIN d.files
IsKind(d, path, kind) == Exists(d, path) /\ d.files[path].kind = kind

\* The path a chain of links ends at; <<>> if it is broken, too long or a loop.
Resolve(d, path) ==
  LET hop[i \in 0..MaxSymlinkDepth - 1] ==
        IF i = 0 THEN path
        ELSE IF IsKind(d, hop[i - 1], "link") THEN d.files[hop[i - 1]].to ELSE hop[i - 1]
      ends == {i \in DOMAIN hop : Exists(d, hop[i]) /\ ~IsKind(d, hop[i], "link")}
  IN IF ends = {} THEN <<>> ELSE hop[CHOOSE i \in ends : \A j \in ends : i <= j]

NoStamp == 0

Fingerprint(d, path) ==
  LET file == Resolve(d, path)
  IN [path |-> path, stamp |-> IF file = <<>> THEN NoStamp ELSE d.files[file].stamp]

Children(d, root) == {path \in DOMAIN d.files : IsPrefix(root, path) /\ Len(path) = Len(root) + 1}

FirstGiven(paths) == LET given == SelectSeq(paths, LAMBDA p : p # <<>>)
                     IN IF given = <<>> THEN <<>> ELSE Head(given)

------------------------------------------------------------------------------
(* Package provenance, from where a file lies. A package.json further up   *)
(* names the package whatever the application was taken for before.        *)
Homebrew(app, formula) == [app EXCEPT !.manager = "homebrew", !.package = formula]

Provenance(d, app) ==
  LET r == FirstGiven(<<app.resolvedPath, app.executablePath, app.path>>)
      cellar == {i \in DOMAIN r : Lower(r[i]) = "cellar" /\ i + 2 <= Len(r)}
      opt == {i \in DOMAIN r : i > 1 /\ i < Len(r) /\ r[i] = "opt"
                               /\ r[i - 1] \in {"homebrew", "local"}}
      first(is) == CHOOSE i \in is : \A j \in is : i <= j
      manifest(n) == SubSeq(r, 1, n) \o <<"package.json">>
      found == {n \in 1..Len(r) - 1 : n >= Len(r) - 8 /\ IsKind(d, manifest(n), "file")}
      nearest == CHOOSE n \in found : \A m \in found : n >= m
      name == d.files[manifest(nearest)].name
  IN CASE cellar # {} -> Homebrew(app, r[first(cellar) + 1])
       [] cellar = {} /\ opt # {} -> Homebrew(app, r[first(opt) + 1])
       [] cellar \cup opt = {} /\ found # {} /\ name # None ->
            [app EXCEPT !.manager = "npm", !.package = name,
                        !.entryPoint = IF @ = None THEN Last(r) ELSE @]
       [] OTHER -> app

\* ApplyPackageProvenanceCached: the application and the cache after it.
CachedProvenance(d, cache, app) ==
  LET key == Fingerprint(d, FirstGiven(<<app.resolvedPath, app.executablePath, app.path>>))
      hit == Entry(cache, key).second[1]
      read == Provenance(d, app)
  IN IF HasHalf(cache, key, "second")
     THEN [app |-> [app EXCEPT !.manager = hit.manager, !.package = hit.package,
                               !.entryPoint = IF @ = None THEN hit.entryPoint ELSE @],
           cache |-> GetHalf(cache, key, "second")]
     ELSE [app |-> read, cache |-> PutHalf(cache, CliCapacity, key, "second", read)]

------------------------------------------------------------------------------
(* Bundles: a folder named *.app with a readable Info.plist.               *)
InfoPlist(bundle) == bundle \o <<"Contents", "Info.plist">>

ReadAppBundle(d, bundle) ==
  LET meta == d.files[InfoPlist(bundle)]
  IN Application([path |-> bundle, bundleID |-> meta.bundleID, executable |-> meta.executable,
                  executablePath |-> IF meta.executable = None THEN <<>>
                                     ELSE bundle \o <<"Contents", "MacOS", meta.executable>>])

DiscoverBundles(d) ==
  {ReadAppBundle(d, bundle) : bundle \in
     {path \in UNION {Children(d, root) : root \in AppRoots} :
        Last(path) \in AppNames /\ IsKind(d, InfoPlist(path), "file")}}

------------------------------------------------------------------------------
(* Command-line tools: the catalog's command names in the bin folders,     *)
(* through the links, one row per file they end at. Each look-up may fill  *)
(* the discoverer's own cache.                                             *)
CliNames ==
  UNION {p.executables : p \in {q \in Range(Catalog) :
           q.category \in {"cli_agent", "local_model_runtime"}}}

Orders == {n \in [1..Cardinality(CliNames) -> CliNames] : Range(n) = CliNames}

CachedResolve(d, cache, inv) ==
  LET key == Fingerprint(d, inv)
      file == Resolve(d, inv)
  IN CASE HasHalf(cache, key, "first") ->
            [file |-> Entry(cache, key).first[1], cache |-> GetHalf(cache, key, "first")]
       [] ~HasHalf(cache, key, "first") /\ file # <<>> ->
            [file |-> file, cache |-> PutHalf(cache, CliCapacity, key, "first", file)]
       [] OTHER -> [file |-> <<>>, cache |-> cache]

CliApplication(d, name, inv, file) ==
  Application([path |-> file, executable |-> name, executablePath |-> file,
               invocationPath |-> inv, resolvedPath |-> file,
               entryPoint |-> IF d.files[file].script THEN Last(file) ELSE None])

\* One name in one folder: the rows and the cache after it.
TryCli(d, acc, root, name) ==
  LET inv == root \o <<name>>
      r == CachedResolve(d, acc.cache, inv)
      app == CliApplication(d, name, inv, r.file)
      provenance == CachedProvenance(d, r.cache, app)
  IN IF ~Exists(d, inv) \/ IsKind(d, inv, "dir") THEN acc
     ELSE IF ~IsKind(d, Resolve(d, r.file), "file")
             \/ \E row \in acc.rows : PathKey(row.resolvedPath) = PathKey(r.file)
     THEN [acc EXCEPT !.cache = r.cache]
     ELSE [rows |-> acc.rows \cup {provenance.app}, cache |-> provenance.cache]

\* The names come in the order of a map: any.
DiscoverCli(d, cache, names) ==
  LET tries == FlattenSeq([i \in DOMAIN BinRoots |->
                             [j \in DOMAIN names |-> <<BinRoots[i], names[j]>>]])
  IN FoldLeft(LAMBDA acc, t : TryCli(d, acc, t[1], t[2]),
              [rows |-> {}, cache |-> cache], tries)

------------------------------------------------------------------------------
(* Containers whose image is in the catalog, running or not.               *)
ContainerMatches(c) ==
  LET got == Image(c.image)
  IN got.name \in UNION {p.images : p \in Range(Catalog)}

ContainerPath(c) == <<"docker:", c.name>>

DiscoverContainers(d) ==
  {Application([path |-> ContainerPath(c), resolvedPath |-> ContainerPath(c),
                executablePath |-> ContainerPath(c), executable |-> Image(c.image).base,
                manager |-> "docker", package |-> Image(c.image).plain, entryPoint |-> c.name]) :
     c \in {b \in d.containers : ContainerMatches(b)}}

\* The composite discoverer: a file that two parts find keeps its first row.
RowKey(app) == PathKey(FirstGiven(<<app.resolvedPath, app.path>>))

Merge(rows, more) == rows \cup {m \in more : \A r \in rows : RowKey(r) # RowKey(m)}

------------------------------------------------------------------------------
(* IDE extensions: the folders of a host's extension root, named by their  *)
(* package.json when it can be read, through the metadata cache.           *)
ExtensionFolders(d, host) == {path \in Children(d, ExtensionRoot[host]) : IsKind(d, path, "dir")}

Observation(host, folder) ==
  Application([path |-> folder, resolvedPath |-> folder, executablePath |-> folder,
               executable |-> Last(folder), package |-> Hint(Last(folder)),
               manager |-> IF host = "cursor" THEN "cursor_extension" ELSE "vscode_extension"])

ApplyMeta(app, meta) ==
  IF meta.publisher = None \/ meta.name = None THEN app
  ELSE [app EXCEPT !.package = meta.id, !.executable = meta.name, !.entryPoint = meta.name]

\* The application and the metadata cache after its package.json was looked up.
CachedMeta(d, cache, app) ==
  LET file == app.path \o <<"package.json">>
      key == Fingerprint(d, file)
      meta == IF MetaHit(cache, key) THEN Entry(cache, key).value ELSE d.files[file]
  IN IF ~Exists(d, file) THEN [app |-> app, cache |-> cache]
     ELSE [app |-> ApplyMeta(app, meta),
           cache |-> IF MetaHit(cache, key) THEN cache
                     ELSE PutMeta(cache, MetaCapacity, key, meta)]

DiscoverExtensions(d, cache, hosts) ==
  LET seen == UNION {{Observation(h, f) : f \in ExtensionFolders(d, h)} : h \in hosts}
  IN FoldLeft(LAMBDA acc, app : LET m == CachedMeta(d, acc.cache, app)
                                IN [rows |-> acc.rows \cup {m.app}, cache |-> m.cache],
              [rows |-> {}, cache |-> cache], SetToSeq(seen))

------------------------------------------------------------------------------
(* The signature of a file: unreadable unless it is signed code; a         *)
(* validation may fail once the certificate was read.                      *)
Outcomes == {"read", "unread", "unvalidated"}

Signed(d, app, outcome) ==
  LET target == FirstGiven(<<app.resolvedPath, app.path, app.executablePath>>)
      info == d.signatures[target]
  IN IF outcome = "unread" \/ target \notin DOMAIN d.signatures
     THEN [app EXCEPT !.valid = FALSE, !.checked = FALSE]
     ELSE [app EXCEPT !.signingID = info.id, !.teamID = info.team, !.checked = TRUE,
                      !.valid = outcome = "read" /\ info.valid]

\* The key an application is cached by: for a bundle, the stamp of its Info.plist.
CacheKey(d, app) ==
  LET path == FirstGiven(<<app.resolvedPath, app.path, app.executablePath>>)
      plist == Fingerprint(d, InfoPlist(path))
  IN IF Last(path) \in AppNames /\ plist.stamp # NoStamp
     THEN [plist EXCEPT !.path = path] ELSE Fingerprint(d, path)
==============================================================================
