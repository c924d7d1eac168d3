------------------------------ MODULE Matcher ------------------------------
(* The identity matcher (internal/identity): which product of the catalog  *)
(* an application found on disk is, and how much the evidence is worth.    *)
(* A path is a sequence of components, compared component by component;    *)
(* the identifiers that the code compares ignoring case are folded here.   *)
EXTENDS Naturals, FiniteSets, SequencesExt

CONSTANTS
  Catalog,      \* the products, in catalog order
  AppNames,     \* the components that end in ".app"
  Lower(_),     \* a name in lower case
  Within(_, _), \* Within(part, name): the one is found in the other (strings.Contains)
  Stem(_),      \* a name without its extension
  Image(_)      \* a package identifier read as an image: its registry, name, base name,
                \* suffix ("tag", "digest"), and itself without a digest

ASSUME MatcherAssumption == Catalog \in Seq(Range(Catalog))

None == "none"       \* an empty string

ExtensionKinds == {"ai_ide_extension", "agentic_ide_extension"}
ExtensionManagers == {"vscode_extension", "cursor_extension"}

Levels == <<"UNKNOWN", "LOW", "MEDIUM", "HIGH", "VERIFIED">>
Rank(level) == CHOOSE r \in DOMAIN Levels : Levels[r] = level

\* An application of which nothing is known but what "known" gives.
Application(known) ==
  known @@ [path |-> <<>>, executable |-> None, executablePath |-> <<>>,
            invocationPath |-> <<>>, resolvedPath |-> <<>>, entryPoint |-> None,
            manager |-> None, package |-> None, bundleID |-> None,
            signingID |-> None, teamID |-> None, sha256 |-> None,
            valid |-> FALSE, checked |-> FALSE]

PathKey(path) == [i \in DOMAIN path |-> Lower(path[i])]

------------------------------------------------------------------------------
(* Candidates: by name, install location, image or extension id.           *)
NameOf(app) ==
  LET given == SelectSeq(<<app.executablePath, app.invocationPath, app.resolvedPath>>,
                         LAMBDA path : path # <<>>)
  IN CASE app.executable # None -> app.executable
       [] app.executable = None /\ given # <<>> -> Last(Head(given))
       [] app.executable = None /\ given = <<>> /\ app.path # <<>> -> Stem(Last(app.path))
       [] OTHER -> None

LooksLikeAppBundle(app) ==
  LET path == IF app.path # <<>> THEN app.path ELSE app.executablePath
  IN \E i \in DOMAIN path : path[i] \in AppNames

\* A product with bundle identifiers is a GUI application: the command
\* "claude" is not its "Claude".
NameMatches(app, p) ==
  LET name == NameOf(app) IN
  /\ name # None
  /\ \/ \E n \in p.names :
          /\ Lower(name) = Lower(n)
          /\ p.bundleIDs = {} \/ name = n \/ LooksLikeAppBundle(app)
     \/ name \in p.executables

\* "~/" locations match by suffix, or by their last name anywhere, even as
\* a part of another name.
PathEqualOrWithin(got, want) ==
  IF want.home
  THEN \/ IsSuffix(want.path, got)
       \/ \E i \in DOMAIN got : Within(Lower(Last(want.path)), Lower(got[i]))
  ELSE PathKey(got) = PathKey(want.path) \/ IsStrictPrefix(want.path, got)

PathMatches(app, p) ==
  \E got \in {app.path, app.executablePath} \ {<<>>}, want \in p.paths :
    PathEqualOrWithin(got, want)

\* With a registry in front, a digest behind the name is not cut off.
DockerImageMatches(app, p) ==
  /\ app.manager = "docker" /\ app.package # None
  /\ LET got == Image(app.package) IN
     /\ got.name \in p.images
     /\ got.registry = None \/ got.suffix # "digest"

ExtensionIDMatches(app, p) ==
  app.manager \in ExtensionManagers /\ app.package \in p.extensionIDs

IsExtension(p) == p.category \in ExtensionKinds \/ p.extensionIDs # {}

Candidate(app, p) ==
  IF IsExtension(p)
  THEN ExtensionIDMatches(app, p)
  ELSE NameMatches(app, p) \/ PathMatches(app, p) \/ DockerImageMatches(app, p)

------------------------------------------------------------------------------
(* Evidence. A factor the catalog pins nothing for is granted to a GUI     *)
(* product and refused to every other.                                     *)
CliStyle(p) ==
  \/ p.category \in {"cli_agent", "local_model_runtime"} \cup ExtensionKinds
  \/ p.bundleIDs = {}

EntryPointOf(app) ==
  IF app.entryPoint # None \/ app.resolvedPath = <<>>
  THEN app.entryPoint ELSE Last(app.resolvedPath)

Got(app) ==
  [bundle_id |-> app.bundleID, signing_identifier |-> app.signingID,
   team_id |-> app.teamID, package_manager |-> app.manager,
   package_identity |-> app.package, entry_point |-> EntryPointOf(app)]

Wanted(p) ==
  [bundle_id |-> p.bundleIDs, signing_identifier |-> p.signingIDs,
   team_id |-> p.teamIDs, package_manager |-> p.managers,
   package_identity |-> p.packages, entry_point |-> p.entryPoints]

\* The package factors are looked at only when product or application has any.
ReadsPackage(app, p) ==
  \/ p.managers \cup p.packages \cup p.entryPoints \cup p.images \cup p.extensionIDs # {}
  \/ app.manager # None \/ app.package # None
  \/ p.category \in {"cli_agent", "local_model_runtime"} \cup ExtensionKinds

Named(app, p) ==
  {"bundle_id", "signing_identifier", "team_id"} \cup
  (IF ReadsPackage(app, p) THEN {"package_manager", "package_identity", "entry_point"} ELSE {})

Pinned(app, p) == {f \in Named(app, p) : Wanted(p)[f] # {}}

Agrees(app, p) == {f \in Pinned(app, p) : Got(app)[f] \in Wanted(p)[f] \ {None}}

\* Evidence that is not one string in a list of the catalog.
Observed(app, p) ==
  LET holds == [signature_valid    |-> app.checked /\ app.valid,
                sha256             |-> app.sha256 \in p.hashes \ {None},
                package_provenance |-> app.manager # None \/ app.package # None,
                docker_image       |-> DockerImageMatches(app, p),
                extension_id       |-> ExtensionIDMatches(app, p)]
  IN {f \in DOMAIN holds : holds[f]}

StrongBug(app, p) == Agrees(app, p) \cup Observed(app, p) \cup (Named(app, p) \ Pinned(app, p))

Strong(app, p) ==
  Agrees(app, p) \cup Observed(app, p)
    \cup (IF CliStyle(p) THEN {} ELSE Named(app, p) \ Pinned(app, p))

Matched(app, p) ==
  Agrees(app, p) \cup Observed(app, p)
    \cup (IF NameMatches(app, p)
          THEN {"candidate_name"} \cup (IF CliStyle(p) THEN {"command"} ELSE {}) ELSE {})
    \cup (IF PathMatches(app, p) THEN {"candidate_path"} ELSE {})

Failed(app, p) ==
  (Pinned(app, p) \ Agrees(app, p))
    \cup (({"candidate_name", "candidate_path", "signature_valid"}
           \cup (IF p.hashes # {} THEN {"sha256"} ELSE {})
           \cup (IF p.packages \cup p.managers # {} THEN {"package_provenance"} ELSE {})
           \cup (IF p.images # {} /\ app.manager = "docker" THEN {"docker_image"} ELSE {})
           \cup (IF p.extensionIDs # {} THEN {"extension_id"} ELSE {}))
          \ Matched(app, p))

------------------------------------------------------------------------------
(* The ladder of scoreAgainst: the first rung that holds is the level.     *)
Rung(level, holds) == [level |-> level, holds |-> holds]

Ladder(app, p) ==
  LET s == Strong(app, p)
      gui == ~CliStyle(p)
      cli == CliStyle(p)
      ext == IsExtension(p)
      maker == s \cap {"signing_identifier", "team_id"} # {}
      hash == p.hashes = {} \/ "sha256" \in s
      has(fs) == fs \subseteq s
  IN << Rung("VERIFIED", gui /\ hash /\ has({"bundle_id", "signing_identifier", "team_id",
                                             "signature_valid"})),
        Rung("HIGH",     gui /\ has({"bundle_id", "signature_valid"}) /\ maker),
        Rung("MEDIUM",   gui /\ has({"bundle_id"}) /\ maker),
        Rung("VERIFIED", ext /\ has({"extension_id", "package_provenance"})),
        Rung("HIGH",     ext /\ has({"extension_id"})),
        Rung("VERIFIED", cli /\ has({"package_identity", "package_provenance"})
                             /\ s \cap {"entry_point", "signing_identifier",
                                        "signature_valid"} # {}),
        Rung("HIGH",     cli /\ has({"docker_image", "package_provenance"})),
        Rung("HIGH",     cli /\ has({"bundle_id", "signature_valid"})),
        Rung("MEDIUM",   cli /\ has({"bundle_id"})),
        Rung("HIGH",     cli /\ has({"package_identity"})
                             /\ s \cap {"package_provenance", "package_manager"} # {}),
        Rung("MEDIUM",   cli /\ s \cap {"package_identity", "package_manager",
                                        "package_provenance", "docker_image",
                                        "extension_id"} # {}),
        Rung("MEDIUM",   Cardinality(s) >= 2),
        Rung("LOW",      TRUE) >>

FirstOf(rungs) ==
  rungs[CHOOSE i \in DOMAIN rungs : rungs[i].holds /\ \A j \in 1 .. i - 1 : ~rungs[j].holds]

Score(app, p) ==
  [product    |-> p.id,
   confidence |-> FirstOf(Ladder(app, p)).level,
   matched    |-> Matched(app, p),
   failed     |-> Failed(app, p)]

Unidentified ==
  [product |-> None, confidence |-> "UNKNOWN", matched |-> {},
   failed |-> {"candidate_name", "candidate_path"}]

\* The best candidate, and of equals the first of the catalog.
Identify(app) ==
  LET candidates == {i \in DOMAIN Catalog : Candidate(app, Catalog[i])}
      scored == [i \in candidates |-> Score(app, Catalog[i])]
      better(i, j) == \/ Rank(scored[i].confidence) > Rank(scored[j].confidence)
                      \/ Rank(scored[i].confidence) = Rank(scored[j].confidence) /\ i <= j
  IN IF candidates = {} THEN Unidentified
     ELSE scored[CHOOSE i \in candidates : \A j \in candidates : better(i, j)]
==============================================================================
