-------------------------- MODULE MCIdentification --------------------------
(* Identification on seven small disks: an editor updated, or changed       *)
(* under the same Info.plist; tools behind links that are retargeted; a    *)
(* look-alike; a container; an extension, with and without a package.json  *)
(* above it.                                                               *)
EXTENDS Identification

MCLower(name) == CASE name = "Cursor" -> "cursor" [] name = "Code" -> "code"
                   [] name = "Cellar" -> "cellar" [] OTHER -> name
MCWithin(part, name) == part = name \/ <<part, name>> = <<"Cursor.app", "NewCursor.app">>
MCStem(name) == CASE name = "Cursor.app" -> "Cursor" [] name = "NewCursor.app" -> "NewCursor"
                  [] OTHER -> name
MCHint(folder) == IF folder = "dev.cline-1" THEN "dev.cline" ELSE folder
MCImage(id) ==
  IF id = "ghcr.io/ollama/ollama:1"
  THEN [registry |-> "ghcr.io", name |-> "ollama/ollama", base |-> "ollama", suffix |-> "tag",
        plain |-> id]
  ELSE [registry |-> None, name |-> id, base |-> id, suffix |-> None, plain |-> id]

Product(known) ==
  known @@ [names |-> {}, executables |-> {}, paths |-> {}, bundleIDs |-> {}, signingIDs |-> {},
            teamIDs |-> {}, hashes |-> {}, managers |-> {}, packages |-> {}, entryPoints |-> {},
            images |-> {}, extensionIDs |-> {}]

MCCatalog ==
  << Product([id |-> "cursor", category |-> "code_editor", names |-> {"Cursor"},
              paths |-> {[home |-> TRUE, path |-> <<"Applications", "Cursor.app">>]},
              bundleIDs |-> {"b.cursor"}, signingIDs |-> {"s.cursor"}, teamIDs |-> {"t.cursor"}]),
     Product([id |-> "vscode", category |-> "code_editor", names |-> {"Code"},
              bundleIDs |-> {"b.code"}]),
     Product([id |-> "codex", category |-> "cli_agent", executables |-> {"codex"},
              managers |-> {"homebrew"}, packages |-> {"codex"}]),
     Product([id |-> "ollama", category |-> "local_model_runtime", executables |-> {"ollama"},
              bundleIDs |-> {"b.ollama"}, images |-> {"ollama/ollama"}]),
     Product([id |-> "cline", category |-> "agentic_ide_extension",
              extensionIDs |-> {"dev.cline"}]) >>

MCHome == <<"Users", "u">>
MCAppRoots == {<<"Applications">>}
MCBinRoots == <<<<"bin">>>>
MCExtensionRoot == ("cursor" :> MCHome \o <<".cursor", "extensions">>)

CursorApp == <<"Applications", "Cursor.app">>
CodeApp == <<"Applications", "NewCursor.app">>
Folder == MCHome \o <<".cursor", "extensions", "dev.cline-1">>
Keg(v) == <<"Cellar", "codex", v, "codex">>

File(stamp) == [kind |-> "file", stamp |-> stamp, script |-> FALSE]
Bundle(path, stamp, bundle, exe) ==
  (path :> [kind |-> "dir", stamp |-> 6]) @@
  (path \o <<"Contents", "Info.plist">> :>
     [kind |-> "file", stamp |-> stamp, bundleID |-> bundle, executable |-> exe])
Tool(v) == (<<"bin", "codex">> :> [kind |-> "link", to |-> Keg(v)]) @@ (Keg(v) :> File(7))
Manifest(dir, name, publisher) ==
  (dir \o <<"package.json">> :>
     [kind |-> "file", stamp |-> 3, name |-> name, publisher |-> publisher, id |-> "dev.cline"])
Extension == (Folder :> [kind |-> "dir", stamp |-> 4]) @@ Manifest(Folder, "cline", "dev")
Sign(path, who, valid) == (path :> [id |-> "s." \o who, team |-> "t." \o who, valid |-> valid])
Disk(files, signatures, containers) ==
  [files |-> files, signatures |-> signatures, containers |-> containers]

Cursor(stamp) == Bundle(CursorApp, stamp, "b.cursor", "Cursor")
Ollama == [name |-> "llm", image |-> "ghcr.io/ollama/ollama:1"]

MCDisks ==
  << Disk(Cursor(1), Sign(CursorApp, "cursor", TRUE), {}),
     Disk(Cursor(2), Sign(CursorApp, "cursor", FALSE), {}),
     Disk(Cursor(1) @@ Extension, Sign(CursorApp, "other", TRUE), {}),
     Disk(Cursor(2) @@ Extension @@ Manifest(MCHome, "site", None),
          Sign(CursorApp, "cursor", TRUE), {}),
     Disk(Tool("1"), Sign(CodeApp, "like", TRUE), {Ollama}),
     Disk(Tool("2") @@ Bundle(CodeApp, 5, "b.like", "Code"), Sign(CodeApp, "like", TRUE), {}),
     Disk((<<"bin", "codex">> :> [kind |-> "link", to |-> <<"bin", "ollama">>])
          @@ (<<"bin", "ollama">> :> [kind |-> "link", to |-> <<"bin", "codex">>]),
          Sign(CodeApp, "like", TRUE), {[name |-> "db", image |-> "postgres"]}) >>

MCNear == <<{2, 3}, {1}, {1}, {}, {6, 7}, {5}, {}>>

\* The two polls run the same code, and nothing tells them apart.
MCSymmetry == Permutations(Pollers)
==============================================================================
