--------------------------- MODULE MCAiInventory ---------------------------
(* Small instances of AiInventory for TLC, in families of hosts: a local   *)
(* runtime that starts, serves and is reached from elsewhere; two bundles, *)
(* one outside the discovery while it runs; an editor, its extension and   *)
(* its MCP servers; containers.                                            *)
EXTENDS AiInventory

CONSTANTS
  idle, serving, exposed, plain, custom, moved, editor, edited, coding, boxed, stopped

MCProduct(name, kind) == [id |-> name, category |-> kind]
Ollama == MCProduct("ollama", "local_model_runtime")
Studio == MCProduct("lmstudio", "local_model_runtime")
Jan == MCProduct("jan", "local_model_runtime")
Chat == MCProduct("chat", "ai_app")
Cursor == MCProduct("cursor", "code_editor")
Cline == MCProduct("cline", "agentic_ide_extension")

MCNames == {"ollama", "lms", "jan", "Chat", "Cursor", "Extension", "Helper", "curl"}
MCProductOf ==
  [n \in MCNames |-> CASE n = "ollama" -> Ollama [] n = "lms" -> Studio [] n = "jan" -> Jan [] n = "Chat" -> Chat
                       [] n = "Cursor" -> Cursor [] OTHER -> None]
MCEditorOf == [n \in MCNames |-> IF n = "Cursor" THEN "cursor" ELSE None]
MCAddrKind == [a \in {"127.0.0.1", "0.0.0.0", "10.0.0.7"} |->
                 CASE a = "127.0.0.1" -> "loopback" [] a = "0.0.0.0" -> "any" [] OTHER -> "private"]

OllamaPath == <<"opt", "ollama">>
ChatPath == <<"Downloads", "Chat.app">>
CursorPath == <<"Applications", "Cursor.app">>
Box == <<"docker:", "llm">>

App(path, product, part) ==
  [path |-> path, resolved |-> <<>>, invocation |-> <<>>, exePath |-> <<>>, exe |-> product.id,
   id |-> product.id, product |-> product, part |-> part]
OllamaApp ==
  [App(<<"bin", "ollama">>, Ollama, "cli") EXCEPT !.resolved = OllamaPath, !.invocation = <<"bin", "ollama">>]

Proc(pid, exe, comm) == [pid |-> pid, exe |-> exe, comm |-> comm]
Sock(pid, addr) == [pid |-> pid, addr |-> addr, port |-> 11434]
Curl == [pid |-> 9, comm |-> "curl", port |-> 11434]
Config(time, servers) == [time |-> time, servers |-> servers]

Empty ==
  [apps |-> <<>>, extensions |-> [e \in Editors |-> {}], bundleAt |-> <<>>, links |-> <<>>,
   procs |-> <<>>, socks |-> {}, conns |-> {}, containers |-> <<>>, answer |-> None,
   artifacts |-> <<>>, disabled |-> [e \in Editors |-> None],
   skills |-> [p \in {"cursor", "vscode"} |-> {}], mcp |-> <<>>]

Idle ==
  [Empty EXCEPT !.apps = <<OllamaApp>>, !.artifacts = "ollama" :> [models |-> 1, format |-> None]]
Serving ==
  [Idle EXCEPT !.procs = <<Proc(7, <<"ollama">>, "ollama")>>,
               !.socks = {Sock(7, "127.0.0.1"), Sock(8, "0.0.0.0")}, !.conns = {Curl, [Curl EXCEPT !.pid = 7]},
               !.answer = [version |-> "v1", models |-> 2]]
Exposed ==
  [Serving EXCEPT !.procs = <<Proc(8, <<"bin", "ollama">>, "ollama")>>,
                  !.links = <<"bin", "ollama">> :> OllamaPath, !.conns = {}]

Plain == [Empty EXCEPT !.apps = <<App(<<"Applications", "Chat.app">>, Chat, "bundles")>>]
Custom ==
  [Plain EXCEPT !.bundleAt = ChatPath :> App(ChatPath, Chat, "bundles"),
                !.procs = <<Proc(5, ChatPath \o <<"Contents", "Chat">>, "Chat")>>]
Moved ==
  [Custom EXCEPT !.apps = <<>>,
                 !.procs = @ \o <<Proc(6, ChatPath \o <<"Contents", "Helper">>, "Helper")>>]

Editor ==
  [Empty EXCEPT !.apps = <<App(CursorPath, Cursor, "bundles")>>,
                !.bundleAt = CursorPath :> App(CursorPath, Cursor, "bundles"),
                !.extensions["cursor"] = {App(<<"ext", "cline">>, Cline, "bundles"),
                                          [App(<<"ext", "go">>, Cline, "bundles") EXCEPT !.product = None]},
                !.disabled["cursor"] = {}, !.skills["cursor"] = {"review"},
                !.mcp = (1 :> Config(1, "db" :> {"t1"}))
                           @@ (3 :> Config(1, ("git" :> {"t2"}) @@ ("off" :> {}))),
                !.procs = <<Proc(6, <<"tmp", "lms">>, "lms"), Proc(7, <<"tmp", "jan">>, "jan"),
                            Proc(8, <<"tmp", "ollama">>, "ollama")>>]
Edited == [Editor EXCEPT !.mcp = (1 :> Config(2, "db" :> {"t3"})) @@ (2 :> Config(1, "git" :> {"t1"}))
                             @@ (3 :> Config(2, "db" :> {"t4"})),
                 !.disabled["cursor"] = {"cline"},
                 !.socks = {Sock(6, "127.0.0.1"), Sock(7, "10.0.0.7")}]
Coding ==
  [Editor EXCEPT !.socks = {Sock(6, "127.0.0.1"), Sock(8, "0.0.0.0")},
                 !.procs = @ \o <<Proc(4, CursorPath \o <<"Contents", "Extension">>,
                                    "Extension")>>]

Boxes(running, ports) == Box :> [running |-> running, ports |-> ports]
Boxed ==
  [Empty EXCEPT !.apps = <<App(Box, Ollama, "docker")>>,
                !.containers = Boxes(TRUE, {[addr |-> "10.0.0.7", port |-> 11434]})]
Stopped ==
  [Boxed EXCEPT !.containers = Boxes(FALSE, {}), !.procs = <<Proc(6, <<"tmp", "lms">>, "lms")>>]

MCReading ==
  (idle :> Idle) @@ (serving :> Serving) @@ (exposed :> Exposed) @@ (plain :> Plain)
    @@ (custom :> Custom) @@ (moved :> Moved) @@ (editor :> Editor) @@ (edited :> Edited)
    @@ (coding :> Coding) @@ (boxed :> Boxed) @@ (stopped :> Stopped)
MCNear ==
  (idle :> {serving, exposed}) @@ (serving :> {idle}) @@ (exposed :> {idle})
    @@ (plain :> {custom}) @@ (custom :> {moved, plain}) @@ (moved :> {})
    @@ (editor :> {edited, coding}) @@ (edited :> {editor}) @@ (coding :> {})
    @@ (boxed :> {stopped}) @@ (stopped :> {boxed})

ASSUME MCHostsArePlain == HostsArePlain

MCInit == host \in {idle, plain, editor, boxed} /\ Init
MCSpec == MCInit /\ [][Next]_vars /\ Fairness

(* What the catalog says of its paths: "CandidateNames and CandidatePaths  *)
(* are used only for candidate generation" (identity/models.go:71).  So    *)
(* the start of a process inside a bundle at such a path is of a candidate *)
(* and wakes the inventory, whatever the process is called                 *)
(* (runtime_feed.go:142-162).                                              *)
MCCandidatePaths == {CursorPath, <<"Applications", "Chat.app">>}
CandidatePathsWake ==
  [][\A ev \in Range(feed) :
       RunFeed /\ ev = Head(feed) /\ ev.kind = "exec"
         /\ EnclosingAppPath(ev.exe) \in MCCandidatePaths => wakes' = Signal]_vars
============================================================================
