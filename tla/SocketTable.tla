---------------------------- MODULE SocketTable ----------------------------
(* The TCP sockets that lsof, ss and netstat show, as the agent reads them *)
(* (internal/collect/network: connections.go, listeners.go, loopback.go).  *)
(* A row is one line of the tool: the process it names, or pid 0 when it   *)
(* names none, and the two endpoints.  The order of the rows does not matter:    *)
(* their readers key them by what they are.                                *)
EXTENDS Naturals

CONSTANTS
  AddrKind   \* AddrKind[a]: what net.ParseIP makes of an address: "loopback",
             \* "unspecified", "private", "linklocal", "public", "star" or "none"

NoEndpoint == [host |-> "", port |-> 0]

(* splitHostPort: host:port, [host]:port, or host.port as macOS writes it; *)
(* the port after a dot must be one, else there is no endpoint.            *)
SplitHostPort(e) ==
  CASE e.form = "none" -> NoEndpoint
    [] e.form = "colon" -> [host |-> e.host, port |-> e.port]
    [] e.form = "dot" -> IF e.port \in 1 .. 65535 THEN [host |-> e.host, port |-> e.port] ELSE NoEndpoint

KindOf(a) == IF a \in DOMAIN AddrKind THEN AddrKind[a] ELSE "none"

SkipAddr(a) == a = "" \/ KindOf(a) \in {"star", "loopback", "unspecified"}

(* isNonPublicIP: also what is no address.                                 *)
IsNonPublicIP(a) == KindOf(a) # "public"

IsLoopbackIP(a) == a \in {"127.0.0.1", "::1", "localhost"}

ServicePorts == {80, 443, 8080, 8443, 53, 22, 25, 465, 587, 993, 995}

InferDirection(port) ==
  IF port \in ServicePorts \/ port \in 1 .. 1023 THEN "outbound" ELSE "established"

Conn(r, comm) ==
  LET local == SplitHostPort(r.local) remote == SplitHostPort(r.remote)
  IN [pid |-> r.pid, comm |-> comm, local |-> local, remote |-> remote,
      direction |-> InferDirection(remote.port)]

Connected(c) == ~SkipAddr(c.remote.host) /\ c.remote.port > 0 /\ c.local.port > 0

(* parseLsofTCP and parseLsofLISTEN look for the first field that begins   *)
(* with TCP: when it is the command's, the line is passed over.            *)
LsofReads(r) == r.pid > 0 /\ ~r.tcpLike

EstablishedDarwin(rows) ==
  {c \in {Conn(r, r.comm) : r \in {x \in rows : x.state = "established" /\ LsofReads(x)}} : Connected(c)}

(* parseSSTCP *)
EstablishedLinux(rows) ==
  {c \in {Conn(r, r.comm) : r \in {x \in rows : x.state = "established" /\ x.pid > 0}} : Connected(c)}

(* parseWindowsNetstat: without the name of the process.                   *)
EstablishedWindows(rows) ==
  {c \in {Conn(r, "") : r \in {x \in rows : x.state = "established" /\ x.pid > 0}} : Connected(c)}

Established(os, rows) ==
  CASE os = "darwin" -> EstablishedDarwin(rows)
    [] os = "linux" -> EstablishedLinux(rows)
    [] os = "windows" -> EstablishedWindows(rows)
    [] OTHER -> {}

(* Fingerprint: the process and the endpoints, not the command.            *)
Fingerprint(c) == <<c.pid, c.local, c.remote>>

-----------------------------------------------------------------------------
(* parseLsofLISTEN, parseSSLISTEN: any local address is written 0.0.0.0.   *)
(* Windows has no list.                                                    *)
Listener(r) ==
  LET local == SplitHostPort(r.local)
  IN [pid |-> r.pid, comm |-> r.comm, port |-> local.port,
      addr |-> IF local.host \in {"", "*"} THEN "0.0.0.0" ELSE local.host]

Listening(os, rows) ==
  {Listener(r) : r \in {x \in rows : /\ x.state = "listen" /\ x.pid > 0 /\ SplitHostPort(x.local).port > 0
                                     /\ os \in {"darwin", "linux"} /\ (os = "darwin" => LsofReads(x))}}

(* parseLsofLoopbackEstablished: both ends on the loopback; macOS only.    *)
LoopbackEstablished(os, rows) ==
  {c \in {Conn(r, r.comm) : r \in {x \in rows : x.state = "established" /\ LsofReads(x)}} :
     /\ os = "darwin" /\ IsLoopbackIP(c.local.host) /\ IsLoopbackIP(c.remote.host)
     /\ c.local.port > 0 /\ c.remote.port > 0}
=============================================================================
