----------------------------- MODULE McpGateway -----------------------------
(* internal/mcp/gateway/gateway.go with interceptor.go: a proxy between an *)
(* AI client and the MCP server it starts, one JSON message per line.  One *)
(* goroutine takes the client's messages and intercepts its tool calls,    *)
(* one takes the server's, Run waits for both.  Pipes are bounded; client  *)
(* and server are other programs, of which only the reading, the writing   *)
(* and the ending is modelled.                                             *)
EXTENDS McpPolicy, Functions

CONSTANTS
  Policies,      \* the policy files the gateway may be started with
  Server,        \* -server: the name of the server in the policy
  Tools,         \* the tools the client calls
  PipeCap,       \* messages a pipe holds
  MaxMsgs,       \* bound: messages of the client
  MaxBad         \* bound: lines that are not JSON, sent by the server

ASSUME GatewayAssumption ==
  /\ PipeCap \in Nat \ {0} /\ MaxMsgs \in Nat /\ MaxBad \in Nat
  /\ \A c \in Policies : c.tools \in Seq(Range(c.tools))   \* a list of rules

VARIABLES
  cfg,           \* the policy
  sent,          \* client: what it has sent, in order; a message is named by its place
  clientDone,    \* client: its end of the gateway's stdin is closed
  toGw, toSrv, fromSrv, toClient,   \* the pipes
  cpc, msg,      \* proxyClientToServer: where it is, and its message
  spc, line,     \* proxyServerToClient: the same
  srv,           \* the server: "up" or "gone"
  stdinClosed,   \* the gateway has closed the server's stdin
  bad,           \* counter of the bound: lines that are not JSON
  rpc,           \* Run: "select", "killed" (waits for done), "wait", "returned"
  cancelled,     \* ctx is cancelled
  emitted,       \* history: calls handed to Emit
  bridged,       \* history: calls handed to WriteMCPHostBridge
  received,      \* history: ids of the messages the server has read
  answers        \* history: answers the client has read, in order

client == <<sent, clientDone>>
c2s == <<cpc, msg>>
s2c == <<spc, line>>
telemetry == <<emitted, bridged>>
vars == <<cfg, client, toGw, toSrv, fromSrv, toClient, c2s, s2c, srv, stdinClosed, bad,
          rpc, cancelled, telemetry, received, answers>>

Ids == 1 .. MaxMsgs
Call(id, t) == [id |-> id, kind |-> "call", tool |-> t]        \* a tools/call request
Request(id) == [id |-> id, kind |-> "request", tool |-> "-"]   \* another request
(* A message without id, a tools/call without one included: the code asks  *)
(* the policy and reports only for calls that are requests (gateway.go:150). *)
Notice(id)  == [id |-> id, kind |-> "notice", tool |-> "-"]
Garbled(id) == [id |-> id, kind |-> "bad", tool |-> "-"]       \* a line that is not JSON
NoMsg       == [id |-> 0, kind |-> "none", tool |-> "-"]
MessagesOf(id) == {Call(id, t) : t \in Tools} \cup {Request(id), Notice(id), Garbled(id)}
Answer(id, by) == [id |-> id, by |-> by]
NoLine      == Answer(0, "none")

Init ==
  /\ cfg \in Policies
  /\ sent = << >> /\ clientDone = FALSE
  /\ toGw = << >> /\ toSrv = << >> /\ fromSrv = << >> /\ toClient = << >>
  /\ cpc = "read" /\ msg = NoMsg /\ spc = "read" /\ line = NoLine
  /\ srv = "up" /\ stdinClosed = FALSE /\ bad = 0
  /\ rpc = "select" /\ cancelled = FALSE
  /\ emitted = {} /\ bridged = {} /\ received = {} /\ answers = << >>

-----------------------------------------------------------------------------
(* The client: it writes, reads its answers and closes when it likes. *)
ClientSends ==
  /\ ~clientDone /\ Len(sent) < MaxMsgs /\ Len(toGw) < PipeCap
  /\ \E m \in MessagesOf(Len(sent) + 1) :
       sent' = Append(sent, m) /\ toGw' = Append(toGw, m)
  /\ UNCHANGED <<cfg, clientDone, toSrv, fromSrv, toClient, c2s, s2c, srv, stdinClosed, bad, rpc, cancelled, telemetry, received, answers>>

ClientCloses ==
  /\ ~clientDone
  /\ clientDone' = TRUE
  /\ UNCHANGED <<cfg, sent, toGw, toSrv, fromSrv, toClient, c2s, s2c, srv, stdinClosed, bad, rpc, cancelled, telemetry, received, answers>>

ClientReads ==
  /\ toClient # << >>
  /\ answers' = Append(answers, Head(toClient)) /\ toClient' = Tail(toClient)
  /\ UNCHANGED <<cfg, client, toGw, toSrv, fromSrv, c2s, s2c, srv, stdinClosed, bad, rpc, cancelled, telemetry, received>>

(* The server answers what it reads, one message at a time; it may write   *)
(* a line that is not JSON, and end at any time.                           *)
ServerReads ==
  /\ srv = "up" /\ toSrv # << >>
  /\ received' = received \cup {Head(toSrv).id} /\ toSrv' = Tail(toSrv)
  /\ IF Head(toSrv).kind \in {"call", "request"}
       THEN Len(fromSrv) < PipeCap /\ fromSrv' = Append(fromSrv, Answer(Head(toSrv).id, "server"))
       ELSE UNCHANGED fromSrv
  /\ UNCHANGED <<cfg, client, toGw, toClient, c2s, s2c, srv, stdinClosed, bad, rpc, cancelled, telemetry, answers>>

ServerGarbles ==
  /\ srv = "up" /\ bad < MaxBad /\ Len(fromSrv) < PipeCap
  /\ bad' = bad + 1 /\ fromSrv' = Append(fromSrv, Answer(0, "bad"))
  /\ UNCHANGED <<cfg, client, toGw, toSrv, toClient, c2s, s2c, srv, stdinClosed, rpc, cancelled, telemetry, received, answers>>

(* At the end of its stdin the server exits; CommandContext kills it when  *)
(* ctx is cancelled.                                                       *)
ServerEnds ==
  /\ srv = "up"
  /\ srv' = "gone"
  /\ UNCHANGED <<cfg, client, toGw, toSrv, fromSrv, toClient, c2s, s2c, stdinClosed, bad, rpc, cancelled, telemetry, received, answers>>

ServerMustEnd == ServerEnds /\ (cancelled \/ (stdinClosed /\ toSrv = << >>))

-----------------------------------------------------------------------------
(* proxyClientToServer: read; a tools/call request is evaluated and handed *)
(* to Emit (whose failure is only logged), then refused, or bridged to the *)
(* inject directory and forwarded like everything else.  When it ends it   *)
(* closes the server's stdin; when Run has returned, the process is gone.  *)
EndsOpenBug == cpc' = "ended" /\ msg' = NoMsg /\ UNCHANGED stdinClosed
Ends == cpc' = "ended" /\ msg' = NoMsg /\ stdinClosed' = TRUE

C2SRead ==
  /\ cpc = "read" /\ toGw # << >>
  /\ toGw' = Tail(toGw)
  /\ IF Head(toGw).kind = "bad" THEN Ends
     ELSE /\ msg' = Head(toGw) /\ UNCHANGED stdinClosed
          /\ cpc' = IF Head(toGw).kind = "call" THEN "intercept" ELSE "forward"
  /\ UNCHANGED <<cfg, client, toSrv, fromSrv, toClient, s2c, srv, bad, rpc, cancelled, telemetry, received, answers>>

C2SEof ==
  /\ cpc = "read" /\ toGw = << >> /\ clientDone
  /\ Ends
  /\ UNCHANGED <<cfg, client, toGw, toSrv, fromSrv, toClient, s2c, srv, bad, rpc, cancelled, telemetry, received, answers>>

Blocked(m) == Evaluate(cfg, Server, m.tool).decision = "blocked"

OnToolsCallBlockedUnreportedBug ==
  /\ cpc = "intercept"
  /\ emitted' = IF Blocked(msg) THEN emitted ELSE emitted \cup {msg.id}
  /\ cpc' = IF Blocked(msg) THEN "refuse" ELSE "bridge"
  /\ UNCHANGED <<cfg, client, toGw, toSrv, fromSrv, toClient, msg, s2c, srv, stdinClosed, bad, rpc, cancelled, bridged, received, answers>>

OnToolsCall ==
  /\ cpc = "intercept"
  /\ emitted' = emitted \cup {msg.id}
  /\ cpc' = IF Blocked(msg) THEN "refuse" ELSE "bridge"
  /\ UNCHANGED <<cfg, client, toGw, toSrv, fromSrv, toClient, msg, s2c, srv, stdinClosed, bad, rpc, cancelled, bridged, received, answers>>

RefuseForwardsBug ==
  /\ cpc = "refuse" /\ Len(toClient) < PipeCap
  /\ toClient' = Append(toClient, Answer(msg.id, "gateway"))
  /\ cpc' = "forward" /\ UNCHANGED msg
  /\ UNCHANGED <<cfg, client, toGw, toSrv, fromSrv, s2c, srv, stdinClosed, bad, rpc, cancelled, telemetry, received, answers>>

Refuse ==
  /\ cpc = "refuse" /\ Len(toClient) < PipeCap
  /\ toClient' = Append(toClient, Answer(msg.id, "gateway"))
  /\ cpc' = "read" /\ msg' = NoMsg
  /\ UNCHANGED <<cfg, client, toGw, toSrv, fromSrv, s2c, srv, stdinClosed, bad, rpc, cancelled, telemetry, received, answers>>

HostBridge ==
  /\ cpc = "bridge"
  /\ bridged' = bridged \cup {msg.id}
  /\ cpc' = "forward"
  /\ UNCHANGED <<cfg, client, toGw, toSrv, fromSrv, toClient, msg, s2c, srv, stdinClosed, bad, rpc, cancelled, emitted, received, answers>>

(* A write to a server that is gone fails. *)
Forward ==
  /\ cpc = "forward"
  /\ \/ /\ srv = "up" /\ Len(toSrv) < PipeCap
        /\ toSrv' = Append(toSrv, msg)
        /\ cpc' = "read" /\ msg' = NoMsg /\ UNCHANGED stdinClosed
     \/ srv = "gone" /\ Ends /\ UNCHANGED toSrv
  /\ UNCHANGED <<cfg, client, toGw, fromSrv, toClient, s2c, srv, bad, rpc, cancelled, telemetry, received, answers>>

ProxyClientToServer ==
  rpc # "returned" /\ (C2SRead \/ C2SEof \/ OnToolsCall \/ Refuse \/ HostBridge \/ Forward)

(* proxyServerToClient: copy until the server is gone and its output read, *)
(* or a line does not parse.                                               *)
S2CRead ==
  /\ spc = "read" /\ fromSrv # << >>
  /\ fromSrv' = Tail(fromSrv)
  /\ IF Head(fromSrv).by = "bad" THEN spc' = "ended" /\ UNCHANGED line
                                 ELSE spc' = "write" /\ line' = Head(fromSrv)
  /\ UNCHANGED <<cfg, client, toGw, toSrv, toClient, c2s, srv, stdinClosed, bad, rpc, cancelled, telemetry, received, answers>>

S2CWrite ==
  /\ spc = "write" /\ Len(toClient) < PipeCap
  /\ toClient' = Append(toClient, line)
  /\ spc' = "read" /\ line' = NoLine
  /\ UNCHANGED <<cfg, client, toGw, toSrv, fromSrv, c2s, srv, stdinClosed, bad, rpc, cancelled, telemetry, received, answers>>

S2CEof ==
  /\ spc = "read" /\ fromSrv = << >> /\ srv = "gone"
  /\ spc' = "ended"
  /\ UNCHANGED <<cfg, client, toGw, toSrv, fromSrv, toClient, c2s, line, srv, stdinClosed, bad, rpc, cancelled, telemetry, received, answers>>

ProxyServerToClient == rpc # "returned" /\ (S2CRead \/ S2CWrite \/ S2CEof)

-----------------------------------------------------------------------------
(* Run: on ctx it kills the server and still waits for both goroutines; on *)
(* done it waits for the server to exit.                                   *)
Cancel ==
  /\ ~cancelled /\ rpc # "returned"
  /\ cancelled' = TRUE
  /\ UNCHANGED <<cfg, client, toGw, toSrv, fromSrv, toClient, c2s, s2c, srv, stdinClosed, bad, rpc, telemetry, received, answers>>

Done == cpc = "ended" /\ spc = "ended"

RunCancelled ==
  /\ rpc = "select" /\ cancelled
  /\ rpc' = "killed" /\ srv' = "gone"
  /\ UNCHANGED <<cfg, client, toGw, toSrv, fromSrv, toClient, c2s, s2c, stdinClosed, bad, cancelled, telemetry, received, answers>>

RunDoneKilledBug ==
  /\ \/ rpc = "select" /\ Done /\ rpc' = "wait"
     \/ rpc = "killed" /\ rpc' = "returned"
     \/ rpc = "wait" /\ srv = "gone" /\ rpc' = "returned"
  /\ UNCHANGED <<cfg, client, toGw, toSrv, fromSrv, toClient, c2s, s2c, srv, stdinClosed, bad, cancelled, telemetry, received, answers>>

RunDone ==
  /\ \/ rpc = "select" /\ Done /\ rpc' = "wait"
     \/ rpc = "killed" /\ Done /\ rpc' = "returned"
     \/ rpc = "wait" /\ srv = "gone" /\ rpc' = "returned"
  /\ UNCHANGED <<cfg, client, toGw, toSrv, fromSrv, toClient, c2s, s2c, srv, stdinClosed, bad, cancelled, telemetry, received, answers>>

Run == RunCancelled \/ RunDone

Next ==
  \/ ClientSends \/ ClientCloses \/ ClientReads
  \/ ServerReads \/ ServerGarbles \/ ServerEnds
  \/ ProxyClientToServer \/ ProxyServerToClient
  \/ Cancel \/ Run

Spec == Init /\ [][Next]_vars

(* The gateway's goroutines run; the client reads what it is sent; the     *)
(* server reads its stdin and exits at its end.  Nobody has to send, to    *)
(* close, or to cancel.                                                    *)
FairSpec ==
  /\ Spec
  /\ WF_vars(ProxyClientToServer) /\ WF_vars(ProxyServerToClient) /\ WF_vars(Run)
  /\ WF_vars(ClientReads) /\ WF_vars(ServerReads) /\ WF_vars(ServerMustEnd)

-----------------------------------------------------------------------------
(* The types of the state: a pipe is no longer than the system makes it,   *)
(* and the goroutine has a message exactly while it handles one.           *)
Messages == UNION {MessagesOf(i) : i \in Ids}
Lines == {Answer(i, by) : i \in Ids, by \in {"server", "gateway"}} \cup {Answer(0, "bad")}
TypeOK ==
  /\ cfg \in Policies /\ clientDone \in BOOLEAN /\ stdinClosed \in BOOLEAN /\ cancelled \in BOOLEAN
  /\ srv \in {"up", "gone"} /\ bad \in 0 .. MaxBad
  /\ rpc \in {"select", "killed", "wait", "returned"}
  /\ sent \in Seq(Messages) /\ answers \in Seq(Lines)
  /\ toGw \in Seq(Messages) /\ Len(toGw) <= PipeCap
  /\ toSrv \in Seq(Messages) /\ Len(toSrv) <= PipeCap
  /\ fromSrv \in Seq(Lines) /\ Len(fromSrv) <= PipeCap
  /\ toClient \in Seq(Lines) /\ Len(toClient) <= PipeCap
  /\ cpc \in {"read", "intercept", "refuse", "bridge", "forward", "ended"}
  /\ msg \in Messages \cup {NoMsg} /\ (msg = NoMsg <=> cpc \in {"read", "ended"})
  /\ spc \in {"read", "write", "ended"} /\ line \in Lines \cup {NoLine}
  /\ (spc = "write" => line # NoLine)
  /\ emitted \subseteq Ids /\ bridged \subseteq Ids /\ received \subseteq Ids

-----------------------------------------------------------------------------
(* What the policy file says of a tool, put as the document puts it: the   *)
(* first rule for it decides, and where no rule or an undecided one is     *)
(* found the default does, which is to allow when it is not given.         *)
IsFor(i, t) == cfg.tools[i].server = Server /\ cfg.tools[i].tool = t
FirstFor(i, t) == i \in DOMAIN cfg.tools /\ IsFor(i, t) /\ \A j \in 1 .. i - 1 : ~IsFor(j, t)
PolicyBlocks(t) ==
  \/ \E i \in DOMAIN cfg.tools : FirstFor(i, t) /\ cfg.tools[i].decision = "blocked"
  \/ /\ cfg.default = "blocked"
     /\ \A i \in DOMAIN cfg.tools : FirstFor(i, t) => cfg.tools[i].decision = ""
\* The calls that are requests; a tools/call without id is a notice.
CallIds == {i \in DOMAIN sent : sent[i].kind = "call"}
BlockedIds == {i \in CallIds : PolicyBlocks(sent[i].tool)}
AnsweredBy(by) == {a.id : a \in {b \in Range(answers \o toClient) : b.by = by}}

(* A call (a tools/call request: one without an id is not governed, see    *)
(* Notice) that the policy blocks never reaches the server and leaves no   *)
(* host corroboration behind, however the two directions are interleaved;  *)
(* and the gateway refuses nothing else (policy.go Evaluate, gateway.go    *)
(* 150-171).                                                               *)
BlockedStaysOut ==
  /\ BlockedIds \cap (received \cup bridged) = {}
  /\ AnsweredBy("gateway") \subseteq BlockedIds

(* The client never gets two answers to one request: what the gateway      *)
(* refuses it does not also forward, and what it forwards it answers with  *)
(* the server's answer only.                                               *)
AnsweredOnce ==
  LET all == answers \o toClient
  IN  \A i, j \in DOMAIN all : all[i].id = all[j].id => i = j

(* Every call that had an effect was reported first: one the server has    *)
(* read, one bridged, and also one refused (interceptor.go 74-76 emits     *)
(* before the decision is looked at).                                      *)
ReportedFirst ==
  (CallIds \cap received) \cup bridged \cup AnsweredBy("gateway") \subseteq emitted

(* A request is answered, unless the server is gone before it read it, or  *)
(* the gateway stopped reading before it, or the server has written a line *)
(* that is not JSON.  In particular an answer the server has written       *)
(* reaches the client also when the server has ended, when the client has  *)
(* closed its side and when the gateway is being stopped: Run waits for    *)
(* both goroutines.                                                        *)
EveryRequestAnswered ==
  \A id \in Ids :
    (id \in DOMAIN sent /\ sent[id].kind \in {"call", "request"}) ~>
      \/ \E a \in Range(answers) : a.id = id
      \/ bad > 0
      \/ id \notin received /\ (srv = "gone" \/ cpc = "ended")

(* When the client closes its side the gateway ends, and the server with   *)
(* it, unless the server's output stopped being JSON: then nobody reads it *)
(* any more, and a server blocked on writing never sees its stdin closed.  *)
EndsAtEof == clientDone ~> (rpc = "returned" \/ bad > 0)
=============================================================================
