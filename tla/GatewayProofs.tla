--------------------------- MODULE GatewayProofs ---------------------------
(* The MCP gateway, for any policy, tools, pipes and bounds: its types;    *)
(* that no tool call has an effect before it was handed to Emit; that a    *)
(* blocked one never has any; that no request is answered twice. And the   *)
(* directory into which Emit drops its events, for any set of events and   *)
(* any number of crashes and failed removals: its types, and that no event *)
(* dropped there is lost.                                                  *)
EXTENDS McpGateway, InjectDir, SequenceTheorems, FiniteSetTheorems, WellFoundedInduction, TLAPS

(* The parts of TypeOK. *)
Flags ==
  /\ cfg \in Policies /\ clientDone \in BOOLEAN /\ stdinClosed \in BOOLEAN /\ cancelled \in BOOLEAN
  /\ srv \in {"up", "gone"} /\ bad \in 0 .. MaxBad
  /\ rpc \in {"select", "killed", "wait", "returned"}
Places == {"read", "intercept", "refuse", "bridge", "forward", "ended"}
Handled ==
  /\ cpc \in Places /\ msg \in Messages \cup {NoMsg} /\ (msg = NoMsg <=> cpc \in {"read", "ended"})
  /\ spc \in {"read", "write", "ended"} /\ line \in Lines \cup {NoLine}
  /\ (spc = "write" => line # NoLine)
Pipe(p, S) == p \in Seq(S) /\ Len(p) <= PipeCap
Pipes ==
  /\ sent \in Seq(Messages) /\ answers \in Seq(Lines)
  /\ Pipe(toGw, Messages) /\ Pipe(toSrv, Messages) /\ Pipe(fromSrv, Lines) /\ Pipe(toClient, Lines)
History == emitted \subseteq Ids /\ bridged \subseteq Ids /\ received \subseteq Ids

(* What the names of the messages and the answers say. *)
LEMMA MessageFacts ==
  /\ \A i \in Ids : MessagesOf(i) \subseteq Messages
  /\ \A i \in Ids : \A m \in MessagesOf(i) : m.id = i
  /\ \A m \in Messages : m.id \in Ids /\ m # NoMsg
<1>1. \A i \in Ids : \A m \in MessagesOf(i) : m.id = i /\ m # NoMsg
  BY DEF Ids, MessagesOf, Call, Request, Notice, Garbled, NoMsg
<1> QED
  BY <1>1 DEF Messages

(* So for the lines. *)
LEMMA LineFacts ==
  /\ \A i \in Ids : Answer(i, "server") \in Lines /\ Answer(i, "gateway") \in Lines
  /\ Answer(0, "bad") \in Lines
  /\ \A a \in Lines : a # NoLine
<1>1. \A i \in Ids : Answer(i, "server") \in Lines /\ Answer(i, "gateway") \in Lines
  BY DEF Lines
<1>2. \A a \in Lines : a.by # "none"
  BY DEF Lines, Answer
<1>3. NoLine.by = "none"
  BY DEF NoLine, Answer
<1>4. Answer(0, "bad") \in Lines
  BY DEF Lines
<1> QED
  BY <1>1, <1>2, <1>3, <1>4

(* A write to a pipe that has room, and a read of one that has a message. *)
LEMMA PipeWrite ==
  ASSUME NEW S, NEW p, Pipe(p, S), Len(p) < PipeCap, NEW e \in S
  PROVE  Pipe(Append(p, e), S)
<1>1. p \in Seq(S) /\ Len(p) \in Nat /\ PipeCap \in Nat
  BY GatewayAssumption, LenProperties DEF Pipe
<1> QED
  BY <1>1, AppendProperties DEF Pipe

(* The read. *)
LEMMA PipeRead ==
  ASSUME NEW S, NEW p, Pipe(p, S), p # << >>
  PROVE  Head(p) \in S /\ Pipe(Tail(p), S)
<1>1. p \in Seq(S) /\ Len(p) \in Nat /\ PipeCap \in Nat
  BY GatewayAssumption, LenProperties DEF Pipe
<1> QED
  BY <1>1, HeadTailProperties DEF Pipe

-----------------------------------------------------------------------------
(* The client and the server keep the types. *)
LEMMA OthersKeepTypes ==
  ASSUME Flags, Handled, Pipes, History,
         \/ ClientSends \/ ClientCloses \/ ClientReads \/ ServerReads \/ ServerGarbles \/ ServerEnds
  PROVE  Flags' /\ Handled' /\ Pipes' /\ History'
<1> USE DEF client, c2s, s2c, telemetry
<1>1. CASE ClientSends
  <2>1. PICK m \in MessagesOf(Len(sent) + 1) : sent' = Append(sent, m) /\ toGw' = Append(toGw, m)
    BY <1>1 DEF ClientSends
  <2>2. Len(sent) \in Nat /\ Len(sent) < MaxMsgs /\ MaxMsgs \in Nat
    BY <1>1, GatewayAssumption, LenProperties DEF ClientSends, Pipes
  <2>3. m \in Messages
    BY <2>2, MessageFacts DEF Ids
  <2>4. sent' \in Seq(Messages)
    BY <2>1, <2>3, AppendProperties DEF Pipes
  <2>5. Pipe(toGw', Messages)
    BY <1>1, <2>1, <2>3, PipeWrite DEF ClientSends, Pipes
  <2>6. Pipes'
    BY <1>1, <2>4, <2>5 DEF ClientSends, Pipes, Pipe
  <2> QED
    BY <1>1, <2>6 DEF ClientSends, Flags, Handled, History
<1>2. CASE ClientCloses \/ ServerEnds
  <2>1. Flags'
    BY <1>2 DEF ClientCloses, ServerEnds, Flags
  <2> QED
    BY <1>2, <2>1 DEF ClientCloses, ServerEnds, Handled, Pipes, Pipe, History
<1>3. CASE ClientReads
  <2>1. Head(toClient) \in Lines /\ Pipe(Tail(toClient), Lines)
    BY <1>3, PipeRead DEF ClientReads, Pipes
  <2>2. answers' \in Seq(Lines) /\ Pipe(toClient', Lines)
    BY <1>3, <2>1, AppendProperties DEF ClientReads, Pipes
  <2>3. Pipes'
    BY <1>3, <2>2 DEF ClientReads, Pipes, Pipe
  <2> QED
    BY <1>3, <2>3 DEF ClientReads, Flags, Handled, History
<1>4. CASE ServerReads
  <2>1. Head(toSrv) \in Messages /\ Pipe(toSrv', Messages)
    BY <1>4, PipeRead DEF ServerReads, Pipes
  <2>2. Head(toSrv).id \in Ids
    BY <2>1, MessageFacts
  <2>3. Pipe(fromSrv', Lines)
    <3>1. CASE UNCHANGED fromSrv
      BY <3>1 DEF Pipes, Pipe
    <3>2. CASE Len(fromSrv) < PipeCap /\ fromSrv' = Append(fromSrv, Answer(Head(toSrv).id, "server"))
      BY <3>2, <2>2, LineFacts, PipeWrite DEF Pipes
    <3> QED
      BY <1>4, <3>1, <3>2 DEF ServerReads
  <2>4. Pipes' /\ History'
    BY <1>4, <2>1, <2>2, <2>3 DEF ServerReads, Pipes, Pipe, History
  <2> QED
    BY <1>4, <2>4 DEF ServerReads, Flags, Handled
<1>5. CASE ServerGarbles
  <2>1. Pipe(fromSrv', Lines)
    BY <1>5, LineFacts, PipeWrite DEF ServerGarbles, Pipes
  <2>2. bad' \in 0 .. MaxBad
    BY <1>5, GatewayAssumption DEF ServerGarbles, Flags
  <2>3. Pipes'
    BY <1>5, <2>1 DEF ServerGarbles, Pipes, Pipe
  <2> QED
    BY <1>5, <2>2, <2>3 DEF ServerGarbles, Flags, Handled, History
<1> QED
  BY <1>1, <1>2, <1>3, <1>4, <1>5

(* So does the goroutine that handles the client's messages. *)
LEMMA ClientToServerKeepsTypes ==
  ASSUME Flags, Handled, Pipes, History, ProxyClientToServer
  PROVE  Flags' /\ Handled' /\ Pipes' /\ History'
<1> USE DEF client, c2s, s2c, telemetry
<1>1. CASE C2SRead
  <2>1. Head(toGw) \in Messages /\ Pipe(toGw', Messages)
    BY <1>1, PipeRead DEF C2SRead, Pipes
  <2>2. Handled'
    <3>1. CASE Head(toGw).kind = "bad"
      BY <1>1, <3>1 DEF C2SRead, Ends, Handled, Places
    <3>2. CASE Head(toGw).kind # "bad"
      BY <1>1, <3>2, <2>1, MessageFacts DEF C2SRead, Handled, Places
    <3> QED
      BY <3>1, <3>2
  <2>3. Flags'
    BY <1>1 DEF C2SRead, Ends, Flags
  <2>4. Pipes'
    BY <1>1, <2>1 DEF C2SRead, Pipes, Pipe
  <2> QED
    BY <1>1, <2>2, <2>3, <2>4 DEF C2SRead, History
<1>2. CASE C2SEof
  BY <1>2 DEF C2SEof, Ends, Flags, Handled, Places, Pipes, Pipe, History
<1>3. CASE OnToolsCall \/ HostBridge
  <2>1. msg \in Messages /\ msg.id \in Ids
    BY <1>3, MessageFacts DEF OnToolsCall, HostBridge, Handled
  <2>2. History'
    BY <1>3, <2>1 DEF OnToolsCall, HostBridge, History
  <2>3. Handled'
    BY <1>3 DEF OnToolsCall, HostBridge, Handled, Places
  <2> QED
    BY <1>3, <2>2, <2>3 DEF OnToolsCall, HostBridge, Flags, Pipes, Pipe
<1>4. CASE Refuse
  <2>1. msg \in Messages /\ msg.id \in Ids
    BY <1>4, MessageFacts DEF Refuse, Handled
  <2>2. Pipe(toClient', Lines)
    BY <1>4, <2>1, LineFacts, PipeWrite DEF Refuse, Pipes
  <2>3. Pipes'
    BY <1>4, <2>2 DEF Refuse, Pipes, Pipe
  <2>4. Handled'
    BY <1>4 DEF Refuse, Handled, Places
  <2> QED
    BY <1>4, <2>3, <2>4 DEF Refuse, Flags, History
<1>5. CASE Forward
  <2>1. msg \in Messages
    BY <1>5 DEF Forward, Handled
  <2>2. Pipe(toSrv', Messages)
    <3>1. CASE Len(toSrv) < PipeCap /\ toSrv' = Append(toSrv, msg)
      BY <3>1, <2>1, PipeWrite DEF Pipes
    <3>2. CASE UNCHANGED toSrv
      BY <3>2 DEF Pipes, Pipe
    <3> QED
      BY <1>5, <3>1, <3>2 DEF Forward
  <2>3. Pipes'
    BY <1>5, <2>2 DEF Forward, Pipes, Pipe
  <2>4. Handled' /\ Flags'
    BY <1>5 DEF Forward, Ends, Handled, Places, Flags
  <2> QED
    BY <1>5, <2>3, <2>4 DEF Forward, History
<1> QED
  BY <1>1, <1>2, <1>3, <1>4, <1>5 DEF ProxyClientToServer

(* And the other one, and Run. *)
LEMMA RestKeepsTypes ==
  ASSUME Flags, Handled, Pipes, History,
         ProxyServerToClient \/ Cancel \/ Run \/ UNCHANGED vars
  PROVE  Flags' /\ Handled' /\ Pipes' /\ History'
<1> USE DEF client, c2s, s2c, telemetry
<1>1. CASE S2CRead
  <2>1. Head(fromSrv) \in Lines /\ Pipe(fromSrv', Lines)
    BY <1>1, PipeRead DEF S2CRead, Pipes
  <2>2. Handled'
    BY <1>1, <2>1, LineFacts DEF S2CRead, Handled
  <2>3. Pipes'
    BY <1>1, <2>1 DEF S2CRead, Pipes, Pipe
  <2> QED
    BY <1>1, <2>2, <2>3 DEF S2CRead, Flags, History
<1>2. CASE S2CWrite
  <2>1. line \in Lines
    BY <1>2 DEF S2CWrite, Handled
  <2>2. Pipe(toClient', Lines)
    BY <1>2, <2>1, PipeWrite DEF S2CWrite, Pipes
  <2>3. Pipes'
    BY <1>2, <2>2 DEF S2CWrite, Pipes, Pipe
  <2>4. Handled'
    BY <1>2 DEF S2CWrite, Handled
  <2> QED
    BY <1>2, <2>3, <2>4 DEF S2CWrite, Flags, History
<1>3. CASE S2CEof
  BY <1>3 DEF S2CEof, Flags, Handled, Pipes, Pipe, History
<1>4. CASE Cancel \/ RunCancelled \/ RunDone
  <2>1. Flags'
    BY <1>4 DEF Cancel, RunCancelled, RunDone, Flags
  <2> QED
    BY <1>4, <2>1 DEF Cancel, RunCancelled, RunDone, Handled, Pipes, Pipe, History
<1>5. CASE UNCHANGED vars
  BY <1>5 DEF vars, Flags, Handled, Pipes, Pipe, History
<1> QED
  BY <1>1, <1>2, <1>3, <1>4, <1>5 DEF ProxyServerToClient, Run

(* TypeOK is its parts. *)
LEMMA TypeParts == TypeOK => Flags /\ Handled /\ Pipes /\ History
BY DEF TypeOK, Flags, Handled, Places, Pipes, Pipe, History

(* Every step keeps the types. *)
LEMMA TypeStep == TypeOK /\ [Next]_vars => TypeOK'
<1> SUFFICES ASSUME TypeOK, [Next]_vars PROVE TypeOK'
  OBVIOUS
<1>1. Flags' /\ Handled' /\ Pipes' /\ History'
  BY TypeParts, OthersKeepTypes, ClientToServerKeepsTypes, RestKeepsTypes DEF Next
<1> QED
  BY <1>1 DEF TypeOK, Flags, Handled, Places, Pipes, Pipe, History

(* The first state has the types. *)
LEMMA InitTypes == Init => TypeOK
<1> SUFFICES ASSUME Init PROVE TypeOK
  OBVIOUS
<1>1. \A S : << >> \in Seq(S) /\ Len(<< >>) = 0
  BY EmptySeq
<1>2. Pipes
  BY <1>1, GatewayAssumption DEF Init, Pipes, Pipe
<1>3. Flags
  <2>1. bad \in 0 .. MaxBad
    BY GatewayAssumption DEF Init
  <2> QED
    BY <2>1 DEF Init, Flags
<1>4. Handled /\ History
  BY DEF Init, Handled, Places, History
<1> QED
  BY <1>2, <1>3, <1>4 DEF TypeOK, Flags, Handled, Places, Pipes, Pipe, History

(* The state of McpGateway keeps its types: a pipe is no longer than the   *)
(* system makes it, and the goroutine of gateway.go:112-182 has a message  *)
(* exactly while it handles one.                                           *)
THEOREM TypeCorrect == Spec => []TypeOK
  BY InitTypes, TypeStep, PTL DEF Spec

-----------------------------------------------------------------------------
(* Why a call is reported first: each message in the gateway is one the    *)
(* client has sent, under its own name, and past the interceptor a call    *)
(* has been handed to Emit; so the server reads no other, and only the     *)
(* gateway's own refusals bear its name.                                   *)
Known == {m \in Messages : m.id \in DOMAIN sent /\ sent[m.id] = m}
Reported == {m \in Known : m.kind = "call" => m.id \in emitted}
ServerLines == {a \in Lines : a.by # "gateway"}
ReportedLines == {a \in Lines : a.by = "gateway" => a.id \in emitted}

Upstream == toGw \in Seq(Known) /\ toSrv \in Seq(Reported)
Downstream ==
  /\ fromSrv \in Seq(ServerLines) /\ toClient \in Seq(ReportedLines)
  /\ answers \in Seq(ReportedLines) /\ line \in ServerLines \cup {NoLine}
AtHand ==
  /\ cpc \in {"intercept", "refuse", "bridge", "forward"} => msg \in Known
  /\ cpc \in {"refuse", "bridge"} => msg.id \in emitted
  /\ cpc = "forward" => msg \in Reported
Effects == bridged \subseteq emitted /\ received \subseteq DOMAIN sent
           /\ CallIds \cap received \subseteq emitted
ReportInv == Upstream /\ Downstream /\ AtHand /\ Effects

(* What is known and reported stays so as the client sends and calls are   *)
(* reported.                                                               *)
LEMMA ReportsGrow ==
  ASSUME emitted \subseteq emitted',
         DOMAIN sent \subseteq DOMAIN sent', \A i \in DOMAIN sent : sent'[i] = sent[i]
  PROVE  Known \subseteq Known' /\ Reported \subseteq Reported' /\ ReportedLines \subseteq ReportedLines'
BY DEF Known, Reported, ReportedLines

(* A step that leaves the two alone changes none of the sets. *)
LEMMA SameReports ==
  ASSUME UNCHANGED <<sent, emitted>>
  PROVE  Known' = Known /\ Reported' = Reported /\ ReportedLines' = ReportedLines /\ CallIds' = CallIds
BY DEF Known, Reported, ReportedLines, CallIds

(* Only a send and the interceptor change what there is to report. *)
LEMMA GrowingStep ==
  ASSUME TypeOK, ReportInv, ClientSends \/ OnToolsCall
  PROVE  ReportInv'
<1> USE DEF client, c2s, s2c, telemetry
<1>1. CASE ClientSends
  <2>1. PICK m \in MessagesOf(Len(sent) + 1) : sent' = Append(sent, m) /\ toGw' = Append(toGw, m)
    BY <1>1 DEF ClientSends
  <2>2. Len(sent) \in Nat /\ Len(sent) + 1 \in Ids /\ sent \in Seq(Messages)
    BY <1>1, GatewayAssumption, LenProperties DEF ClientSends, TypeOK, Ids
  <2>3. m \in Messages /\ m.id = Len(sent) + 1
    BY <2>2, MessageFacts
  <2>4. /\ DOMAIN sent' = DOMAIN sent \cup {m.id} /\ sent'[m.id] = m /\ m.id \notin DOMAIN sent
        /\ \A i \in DOMAIN sent : sent'[i] = sent[i]
    BY <2>1, <2>2, <2>3, AppendProperties, LenProperties
  <2>5. m \in Known' /\ emitted' = emitted
    BY <1>1, <2>3, <2>4 DEF ClientSends, Known
  <2>6. Known \subseteq Known' /\ Reported \subseteq Reported' /\ ReportedLines \subseteq ReportedLines'
    BY <2>4, <2>5, ReportsGrow
  <2>7. toGw \in Seq(Known') /\ toSrv \in Seq(Reported')
    BY <2>6, SeqMonotonic DEF ReportInv, Upstream
  <2>8. Upstream'
    BY <1>1, <2>1, <2>5, <2>7, AppendProperties DEF ClientSends, Upstream
  <2>9. toClient \in Seq(ReportedLines') /\ answers \in Seq(ReportedLines')
    BY <2>6, SeqMonotonic DEF ReportInv, Downstream
  <2>10. Downstream'
    BY <1>1, <2>9 DEF ClientSends, ReportInv, Downstream, ServerLines
  <2>11. AtHand'
    BY <1>1, <2>6 DEF ClientSends, ReportInv, AtHand
  <2>12. Effects'
    <3>1. received' = received /\ bridged' = bridged /\ received \subseteq DOMAIN sent
      BY <1>1 DEF ClientSends, ReportInv, Effects
    <3>2. CallIds' \cap received \subseteq CallIds
      BY <2>4, <3>1 DEF CallIds
    <3> QED
      BY <2>4, <2>5, <3>1, <3>2 DEF ReportInv, Effects
  <2> QED
    BY <2>8, <2>10, <2>11, <2>12 DEF ReportInv
<1>2. CASE OnToolsCall
  <2>1. emitted' = emitted \cup {msg.id} /\ UNCHANGED <<sent, toGw, toSrv, fromSrv, toClient, answers, line,
                                                       msg, bridged, received>>
    BY <1>2 DEF OnToolsCall
  <2>2. Known \subseteq Known' /\ Reported \subseteq Reported' /\ ReportedLines \subseteq ReportedLines'
    BY <2>1, ReportsGrow
  <2>3. Upstream'
    BY <2>1, <2>2, SeqMonotonic DEF ReportInv, Upstream
  <2>4. Downstream'
    BY <2>1, <2>2, SeqMonotonic DEF ReportInv, Downstream, ServerLines
  <2>5. cpc' \in {"refuse", "bridge"} /\ msg \in Known
    BY <1>2 DEF OnToolsCall, ReportInv, AtHand
  <2>6. AtHand'
    BY <2>1, <2>2, <2>5 DEF AtHand
  <2>7. Effects'
    BY <2>1 DEF ReportInv, Effects, CallIds
  <2> QED
    BY <2>3, <2>4, <2>6, <2>7 DEF ReportInv
<1> QED
  BY <1>1, <1>2

(* The client and the server's side of the rest. *)
LEMMA OthersKeepReports ==
  ASSUME TypeOK, ReportInv,
         \/ ClientCloses \/ ClientReads \/ ServerReads \/ ServerGarbles \/ ServerEnds
         \/ ProxyServerToClient \/ Cancel \/ Run \/ UNCHANGED vars
  PROVE  ReportInv'
<1> USE DEF client, c2s, s2c, telemetry
<1>1. UNCHANGED <<sent, emitted, bridged, cpc, msg, toGw>>
  BY DEF ClientCloses, ClientReads, ServerReads, ServerGarbles, ServerEnds, ProxyServerToClient, S2CRead,
         S2CWrite, S2CEof, Cancel, Run, RunCancelled, RunDone, vars
<1>2. Known' = Known /\ Reported' = Reported /\ ReportedLines' = ReportedLines /\ CallIds' = CallIds
  BY <1>1, SameReports
<1>3. AtHand' /\ toGw' \in Seq(Known') /\ ServerLines' = ServerLines
  BY <1>1, <1>2 DEF ReportInv, AtHand, Upstream, ServerLines
<1>4. CASE UNCHANGED <<toSrv, fromSrv, toClient, answers, line, received>>
  BY <1>1, <1>2, <1>3, <1>4 DEF ReportInv, Upstream, Downstream, Effects
<1>5. CASE ClientReads
  <2>1. Head(toClient) \in ReportedLines /\ Tail(toClient) \in Seq(ReportedLines)
    BY <1>5, HeadTailProperties DEF ClientReads, ReportInv, Downstream
  <2>2. Append(answers, Head(toClient)) \in Seq(ReportedLines)
    BY <2>1, AppendProperties DEF ReportInv, Downstream
  <2> QED
    BY <1>1, <1>2, <1>3, <1>5, <2>1, <2>2 DEF ClientReads, ReportInv, Upstream, Downstream, Effects
<1>6. CASE ServerReads
  <2>1. Head(toSrv) \in Reported /\ Tail(toSrv) \in Seq(Reported)
    BY <1>6, HeadTailProperties DEF ServerReads, ReportInv, Upstream
  <2>2. PICK id : id = Head(toSrv).id
    OBVIOUS
  <2>3. id \in Ids /\ id \in DOMAIN sent /\ (id \in CallIds => id \in emitted)
    BY <2>1, <2>2, MessageFacts DEF Reported, Known, CallIds
  <2>4. Effects'
    BY <1>1, <1>2, <1>6, <2>2, <2>3 DEF ServerReads, ReportInv, Effects
  <2>5. fromSrv' \in Seq(ServerLines)
    <3>1. Answer(id, "server") \in ServerLines
      <4>1. Answer(id, "server").by = "server"
        BY DEF Answer
      <4> QED
        BY <2>3, <4>1, LineFacts DEF ServerLines
    <3>2. fromSrv' = fromSrv \/ fromSrv' = Append(fromSrv, Answer(id, "server"))
      BY <1>6, <2>2 DEF ServerReads
    <3>3. fromSrv \in Seq(ServerLines)
      BY DEF ReportInv, Downstream
    <3> QED
      BY <3>1, <3>2, <3>3, AppendProperties
  <2> QED
    BY <1>1, <1>2, <1>3, <1>6, <2>1, <2>4, <2>5 DEF ServerReads, ReportInv, Upstream, Downstream
<1>7. CASE ServerGarbles
  <2>1. Answer(0, "bad") \in ServerLines
    <3>1. Answer(0, "bad").by = "bad"
      BY DEF Answer
    <3> QED
      BY <3>1, LineFacts DEF ServerLines
  <2>2. fromSrv' \in Seq(ServerLines)
    BY <1>7, <2>1, AppendProperties DEF ServerGarbles, ReportInv, Downstream
  <2> QED
    BY <1>1, <1>2, <1>3, <1>7, <2>2 DEF ServerGarbles, ReportInv, Upstream, Downstream, Effects
<1>8. CASE S2CRead
  <2>1. Head(fromSrv) \in ServerLines /\ Tail(fromSrv) \in Seq(ServerLines)
    BY <1>8, HeadTailProperties DEF S2CRead, ReportInv, Downstream
  <2> QED
    BY <1>1, <1>2, <1>3, <1>8, <2>1 DEF S2CRead, ReportInv, Upstream, Downstream, Effects
<1>9. CASE S2CWrite
  <2>1. line \in ServerLines /\ ServerLines \subseteq ReportedLines
    BY <1>9 DEF S2CWrite, TypeOK, ReportInv, Downstream, ServerLines, ReportedLines
  <2>2. toClient' \in Seq(ReportedLines)
    BY <1>9, <2>1, AppendProperties DEF S2CWrite, ReportInv, Downstream
  <2> QED
    BY <1>1, <1>2, <1>3, <1>9, <2>2 DEF S2CWrite, ReportInv, Upstream, Downstream, Effects
<1> QED
  BY <1>4, <1>5, <1>6, <1>7, <1>8, <1>9
  DEF ClientCloses, ServerEnds, ProxyServerToClient, S2CEof, Cancel, Run, RunCancelled, RunDone, vars

(* The rest of what the goroutine does with the client's messages. *)
LEMMA ClientToServerKeepsReports ==
  ASSUME TypeOK, ReportInv, C2SRead \/ C2SEof \/ Refuse \/ HostBridge \/ Forward
  PROVE  ReportInv'
<1> USE DEF client, c2s, s2c, telemetry
<1>1. UNCHANGED <<sent, emitted, received, fromSrv, answers, line>>
  BY DEF C2SRead, C2SEof, Refuse, HostBridge, Forward
<1>2. Known' = Known /\ Reported' = Reported /\ ReportedLines' = ReportedLines /\ CallIds' = CallIds
  BY <1>1, SameReports
<1>3. ServerLines' = ServerLines
  BY DEF ServerLines
<1>4. CASE C2SRead
  <2>1. Head(toGw) \in Known /\ Tail(toGw) \in Seq(Known)
    BY <1>4, HeadTailProperties DEF C2SRead, ReportInv, Upstream
  <2>2. AtHand'
    <3>1. CASE Head(toGw).kind = "bad"
      BY <1>4, <3>1 DEF C2SRead, Ends, AtHand
    <3>2. CASE Head(toGw).kind # "bad"
      BY <1>2, <1>4, <2>1, <3>2 DEF C2SRead, AtHand, Reported
    <3> QED
      BY <3>1, <3>2
  <2> QED
    BY <1>1, <1>2, <1>3, <1>4, <2>1, <2>2 DEF C2SRead, ReportInv, Upstream, Downstream, Effects
<1>5. CASE C2SEof
  BY <1>1, <1>2, <1>3, <1>5 DEF C2SEof, Ends, ReportInv, AtHand, Upstream, Downstream, Effects
<1>6. CASE Refuse
  <2>1. msg \in Messages /\ msg.id \in emitted
    BY <1>6 DEF Refuse, ReportInv, AtHand, Known
  <2>2. Answer(msg.id, "gateway") \in ReportedLines
    <3>1. Answer(msg.id, "gateway").id = msg.id /\ Answer(msg.id, "gateway") \in Lines
      BY <2>1, MessageFacts, LineFacts DEF Answer
    <3> QED
      BY <2>1, <3>1 DEF ReportedLines
  <2>3. toClient' \in Seq(ReportedLines)
    BY <1>6, <2>2, AppendProperties DEF Refuse, ReportInv, Downstream
  <2>4. AtHand'
    BY <1>6 DEF Refuse, AtHand
  <2> QED
    BY <1>1, <1>2, <1>3, <1>6, <2>3, <2>4 DEF Refuse, ReportInv, Upstream, Downstream, Effects
<1>7. CASE HostBridge
  <2>1. msg \in Reported /\ msg.id \in emitted
    BY <1>7 DEF HostBridge, ReportInv, AtHand, Reported
  <2>2. AtHand' /\ Effects'
    BY <1>1, <1>2, <1>7, <2>1 DEF HostBridge, ReportInv, AtHand, Effects, Reported
  <2> QED
    BY <1>1, <1>2, <1>3, <1>7, <2>2 DEF HostBridge, ReportInv, Upstream, Downstream
<1>8. CASE Forward
  <2>1. msg \in Reported
    BY <1>8 DEF Forward, ReportInv, AtHand
  <2>2. toSrv' \in Seq(Reported)
    BY <1>8, <2>1, AppendProperties DEF Forward, ReportInv, Upstream
  <2>3. AtHand'
    BY <1>8 DEF Forward, Ends, AtHand
  <2> QED
    BY <1>1, <1>2, <1>3, <1>8, <2>2, <2>3 DEF Forward, ReportInv, Upstream, Downstream, Effects
<1> QED
  BY <1>4, <1>5, <1>6, <1>7, <1>8

(* Every step keeps it. *)
LEMMA ReportStep == TypeOK /\ ReportInv /\ [Next]_vars => ReportInv'
<1> SUFFICES ASSUME TypeOK, ReportInv, [Next]_vars PROVE ReportInv'
  OBVIOUS
<1> QED
  BY GrowingStep, OthersKeepReports, ClientToServerKeepsReports DEF Next, ProxyClientToServer

(* It holds at the start, where nothing has been sent. *)
LEMMA InitReports == Init => ReportInv
<1>1. \A S : << >> \in Seq(S)
  BY EmptySeq
<1> QED
  BY <1>1 DEF Init, ReportInv, Upstream, Downstream, AtHand, Effects

(* It says of the client's answers, read and waiting, what the property    *)
(* asks.                                                                   *)
LEMMA ReportsCover == ReportInv => ReportedFirst
<1> SUFFICES ASSUME ReportInv PROVE ReportedFirst
  OBVIOUS
<1>1. answers \o toClient \in Seq(ReportedLines)
  BY ConcatProperties DEF ReportInv, Downstream
<1>2. Range(answers \o toClient) \subseteq ReportedLines
  BY <1>1, ElementOfSeq, LenProperties DEF Range
<1>3. AnsweredBy("gateway") \subseteq emitted
  BY <1>2 DEF AnsweredBy, ReportedLines
<1> QED
  BY <1>3 DEF ReportInv, Effects, ReportedFirst

(* Every call that had an effect was reported first: one the server has    *)
(* read, one bridged, and one refused (interceptor.go:74-76).              *)
THEOREM EffectsAreReported == Spec => []ReportedFirst
  BY InitReports, TypeCorrect, ReportStep, ReportsCover, PTL DEF Spec

-----------------------------------------------------------------------------
(* A blocked call stays out.  First, what Evaluate answers is what the     *)
(* policy file says.                                                       *)

(* A nonempty set of numbers has a least one: of the intervals from 0 to a *)
(* member, one is within no other.                                         *)
LEMMA LeastNumber ==
  ASSUME NEW S, S \subseteq Nat, S # {}
  PROVE  \E x \in S : \A y \in S : x <= y
<1>1. PICK n \in S : n \in Nat
  OBVIOUS
<1>2. PICK T : T = {0 .. m : m \in S \cap (0 .. n)}
  OBVIOUS
<1>3. IsFiniteSet(0 .. n) /\ FiniteSubsetsOf(0 .. n) = SUBSET (0 .. n)
  <2>1. PICK I : I = 0 .. n
    OBVIOUS
  <2>2. IsFiniteSet(I)
    BY <1>1, <2>1, FS_Interval
  <2>3. FiniteSubsetsOf(I) = SUBSET I
    BY <2>2, FS_FiniteSubsetsOfFinite
  <2> QED
    BY <2>1, <2>2, <2>3
<1>4. T \subseteq FiniteSubsetsOf(0 .. n) /\ T # {}
  <2>1. \A m \in 0 .. n : 0 .. m \subseteq 0 .. n
    BY <1>1
  <2>2. n \in S \cap (0 .. n)
    BY <1>1
  <2> QED
    BY <1>2, <1>3, <2>1, <2>2
<1>5. PICK I \in T : \A J \in T : ~(<<J, I>> \in StrictSubsetOrdering(0 .. n))
  BY <1>4, FS_StrictSubsetOrderingWellFounded, WFMin
<1>6. PICK x \in S \cap (0 .. n) : I = 0 .. x
  BY <1>2
<1>7. ASSUME NEW y \in S, y < x PROVE FALSE
  <2>1. y \in 0 .. n /\ x \in Nat
    BY <1>1, <1>6, <1>7
  <2>2. 0 .. y \in T /\ 0 .. y \subseteq 0 .. x /\ 0 .. y # 0 .. x
    BY <1>2, <1>7, <2>1
  <2>3. 0 .. y \subseteq 0 .. n /\ 0 .. x \subseteq 0 .. n
    BY <1>1, <1>6, <2>1
  <2> QED
    BY <1>5, <1>6, <2>2, <2>3 DEF StrictSubsetOrdering
<1> QED
  BY <1>6, <1>7

(* The first rule for a tool is the least of those that match.             *)
LEMMA FirstIsLeast ==
  ASSUME cfg \in Policies, NEW t
  PROVE  LET M == Matching(cfg, Server, t) IN
         /\ M = {} => \A i \in DOMAIN cfg.tools : ~FirstFor(i, t)
         /\ M # {} => Min(M) \in DOMAIN cfg.tools /\ \A i \in DOMAIN cfg.tools : FirstFor(i, t) <=> i = Min(M)
<1>1. PICK n \in Nat : DOMAIN cfg.tools = 1 .. n
  BY GatewayAssumption, LenProperties
<1>2. PICK M : M = Matching(cfg, Server, t)
  OBVIOUS
<1>3. M = {i \in 1 .. n : IsFor(i, t)}
  BY <1>1, <1>2 DEF Matching, IsFor
<1>4. M = {} => \A i \in DOMAIN cfg.tools : ~FirstFor(i, t)
  BY <1>1, <1>3 DEF FirstFor
<1>5. ASSUME M # {}
      PROVE  Min(M) \in 1 .. n /\ \A i \in 1 .. n : FirstFor(i, t) <=> i = Min(M)
  <2>1. \E x \in M : \A y \in M : x <= y
    BY <1>3, <1>5, LeastNumber
  <2>2. Min(M) \in M /\ \A y \in M : Min(M) <= y
    BY <2>1 DEF Min
  <2>3. PICK m : m = Min(M)
    OBVIOUS
  <2>4. m \in 1 .. n /\ IsFor(m, t) /\ \A j \in 1 .. n : IsFor(j, t) => m <= j
    BY <1>3, <2>2, <2>3
  <2>5. FirstFor(m, t)
    <3>1. \A j \in 1 .. m - 1 : j \in 1 .. n /\ ~(m <= j)
      BY <2>4
    <3> QED
      BY <1>1, <2>4, <3>1 DEF FirstFor
  <2>6. ASSUME NEW i \in 1 .. n, FirstFor(i, t) PROVE i = m
    <3>1. m <= i
      BY <2>4, <2>6 DEF FirstFor
    <3>2. m \notin 1 .. i - 1
      BY <2>4, <2>6 DEF FirstFor
    <3> QED
      BY <2>4, <3>1, <3>2
  <2> QED
    BY <2>3, <2>4, <2>5, <2>6
<1> QED
  BY <1>1, <1>2, <1>4, <1>5

(* So the gateway blocks a tool exactly when the file does.                *)
LEMMA PolicyIsEvaluated ==
  ASSUME cfg \in Policies, NEW t
  PROVE  PolicyBlocks(t) <=> Evaluate(cfg, Server, t).decision = "blocked"
<1>1. PICK M : M = Matching(cfg, Server, t)
  OBVIOUS
<1>2. CASE M = {}
  <2>1. \A i \in DOMAIN cfg.tools : ~FirstFor(i, t)
    BY <1>1, <1>2, FirstIsLeast
  <2>2. Evaluate(cfg, Server, t).decision = DefaultDecision(cfg)
    BY <1>1, <1>2 DEF Evaluate
  <2> QED
    BY <2>1, <2>2 DEF PolicyBlocks, DefaultDecision
<1>3. CASE M # {}
  <2>1. PICK m : m = Min(M)
    OBVIOUS
  <2>2. m \in DOMAIN cfg.tools /\ \A i \in DOMAIN cfg.tools : FirstFor(i, t) <=> i = m
    BY <1>1, <1>3, <2>1, FirstIsLeast
  <2>3. Evaluate(cfg, Server, t).decision =
          IF cfg.tools[m].decision = "" THEN DefaultDecision(cfg) ELSE cfg.tools[m].decision
    BY <1>1, <1>3, <2>1 DEF Evaluate
  <2> QED
    BY <2>2, <2>3 DEF PolicyBlocks, DefaultDecision
<1> QED
  BY <1>2, <1>3

(* Then, what has passed the interceptor and is not refused is not blocked,*)
(* and what the gateway answers itself is.                                 *)
Passed == {m \in Known : m.id \notin BlockedIds}
RefusalLines == {a \in Lines : a.by = "gateway" => a.id \in BlockedIds}
AtGate ==
  /\ cpc = "intercept" => msg.kind = "call"
  /\ cpc = "refuse" => msg.id \in BlockedIds
  /\ cpc \in {"bridge", "forward"} => msg \in Passed
Refused == answers \in Seq(RefusalLines) /\ toClient \in Seq(RefusalLines)
PassedOn == toSrv \in Seq(Passed) /\ received \cup bridged \subseteq DOMAIN sent \ BlockedIds
BlockInv == AtGate /\ Refused /\ PassedOn

(* Sending a message changes neither for the messages there are.           *)
LEMMA BlockedStay ==
  ASSUME cfg' = cfg, DOMAIN sent \subseteq DOMAIN sent', \A i \in DOMAIN sent : sent'[i] = sent[i]
  PROVE  /\ BlockedIds' \cap DOMAIN sent = BlockedIds /\ BlockedIds \subseteq DOMAIN sent
         /\ Passed \subseteq Passed' /\ RefusalLines \subseteq RefusalLines'
<1>1. \A t : PolicyBlocks(t)' <=> PolicyBlocks(t)
  BY DEF PolicyBlocks, FirstFor, IsFor
<1>2. BlockedIds' \cap DOMAIN sent = BlockedIds /\ BlockedIds \subseteq DOMAIN sent
  BY <1>1 DEF BlockedIds, CallIds
<1>3. Passed \subseteq Passed'
  BY <1>2 DEF Passed, Known
<1>4. RefusalLines \subseteq RefusalLines'
  BY <1>2 DEF RefusalLines
<1> QED
  BY <1>2, <1>3, <1>4

(* The client's send. *)
LEMMA SendKeepsBlocked ==
  ASSUME TypeOK, ReportInv, BlockInv, ClientSends
  PROVE  BlockInv'
<1> USE DEF client, c2s, s2c, telemetry
<1>1. PICK m : sent' = Append(sent, m)
  BY DEF ClientSends
<1>2. /\ DOMAIN sent \subseteq DOMAIN sent' /\ \A i \in DOMAIN sent : sent'[i] = sent[i]
      /\ cfg' = cfg
  BY <1>1, AppendProperties, LenProperties DEF ClientSends, TypeOK
<1>3. /\ BlockedIds' \cap DOMAIN sent = BlockedIds /\ BlockedIds \subseteq DOMAIN sent
      /\ Passed \subseteq Passed' /\ RefusalLines \subseteq RefusalLines'
  BY <1>2, BlockedStay
<1>4. UNCHANGED <<cpc, msg, answers, toClient, toSrv, received, bridged>>
  BY DEF ClientSends
<1>5. AtGate'
  BY <1>3, <1>4 DEF BlockInv, AtGate
<1>6. Refused' /\ toSrv' \in Seq(Passed')
  BY <1>3, <1>4, SeqMonotonic DEF BlockInv, Refused, PassedOn
<1>7. received' \cup bridged' \subseteq DOMAIN sent' \ BlockedIds'
  BY <1>2, <1>3, <1>4 DEF BlockInv, PassedOn
<1> QED
  BY <1>5, <1>6, <1>7 DEF BlockInv, PassedOn

(* Every other step leaves the policy and the messages sent alone.         *)
LEMMA SameBlocked ==
  ASSUME UNCHANGED <<cfg, sent>>
  PROVE  BlockedIds' = BlockedIds /\ Passed' = Passed /\ RefusalLines' = RefusalLines
BY DEF BlockedIds, CallIds, PolicyBlocks, FirstFor, IsFor, Passed, Known, RefusalLines

(* The interceptor and what follows it. *)
LEMMA GateKeepsBlocked ==
  ASSUME TypeOK, ReportInv, BlockInv, ProxyClientToServer
  PROVE  BlockInv'
<1> USE DEF client, c2s, s2c, telemetry
<1>1. UNCHANGED <<cfg, sent, answers, received>>
  BY DEF ProxyClientToServer, C2SRead, C2SEof, OnToolsCall, Refuse, HostBridge, Forward
<1>2. BlockedIds' = BlockedIds /\ Passed' = Passed /\ RefusalLines' = RefusalLines
  BY <1>1, SameBlocked
<1>3. CASE C2SRead
  <2>1. Head(toGw) \in Known
    BY <1>3, HeadTailProperties DEF C2SRead, ReportInv, Upstream
  <2>2. UNCHANGED <<toClient, toSrv, bridged>>
    BY <1>3 DEF C2SRead
  <2>3. AtGate'
    <3>1. CASE Head(toGw).kind = "bad"
      BY <1>3, <3>1 DEF C2SRead, Ends, AtGate
    <3>2. CASE Head(toGw).kind = "call"
      BY <1>3, <3>2 DEF C2SRead, AtGate
    <3>3. CASE Head(toGw).kind \notin {"bad", "call"}
      <4>1. Head(toGw).id \notin BlockedIds
        BY <2>1, <3>3 DEF Known, BlockedIds, CallIds
      <4> QED
        BY <1>2, <1>3, <2>1, <3>3, <4>1 DEF C2SRead, AtGate, Passed
    <3> QED
      BY <3>1, <3>2, <3>3
  <2> QED
    BY <1>1, <1>2, <2>2, <2>3 DEF BlockInv, Refused, PassedOn
<1>4. CASE C2SEof
  BY <1>1, <1>2, <1>4 DEF C2SEof, Ends, BlockInv, AtGate, Refused, PassedOn
<1>5. CASE OnToolsCall
  <2>1. msg \in Known /\ msg.kind = "call"
    BY <1>5 DEF OnToolsCall, ReportInv, AtHand, BlockInv, AtGate
  <2>2. Blocked(msg) <=> PolicyBlocks(msg.tool)
    BY PolicyIsEvaluated DEF TypeOK, Blocked
  <2>3. msg.id \in BlockedIds <=> Blocked(msg)
    BY <2>1, <2>2 DEF Known, BlockedIds, CallIds
  <2>4. AtGate'
    BY <1>2, <1>5, <2>1, <2>3 DEF OnToolsCall, AtGate, Passed
  <2> QED
    BY <1>1, <1>2, <1>5, <2>4 DEF OnToolsCall, BlockInv, Refused, PassedOn
<1>6. CASE Refuse
  <2>1. msg.id \in BlockedIds /\ msg.id \in Ids
    BY <1>6, MessageFacts DEF Refuse, BlockInv, AtGate, TypeOK
  <2>2. Answer(msg.id, "gateway") \in RefusalLines
    <3>1. Answer(msg.id, "gateway").id = msg.id /\ Answer(msg.id, "gateway") \in Lines
      BY <2>1, LineFacts DEF Answer
    <3> QED
      BY <2>1, <3>1 DEF RefusalLines
  <2>3. toClient' \in Seq(RefusalLines)
    BY <1>6, <2>2, AppendProperties DEF Refuse, BlockInv, Refused
  <2>4. AtGate'
    BY <1>6 DEF Refuse, AtGate
  <2> QED
    BY <1>1, <1>2, <1>6, <2>3, <2>4 DEF Refuse, BlockInv, Refused, PassedOn
<1>7. CASE HostBridge
  <2>1. msg \in Passed
    BY <1>7 DEF HostBridge, BlockInv, AtGate
  <2>2. msg.id \in DOMAIN sent \ BlockedIds
    BY <2>1 DEF Passed, Known
  <2>3. AtGate'
    BY <1>2, <1>7, <2>1 DEF HostBridge, AtGate
  <2> QED
    BY <1>1, <1>2, <1>7, <2>2, <2>3 DEF HostBridge, BlockInv, Refused, PassedOn
<1>8. CASE Forward
  <2>1. msg \in Passed
    BY <1>8 DEF Forward, BlockInv, AtGate
  <2>2. toSrv' \in Seq(Passed)
    BY <1>8, <2>1, AppendProperties DEF Forward, BlockInv, PassedOn
  <2>3. AtGate'
    BY <1>8 DEF Forward, Ends, AtGate
  <2> QED
    BY <1>1, <1>2, <1>8, <2>2, <2>3 DEF Forward, BlockInv, Refused, PassedOn
<1> QED
  BY <1>3, <1>4, <1>5, <1>6, <1>7, <1>8 DEF ProxyClientToServer

(* The other parties: the server reads what has passed, and the client     *)
(* what the gateway or the server has written.                             *)
LEMMA OthersKeepBlocked ==
  ASSUME TypeOK, ReportInv, BlockInv,
         \/ ClientCloses \/ ClientReads \/ ServerReads \/ ServerGarbles \/ ServerEnds
         \/ ProxyServerToClient \/ Cancel \/ Run \/ UNCHANGED vars
  PROVE  BlockInv'
<1> USE DEF client, c2s, s2c, telemetry
<1>1. UNCHANGED <<cfg, sent, cpc, msg, bridged>>
  BY DEF ClientCloses, ClientReads, ServerReads, ServerGarbles, ServerEnds, ProxyServerToClient, S2CRead,
         S2CWrite, S2CEof, Cancel, Run, RunCancelled, RunDone, vars
<1>2. BlockedIds' = BlockedIds /\ Passed' = Passed /\ RefusalLines' = RefusalLines
  BY <1>1, SameBlocked
<1>3. AtGate'
  BY <1>1, <1>2 DEF BlockInv, AtGate
<1>4. CASE UNCHANGED <<toSrv, toClient, answers, received>>
  BY <1>1, <1>2, <1>3, <1>4 DEF BlockInv, Refused, PassedOn
<1>5. CASE ClientReads
  <2>1. Head(toClient) \in RefusalLines /\ Tail(toClient) \in Seq(RefusalLines)
    BY <1>5, HeadTailProperties DEF ClientReads, BlockInv, Refused
  <2>2. Append(answers, Head(toClient)) \in Seq(RefusalLines)
    BY <2>1, AppendProperties DEF BlockInv, Refused
  <2> QED
    BY <1>1, <1>2, <1>3, <1>5, <2>1, <2>2 DEF ClientReads, BlockInv, Refused, PassedOn
<1>6. CASE ServerReads
  <2>1. Head(toSrv) \in Passed /\ Tail(toSrv) \in Seq(Passed)
    BY <1>6, HeadTailProperties DEF ServerReads, BlockInv, PassedOn
  <2>2. Head(toSrv).id \in DOMAIN sent \ BlockedIds
    BY <2>1 DEF Passed, Known
  <2> QED
    BY <1>1, <1>2, <1>3, <1>6, <2>1, <2>2 DEF ServerReads, BlockInv, Refused, PassedOn
<1>7. CASE S2CWrite
  <2>1. line \in RefusalLines
    BY <1>7 DEF S2CWrite, TypeOK, ReportInv, Downstream, ServerLines, RefusalLines
  <2>2. toClient' \in Seq(RefusalLines)
    BY <1>7, <2>1, AppendProperties DEF S2CWrite, BlockInv, Refused
  <2> QED
    BY <1>1, <1>2, <1>3, <1>7, <2>2 DEF S2CWrite, BlockInv, Refused, PassedOn
<1> QED
  BY <1>4, <1>5, <1>6, <1>7
  DEF ClientCloses, ServerGarbles, ServerEnds, ProxyServerToClient, S2CRead, S2CEof,
      Cancel, Run, RunCancelled, RunDone, vars

(* Every step keeps it, and it holds at the start. *)
LEMMA BlockStep == TypeOK /\ ReportInv /\ BlockInv /\ [Next]_vars => BlockInv'
BY SendKeepsBlocked, GateKeepsBlocked, OthersKeepBlocked DEF Next

LEMMA InitBlocked == Init => BlockInv
<1>1. \A S : << >> \in Seq(S)
  BY EmptySeq
<1> QED
  BY <1>1 DEF Init, BlockInv, AtGate, Refused, PassedOn

(* It says what the property asks. *)
LEMMA BlocksCover == BlockInv => BlockedStaysOut
<1> SUFFICES ASSUME BlockInv PROVE BlockedStaysOut
  OBVIOUS
<1>1. answers \o toClient \in Seq(RefusalLines)
  BY ConcatProperties DEF BlockInv, Refused
<1>2. Range(answers \o toClient) \subseteq RefusalLines
  BY <1>1, ElementOfSeq, LenProperties DEF Range
<1>3. AnsweredBy("gateway") \subseteq BlockedIds
  BY <1>2 DEF AnsweredBy, RefusalLines
<1> QED
  BY <1>3 DEF BlockInv, PassedOn, BlockedStaysOut

(* For any policy file, a call it blocks never reaches the server and      *)
(* leaves no host corroboration behind, and the gateway refuses no other   *)
(* (policy.go Evaluate, gateway.go:150-171).                               *)
THEOREM BlockedCallsStayOut == Spec => []BlockedStaysOut
<1>1. TypeOK /\ ReportInv /\ BlockInv /\ [Next]_vars => TypeOK' /\ ReportInv' /\ BlockInv'
  BY TypeStep, ReportStep, BlockStep
<1> QED
  BY <1>1, InitTypes, InitReports, InitBlocked, BlocksCover, PTL DEF Spec

-----------------------------------------------------------------------------
(* No request is answered twice.  A request is in one place at a time: on  *)
(* its way to the gateway, in the client's goroutine, on its way to the    *)
(* server, as an answer on its way back, in the server's goroutine, or     *)
(* with the client; and nowhere twice.  The lines that are not JSON bear   *)
(* no name (0) and go no further than the gateway.                         *)
IdsOf(s) == {s[i].id : i \in DOMAIN s}
Distinct(s) == \A i, j \in DOMAIN s : s[i].id = s[j].id /\ s[i].id # 0 => i = j
Replies == {a \in Lines : a.id # 0}
Replied == answers \o toClient
Apart(asked, taken, passed, served, copied, replied) ==
  /\ asked \cap (taken \cup passed \cup served \cup copied \cup replied) = {}
  /\ taken \cap (passed \cup served \cup copied \cup replied) = {}
  /\ passed \cap (served \cup copied \cup replied) = {}
  /\ served \cap (copied \cup replied) = {} /\ copied \cap replied = {}
ApartNow == Apart(IdsOf(toGw), {msg.id} \ {0}, IdsOf(toSrv), IdsOf(fromSrv) \ {0}, {line.id} \ {0}, IdsOf(Replied))
AllSent ==
  IdsOf(toGw) \cup ({msg.id} \ {0}) \cup IdsOf(toSrv) \cup (IdsOf(fromSrv) \ {0}) \cup ({line.id} \ {0})
    \cup IdsOf(Replied) \subseteq DOMAIN sent
NamedOnce == Distinct(toGw) /\ Distinct(toSrv) /\ Distinct(fromSrv) /\ Distinct(Replied)
OnlyReplies == answers \in Seq(Replies) /\ toClient \in Seq(Replies) /\ line \in Replies \cup {NoLine}
OnceInv == ApartNow /\ AllSent /\ NamedOnce /\ OnlyReplies

(* What is appended to a queue adds its name to the queue's.               *)
LEMMA AppendIds ==
  ASSUME NEW S, NEW p \in Seq(S), NEW e \in S
  PROVE  /\ IdsOf(Append(p, e)) = IdsOf(p) \cup {e.id}
         /\ Distinct(p) /\ e.id \notin IdsOf(p) \ {0} => Distinct(Append(p, e))
<1>1. PICK n \in Nat : n = Len(p) /\ DOMAIN p = 1 .. n
  BY LenProperties
<1>2. PICK q : q = Append(p, e)
  OBVIOUS
<1>3. DOMAIN q = 1 .. n + 1 /\ q[n + 1] = e /\ \A i \in 1 .. n : q[i] = p[i]
  BY <1>1, <1>2, AppendProperties, LenProperties
<1>4. 1 .. n + 1 = (1 .. n) \cup {n + 1}
  BY <1>1
<1>5. IdsOf(q) = IdsOf(p) \cup {e.id}
  BY <1>1, <1>3, <1>4 DEF IdsOf
<1>6. ASSUME Distinct(p), e.id \notin IdsOf(p) \ {0} PROVE Distinct(q)
  <2>1. \A i \in 1 .. n : p[i].id = e.id => e.id = 0
    BY <1>1, <1>6 DEF IdsOf
  <2> QED
    BY <1>1, <1>3, <1>4, <1>6, <2>1 DEF Distinct
<1> QED
  BY <1>2, <1>5, <1>6

(* What is taken off takes its name with it.                               *)
LEMMA TailIds ==
  ASSUME NEW S, NEW p \in Seq(S), p # << >>, Distinct(p)
  PROVE  /\ IdsOf(Tail(p)) \subseteq IdsOf(p) /\ Head(p).id \in IdsOf(p)
         /\ Head(p).id # 0 => Head(p).id \notin IdsOf(Tail(p))
         /\ Distinct(Tail(p))
<1>1. PICK n \in Nat \ {0} : n = Len(p) /\ DOMAIN p = 1 .. n
  BY LenProperties, EmptySeq
<1>2. PICK q : q = Tail(p)
  OBVIOUS
<1>3. DOMAIN q = 1 .. n - 1 /\ Head(p) = p[1] /\ \A i \in 1 .. n - 1 : q[i] = p[i + 1]
  BY <1>1, <1>2, HeadTailProperties, LenProperties
<1>4. \A i \in 1 .. n - 1 : i + 1 \in 1 .. n /\ i + 1 # 1
  BY <1>1
<1>5. 1 \in 1 .. n
  BY <1>1
<1>6. IdsOf(q) \subseteq IdsOf(p) /\ p[1].id \in IdsOf(p)
  BY <1>1, <1>3, <1>4, <1>5 DEF IdsOf
<1>7. ASSUME p[1].id # 0 PROVE p[1].id \notin IdsOf(q)
  <2>1. ASSUME NEW i \in 1 .. n - 1, q[i].id = p[1].id PROVE FALSE
    <3>1. PICK k \in 1 .. n : k = i + 1 /\ k # 1
      BY <1>4
    <3>2. p[k].id = p[1].id
      BY <1>3, <2>1, <3>1
    <3> QED
      BY <1>1, <1>5, <1>7, <3>1, <3>2 DEF Distinct
  <2> QED
    BY <1>3, <2>1 DEF IdsOf
<1>8. Distinct(q)
  <2>1. ASSUME NEW i \in 1 .. n - 1, NEW j \in 1 .. n - 1, q[i].id = q[j].id, q[i].id # 0 PROVE i = j
    <3>1. i + 1 = j + 1
      BY <1>1, <1>3, <1>4, <2>1 DEF Distinct
    <3> QED
      BY <3>1
  <2> QED
    BY <1>3, <2>1 DEF Distinct
<1> QED
  BY <1>2, <1>3, <1>6, <1>7, <1>8

(* Queues laid end to end do not depend on where they are joined.          *)
LEMMA JoinsAssociate ==
  ASSUME NEW S, NEW a \in Seq(S), NEW b \in Seq(S), NEW c \in Seq(S)
  PROVE  (a \o b) \o c = a \o (b \o c)
BY SMTT(60)

(* What the client reads it has already; what is written to it comes last. *)
LEMMA RepliedByRead ==
  ASSUME answers \in Seq(Replies), toClient \in Seq(Replies), toClient # << >>,
         answers' = Append(answers, Head(toClient)), toClient' = Tail(toClient)
  PROVE  Replied' = Replied
<1>1. PICK h \in Replies, t \in Seq(Replies) : h = Head(toClient) /\ t = Tail(toClient)
  BY HeadTailProperties
<1>2. PICK u \in Seq(Replies) : u = <<h>> /\ Len(u) = 1 /\ u[1] = h
  <2>1. <<h>> \in Seq(Replies) /\ Len(<<h>>) = 1 /\ <<h>>[1] = h
    BY <1>1
  <2> QED
    BY <2>1
<1>3. PICK n \in Nat : n = Len(t) /\ Len(toClient) = n + 1 /\ \A i \in 1 .. n : t[i] = toClient[i + 1]
  <2>1. Len(t) \in Nat /\ Len(toClient) \in Nat
    BY LenProperties
  <2>2. Len(t) = Len(toClient) - 1 /\ \A i \in 1 .. Len(t) : t[i] = toClient[i + 1]
    BY <1>1, HeadTailProperties
  <2> QED
    BY <2>1, <2>2
<1>4. PICK v \in Seq(Replies) : v = u \o t
  BY ConcatProperties
<1>5. /\ Len(v) = n + 1
      /\ \A i \in 1 .. n + 1 : v[i] = IF i <= 1 THEN u[i] ELSE t[i - 1]
  <2>1. Len(u \o t) = 1 + n /\ \A i \in 1 .. 1 + n : (u \o t)[i] = IF i <= 1 THEN u[i] ELSE t[i - 1]
    BY <1>2, <1>3, ConcatProperties
  <2> QED
    BY <1>4, <2>1
<1>6. toClient[1] = h
  BY <1>1
<1>7. ASSUME NEW i \in 1 .. n + 1 PROVE v[i] = toClient[i]
  <2>1. CASE i = 1
    BY <1>2, <1>5, <1>6, <2>1
  <2>2. CASE i # 1
    <3>1. i - 1 \in 1 .. n /\ (i - 1) + 1 = i
      BY <2>2
    <3>2. v[i] = t[i - 1]
      BY <1>5, <2>2
    <3> QED
      BY <1>3, <3>1, <3>2
  <2> QED
    BY <2>1, <2>2
<1>8. v = toClient
  BY <1>3, <1>5, <1>7, SeqEqual
<1>9. answers' = answers \o u
  BY <1>1, <1>2, AppendIsConcat
<1>10. answers' \o t = answers \o v
  <2>1. (answers \o u) \o t = answers \o (u \o t)
    <3>1. PICK S : S = Replies /\ answers \in Seq(S) /\ u \in Seq(S) /\ t \in Seq(S)
      OBVIOUS
    <3> QED
      BY <3>1, JoinsAssociate, SMTT(60)
  <2> QED
    BY <1>4, <1>9, <2>1
<1> QED
  BY <1>1, <1>8, <1>10 DEF Replied

(* The write. *)
LEMMA RepliedByWrite ==
  ASSUME answers \in Seq(Replies), toClient \in Seq(Replies), NEW e \in Replies,
         answers' = answers, toClient' = Append(toClient, e)
  PROVE  Replied' = Append(Replied, e) /\ Replied \in Seq(Replies)
  BY AppendProperties, ConcatProperties, ConcatAssociative DEF Replied

(* What the message at hand and the line at hand add to the names.         *)
LEMMA AtHandIds ==
  ASSUME TypeOK
  PROVE  /\ cpc \in {"read", "ended"} => {msg.id} \ {0} = {}
         /\ cpc \notin {"read", "ended"} => msg \in Messages /\ msg.id \in Ids /\ msg.id # 0
         /\ NoMsg.id = 0 /\ NoLine.id = 0
<1>1. NoMsg.id = 0 /\ NoLine.id = 0
  BY DEF NoMsg, NoLine, Answer
<1>2. cpc \notin {"read", "ended"} => msg \in Messages /\ msg.id \in Ids
  BY MessageFacts DEF TypeOK
<1>3. 0 \notin Ids
  BY DEF Ids
<1>4. cpc \in {"read", "ended"} => msg = NoMsg
  BY DEF TypeOK
<1> QED
  BY <1>1, <1>2, <1>3, <1>4

(* The client sends a message under a name nothing bears yet.              *)
LEMMA SendKeepsOnce ==
  ASSUME TypeOK, OnceInv, ClientSends
  PROVE  OnceInv'
<1> USE DEF client, c2s, s2c, telemetry
<1>1. PICK m \in MessagesOf(Len(sent) + 1) : sent' = Append(sent, m) /\ toGw' = Append(toGw, m)
  BY DEF ClientSends
<1>2. Len(sent) \in Nat /\ Len(sent) + 1 \in Ids /\ sent \in Seq(Messages)
  BY GatewayAssumption, LenProperties DEF ClientSends, TypeOK, Ids
<1>3. PICK id : id = Len(sent) + 1
  OBVIOUS
<1>4. m \in Messages /\ m.id = id
  BY <1>2, <1>3, MessageFacts
<1>5. DOMAIN sent' = DOMAIN sent \cup {id} /\ id \notin DOMAIN sent
  BY <1>1, <1>2, <1>3, <1>4, AppendProperties, LenProperties
<1>6. toGw \in Seq(Messages)
  BY DEF TypeOK
<1>7. id \notin IdsOf(toGw)
  BY <1>5 DEF OnceInv, AllSent
<1>8. IdsOf(toGw') = IdsOf(toGw) \cup {id} /\ Distinct(toGw')
  BY <1>1, <1>4, <1>6, <1>7, AppendIds DEF OnceInv, NamedOnce
<1>9. UNCHANGED <<toSrv, fromSrv, toClient, answers, msg, line>>
  BY DEF ClientSends
<1>10. UNCHANGED <<{msg.id} \ {0}, IdsOf(toSrv), IdsOf(fromSrv) \ {0}, {line.id} \ {0}, IdsOf(Replied)>>
  BY <1>9 DEF IdsOf, Replied
<1>11. ApartNow'
  <2>1. id \notin ({msg.id} \ {0}) \cup IdsOf(toSrv) \cup (IdsOf(fromSrv) \ {0}) \cup ({line.id} \ {0}) \cup IdsOf(Replied)
    BY <1>5 DEF OnceInv, AllSent
  <2>2. Apart(IdsOf(toGw) \cup {id}, {msg.id} \ {0}, IdsOf(toSrv), IdsOf(fromSrv) \ {0}, {line.id} \ {0}, IdsOf(Replied))
    BY <2>1 DEF OnceInv, ApartNow, Apart
  <2> QED
    BY <1>8, <1>10, <2>2 DEF ApartNow
<1>12. AllSent'
  BY <1>5, <1>8, <1>10 DEF OnceInv, AllSent
<1>13. NamedOnce' /\ OnlyReplies'
  BY <1>8, <1>9 DEF OnceInv, NamedOnce, Distinct, Replied, OnlyReplies, Replies, Lines
<1> QED
  BY <1>11, <1>12, <1>13 DEF OnceInv

(* The client's goroutine moves a name from its pipe to itself, and from   *)
(* there to the server or, when it refuses, back to the client.            *)
LEMMA GateKeepsOnce ==
  ASSUME TypeOK, OnceInv, ProxyClientToServer
  PROVE  OnceInv'
<1> USE DEF client, c2s, s2c, telemetry
<1>1. UNCHANGED <<sent, fromSrv, answers, line>>
  BY DEF ProxyClientToServer, C2SRead, C2SEof, OnToolsCall, Refuse, HostBridge, Forward
<1>2. UNCHANGED <<Replies, IdsOf(fromSrv) \ {0}, {line.id} \ {0}, Distinct(fromSrv)>>
  BY <1>1 DEF Replies, Lines, IdsOf, Distinct
<1>3. CASE UNCHANGED <<toGw, toSrv, toClient>> /\ {msg'.id} \ {0} \subseteq {msg.id} \ {0}
  <2>1. UNCHANGED <<IdsOf(toGw), IdsOf(toSrv), IdsOf(Replied), Distinct(toGw), Distinct(toSrv), Distinct(Replied)>>
    BY <1>1, <1>3 DEF IdsOf, Distinct, Replied
  <2>2. ApartNow'
    BY <1>2, <1>3, <2>1 DEF OnceInv, ApartNow, Apart
  <2>3. AllSent'
    BY <1>1, <1>2, <1>3, <2>1 DEF OnceInv, AllSent
  <2>4. NamedOnce' /\ OnlyReplies'
    BY <1>1, <1>2, <1>3, <2>1 DEF OnceInv, NamedOnce, OnlyReplies
  <2> QED
    BY <2>2, <2>3, <2>4 DEF OnceInv
<1>4. CASE C2SEof \/ OnToolsCall \/ HostBridge
  <2>1. {msg'.id} \ {0} \subseteq {msg.id} \ {0}
    BY <1>4, AtHandIds DEF C2SEof, Ends, OnToolsCall, HostBridge
  <2> QED
    BY <1>3, <1>4, <2>1 DEF C2SEof, OnToolsCall, HostBridge
<1>5. CASE C2SRead
  <2>1. PICK id : id = Head(toGw).id
    OBVIOUS
  <2>2. Head(toGw) \in Messages /\ id # 0
    BY <1>5, <2>1, HeadTailProperties, MessageFacts DEF C2SRead, TypeOK, Ids
  <2>3. toGw' = Tail(toGw) /\ toGw # << >> /\ UNCHANGED <<toSrv, toClient>> /\ {msg.id} \ {0} = {}
    BY <1>5, AtHandIds DEF C2SRead
  <2>4. toGw \in Seq(Messages) /\ Distinct(toGw)
    BY DEF TypeOK, OnceInv, NamedOnce
  <2>5. IdsOf(toGw') \subseteq IdsOf(toGw) /\ id \in IdsOf(toGw) /\ id \notin IdsOf(toGw') /\ Distinct(toGw')
    BY <2>1, <2>2, <2>3, <2>4, TailIds
  <2>6. {msg'.id} \ {0} \subseteq {id}
    BY <1>5, <2>1, AtHandIds DEF C2SRead, Ends
  <2>7. UNCHANGED <<IdsOf(toSrv), IdsOf(Replied), Distinct(toSrv), Distinct(Replied)>>
    BY <1>1, <2>3 DEF IdsOf, Distinct, Replied
  <2>8. ApartNow'
    BY <1>2, <2>5, <2>6, <2>7 DEF OnceInv, ApartNow, Apart
  <2>9. AllSent'
    BY <1>1, <1>2, <2>5, <2>6, <2>7 DEF OnceInv, AllSent
  <2>10. NamedOnce' /\ OnlyReplies'
    BY <1>1, <1>2, <2>3, <2>5, <2>7 DEF OnceInv, NamedOnce, OnlyReplies
  <2> QED
    BY <2>8, <2>9, <2>10 DEF OnceInv
<1>6. CASE Refuse
  <2>1. PICK id : id = msg.id
    OBVIOUS
  <2>2. id \in Ids /\ id # 0
    BY <1>6, <2>1, AtHandIds DEF Refuse
  <2>3. PICK e : e = Answer(id, "gateway")
    OBVIOUS
  <2>4. e \in Replies /\ e.id = id
    BY <2>2, <2>3, LineFacts DEF Replies, Answer
  <2>5. UNCHANGED <<toGw, toSrv>> /\ toClient' = Append(toClient, e) /\ {msg'.id} \ {0} = {}
    BY <1>6, <2>1, <2>3, AtHandIds DEF Refuse
  <2>6. answers \in Seq(Replies) /\ toClient \in Seq(Replies)
    BY DEF OnceInv, OnlyReplies
  <2>7. Replied' = Append(Replied, e) /\ Replied \in Seq(Replies)
    BY <1>1, <2>4, <2>5, <2>6, RepliedByWrite
  <2>8. id \notin IdsOf(Replied) /\ Distinct(Replied)
    BY <2>1, <2>2 DEF OnceInv, ApartNow, Apart, NamedOnce
  <2>9. IdsOf(Replied') = IdsOf(Replied) \cup {id} /\ Distinct(Replied')
    BY <2>4, <2>7, <2>8, AppendIds
  <2>10. UNCHANGED <<IdsOf(toGw), IdsOf(toSrv), Distinct(toGw), Distinct(toSrv)>>
    BY <2>5 DEF IdsOf, Distinct
  <2>11. id \in {msg.id} \ {0}
    BY <2>1, <2>2
  <2>12. ApartNow'
    BY <1>2, <2>5, <2>9, <2>10, <2>11 DEF OnceInv, ApartNow, Apart
  <2>13. AllSent'
    BY <1>1, <1>2, <2>5, <2>9, <2>10, <2>11 DEF OnceInv, AllSent
  <2>14. OnlyReplies'
    BY <1>1, <1>2, <2>4, <2>5, <2>6, AppendProperties DEF OnceInv, OnlyReplies
  <2>15. NamedOnce'
    BY <1>2, <2>9, <2>10 DEF OnceInv, NamedOnce
  <2> QED
    BY <2>12, <2>13, <2>14, <2>15 DEF OnceInv
<1>7. CASE Forward
  <2>1. PICK id : id = msg.id
    OBVIOUS
  <2>2. msg \in Messages /\ id # 0
    BY <1>7, <2>1, AtHandIds DEF Forward
  <2>3. UNCHANGED <<toGw, toClient>> /\ {msg'.id} \ {0} = {}
    BY <1>7, AtHandIds DEF Forward, Ends
  <2>4. CASE UNCHANGED toSrv
    BY <1>3, <2>3, <2>4
  <2>5. CASE toSrv' = Append(toSrv, msg)
    <3>1. id \notin IdsOf(toSrv) /\ Distinct(toSrv) /\ toSrv \in Seq(Messages)
      BY <2>1, <2>2 DEF OnceInv, ApartNow, Apart, NamedOnce, TypeOK
    <3>2. IdsOf(toSrv') = IdsOf(toSrv) \cup {id} /\ Distinct(toSrv')
      BY <2>1, <2>2, <2>5, <3>1, AppendIds
    <3>3. UNCHANGED <<IdsOf(toGw), IdsOf(Replied), Distinct(toGw), Distinct(Replied)>>
      BY <1>1, <2>3 DEF IdsOf, Distinct, Replied
    <3>4. id \in {msg.id} \ {0}
      BY <2>1, <2>2
    <3>5. ApartNow'
      BY <1>2, <2>3, <3>2, <3>3, <3>4 DEF OnceInv, ApartNow, Apart
    <3>6. AllSent'
      BY <1>1, <1>2, <2>3, <3>2, <3>3, <3>4 DEF OnceInv, AllSent
    <3>7. NamedOnce' /\ OnlyReplies'
      BY <1>1, <1>2, <2>3, <3>2, <3>3 DEF OnceInv, NamedOnce, OnlyReplies
    <3> QED
      BY <3>5, <3>6, <3>7 DEF OnceInv
  <2> QED
    BY <1>7, <2>4, <2>5 DEF Forward
<1> QED
  BY <1>4, <1>5, <1>6, <1>7 DEF ProxyClientToServer

(* The others: the server turns a request's name into its answer's, and    *)
(* the other goroutine moves that to the client, who keeps it.             *)
LEMMA OthersKeepOnce ==
  ASSUME TypeOK, OnceInv,
         \/ ClientCloses \/ ClientReads \/ ServerReads \/ ServerGarbles \/ ServerEnds
         \/ ProxyServerToClient \/ Cancel \/ Run \/ UNCHANGED vars
  PROVE  OnceInv'
<1> USE DEF client, c2s, s2c, telemetry
<1>1. UNCHANGED <<sent, cpc, msg, toGw>>
  BY DEF ClientCloses, ClientReads, ServerReads, ServerGarbles, ServerEnds, ProxyServerToClient, S2CRead,
         S2CWrite, S2CEof, Cancel, Run, RunCancelled, RunDone, vars
<1>2. UNCHANGED <<Replies, IdsOf(toGw), {msg.id} \ {0}, Distinct(toGw)>>
  BY <1>1 DEF Replies, Lines, IdsOf, Distinct
<1>3. CASE UNCHANGED <<toSrv, fromSrv, toClient, answers, line>>
  <2>1. UNCHANGED <<IdsOf(toSrv), IdsOf(fromSrv), IdsOf(Replied), Distinct(toSrv), Distinct(fromSrv), Distinct(Replied)>>
    BY <1>3 DEF IdsOf, Distinct, Replied
  <2>2. ApartNow' /\ AllSent'
    BY <1>1, <1>2, <1>3, <2>1 DEF OnceInv, ApartNow, AllSent
  <2> QED
    BY <1>2, <1>3, <2>1, <2>2 DEF OnceInv, NamedOnce, OnlyReplies
<1>4. CASE ClientReads
  <2>1. UNCHANGED <<toSrv, fromSrv, line>> /\ toClient # << >>
        /\ answers' = Append(answers, Head(toClient)) /\ toClient' = Tail(toClient)
    BY <1>4 DEF ClientReads
  <2>2. answers \in Seq(Replies) /\ toClient \in Seq(Replies)
    BY DEF OnceInv, OnlyReplies
  <2>3. Replied' = Replied
    BY <2>1, <2>2, RepliedByRead
  <2>4. UNCHANGED <<IdsOf(toSrv), IdsOf(fromSrv), IdsOf(Replied), Distinct(toSrv), Distinct(fromSrv), Distinct(Replied)>>
    BY <2>1, <2>3 DEF IdsOf, Distinct
  <2>5. ApartNow' /\ AllSent'
    BY <1>1, <1>2, <2>1, <2>4 DEF OnceInv, ApartNow, AllSent
  <2>6. Head(toClient) \in Replies /\ Tail(toClient) \in Seq(Replies)
    BY <2>1, <2>2, HeadTailProperties
  <2>7. OnlyReplies'
    BY <1>2, <2>1, <2>2, <2>6, AppendProperties DEF OnceInv, OnlyReplies
  <2> QED
    BY <1>2, <2>4, <2>5, <2>7 DEF OnceInv, NamedOnce
<1>5. CASE ServerReads
  <2>1. PICK id : id = Head(toSrv).id
    OBVIOUS
  <2>2. toSrv # << >> /\ toSrv' = Tail(toSrv) /\ UNCHANGED <<toClient, answers, line>>
    BY <1>5 DEF ServerReads
  <2>3. toSrv \in Seq(Messages) /\ Distinct(toSrv) /\ fromSrv \in Seq(Lines) /\ Distinct(fromSrv)
    BY DEF TypeOK, OnceInv, NamedOnce
  <2>4. id \in Ids /\ id # 0
    BY <2>1, <2>2, <2>3, HeadTailProperties, MessageFacts DEF Ids
  <2>5. IdsOf(toSrv') \subseteq IdsOf(toSrv) /\ id \in IdsOf(toSrv) /\ id \notin IdsOf(toSrv') /\ Distinct(toSrv')
    BY <2>1, <2>2, <2>3, <2>4, TailIds
  <2>6. IdsOf(fromSrv') \subseteq IdsOf(fromSrv) \cup {id} /\ Distinct(fromSrv')
    <3>1. CASE UNCHANGED fromSrv
      BY <2>3, <3>1 DEF IdsOf, Distinct
    <3>2. CASE fromSrv' = Append(fromSrv, Answer(id, "server"))
      <4>1. PICK e : e = Answer(id, "server")
        OBVIOUS
      <4>2. e \in Lines /\ e.id = id
        BY <2>4, <4>1, LineFacts DEF Answer
      <4>3. id \notin IdsOf(fromSrv) \ {0}
        BY <2>5 DEF OnceInv, ApartNow, Apart
      <4> QED
        BY <2>3, <3>2, <4>1, <4>2, <4>3, AppendIds
    <3> QED
      BY <1>5, <2>1, <3>1, <3>2 DEF ServerReads
  <2>7. UNCHANGED <<IdsOf(Replied), Distinct(Replied), {line.id} \ {0}>>
    BY <2>2 DEF IdsOf, Distinct, Replied
  <2>8. ApartNow'
    BY <1>2, <2>5, <2>6, <2>7 DEF OnceInv, ApartNow, Apart
  <2>9. AllSent'
    BY <1>1, <1>2, <2>5, <2>6, <2>7 DEF OnceInv, AllSent
  <2>10. NamedOnce' /\ OnlyReplies'
    BY <1>2, <2>2, <2>5, <2>6, <2>7 DEF OnceInv, NamedOnce, OnlyReplies
  <2> QED
    BY <2>8, <2>9, <2>10 DEF OnceInv
<1>6. CASE ServerGarbles
  <2>1. PICK e : e = Answer(0, "bad")
    OBVIOUS
  <2>2. e \in Lines /\ e.id = 0
    BY <2>1, LineFacts DEF Answer
  <2>3. fromSrv' = Append(fromSrv, e) /\ UNCHANGED <<toSrv, toClient, answers, line>>
    BY <1>6, <2>1 DEF ServerGarbles
  <2>4. fromSrv \in Seq(Lines) /\ Distinct(fromSrv)
    BY DEF TypeOK, OnceInv, NamedOnce
  <2>5. IdsOf(fromSrv') = IdsOf(fromSrv) \cup {0} /\ Distinct(fromSrv')
    BY <2>2, <2>3, <2>4, AppendIds
  <2>6. IdsOf(fromSrv') \ {0} = IdsOf(fromSrv) \ {0}
    BY <2>5
  <2>7. UNCHANGED <<IdsOf(toSrv), IdsOf(Replied), Distinct(toSrv), Distinct(Replied)>>
    BY <2>3 DEF IdsOf, Distinct, Replied
  <2>8. ApartNow' /\ AllSent'
    BY <1>1, <1>2, <2>3, <2>6, <2>7 DEF OnceInv, ApartNow, AllSent
  <2> QED
    BY <1>2, <2>3, <2>5, <2>7, <2>8 DEF OnceInv, NamedOnce, OnlyReplies
<1>7. CASE S2CRead
  <2>1. PICK h : h = Head(fromSrv)
    OBVIOUS
  <2>2. fromSrv # << >> /\ fromSrv' = Tail(fromSrv) /\ UNCHANGED <<toSrv, toClient, answers>>
    BY <1>7 DEF S2CRead
  <2>3. fromSrv \in Seq(Lines) /\ Distinct(fromSrv)
    BY DEF TypeOK, OnceInv, NamedOnce
  <2>4. h \in Lines
    BY <2>1, <2>2, <2>3, HeadTailProperties
  <2>5. /\ IdsOf(fromSrv') \subseteq IdsOf(fromSrv) /\ h.id \in IdsOf(fromSrv)
        /\ h.id # 0 => h.id \notin IdsOf(fromSrv')
        /\ Distinct(fromSrv')
    BY <2>1, <2>2, <2>3, TailIds
  <2>6. UNCHANGED <<IdsOf(toSrv), IdsOf(Replied), Distinct(toSrv), Distinct(Replied)>>
    BY <2>2 DEF IdsOf, Distinct, Replied
  <2>7. line' = line \/ (line' = h /\ h \in Replies)
    <3>1. h.by = "bad" \/ h.id \in Ids
      BY <2>4 DEF Lines, Answer
    <3>2. h.id \in Ids => h \in Replies
      BY <2>4 DEF Replies, Ids
    <3> QED
      BY <1>7, <2>1, <3>1, <3>2 DEF S2CRead
  <2>8. CASE line' = line
    <3>1. ApartNow'
      BY <1>2, <2>5, <2>6, <2>8 DEF OnceInv, ApartNow, Apart
    <3>2. AllSent'
      BY <1>1, <1>2, <2>5, <2>6, <2>8 DEF OnceInv, AllSent
    <3> QED
      BY <1>2, <2>2, <2>5, <2>6, <2>8, <3>1, <3>2 DEF OnceInv, NamedOnce, OnlyReplies
  <2>9. CASE line' = h /\ h \in Replies
    <3>1. ApartNow'
      BY <1>2, <2>5, <2>6, <2>9 DEF OnceInv, ApartNow, Apart
    <3>2. AllSent'
      BY <1>1, <1>2, <2>5, <2>6, <2>9 DEF OnceInv, AllSent
    <3>3. OnlyReplies'
      BY <1>2, <2>2, <2>9 DEF OnceInv, OnlyReplies
    <3> QED
      BY <1>2, <2>5, <2>6, <3>1, <3>2, <3>3 DEF OnceInv, NamedOnce
  <2> QED
    BY <2>7, <2>8, <2>9
<1>8. CASE S2CWrite
  <2>1. line \in Replies
    BY <1>8 DEF S2CWrite, TypeOK, OnceInv, OnlyReplies
  <2>2. PICK id : id = line.id
    OBVIOUS
  <2>3. UNCHANGED <<toSrv, fromSrv, answers>> /\ toClient' = Append(toClient, line) /\ line' = NoLine
    BY <1>8 DEF S2CWrite
  <2>4. id # 0 /\ {line'.id} \ {0} = {} /\ id \in {line.id} \ {0}
    BY <2>1, <2>2, <2>3, AtHandIds DEF Replies
  <2>5. answers \in Seq(Replies) /\ toClient \in Seq(Replies)
    BY DEF OnceInv, OnlyReplies
  <2>6. Replied' = Append(Replied, line) /\ Replied \in Seq(Replies)
    BY <2>1, <2>3, <2>5, RepliedByWrite
  <2>7. id \notin IdsOf(Replied) /\ Distinct(Replied)
    BY <2>4 DEF OnceInv, ApartNow, Apart, NamedOnce
  <2>8. IdsOf(Replied') = IdsOf(Replied) \cup {id} /\ Distinct(Replied')
    BY <2>1, <2>2, <2>6, <2>7, AppendIds
  <2>9. UNCHANGED <<IdsOf(toSrv), IdsOf(fromSrv), Distinct(toSrv), Distinct(fromSrv)>>
    BY <2>3 DEF IdsOf, Distinct
  <2>10. ApartNow'
    BY <1>2, <2>4, <2>8, <2>9 DEF OnceInv, ApartNow, Apart
  <2>11. AllSent'
    BY <1>1, <1>2, <2>4, <2>8, <2>9 DEF OnceInv, AllSent
  <2>12. OnlyReplies'
    BY <1>2, <2>1, <2>3, <2>5, AppendProperties DEF OnlyReplies
  <2> QED
    BY <1>2, <2>8, <2>9, <2>10, <2>11, <2>12 DEF OnceInv, NamedOnce
<1> QED
  BY <1>3, <1>4, <1>5, <1>6, <1>7, <1>8
  DEF ClientCloses, ServerEnds, ProxyServerToClient, S2CEof, Cancel, Run, RunCancelled, RunDone, vars

(* Every step keeps it. *)
LEMMA OnceStep == TypeOK /\ OnceInv /\ [Next]_vars => OnceInv'
BY SendKeepsOnce, GateKeepsOnce, OthersKeepOnce DEF Next

(* It holds at the start, where nothing has been sent. *)
LEMMA InitOnce == Init => OnceInv
<1> SUFFICES ASSUME Init PROVE OnceInv
  OBVIOUS
<1>1. << >> \in Seq(Replies)
  BY EmptySeq
<1>2. << >> \o << >> = << >>
  BY <1>1, ConcatEmptySeq
<1>3. DOMAIN << >> = {}
  OBVIOUS
<1>4. IdsOf(<< >>) = {} /\ Distinct(<< >>)
  BY <1>3 DEF IdsOf, Distinct
<1>5. Replied = << >> /\ {msg.id} \ {0} = {} /\ {line.id} \ {0} = {}
  BY <1>2 DEF Init, Replied, NoMsg, NoLine, Answer
<1> QED
  BY <1>1, <1>4, <1>5 DEF Init, OnceInv, ApartNow, Apart, AllSent, NamedOnce, OnlyReplies

(* It says of the client's answers, read and waiting, what the property    *)
(* asks.                                                                   *)
LEMMA OnceCovers == OnceInv => AnsweredOnce
<1> SUFFICES ASSUME OnceInv PROVE AnsweredOnce
  OBVIOUS
<1>1. Replied \in Seq(Replies) /\ Distinct(Replied)
  BY ConcatProperties DEF OnceInv, OnlyReplies, NamedOnce, Replied
<1>2. \A i \in DOMAIN Replied : Replied[i].id # 0
  BY <1>1, ElementOfSeq, LenProperties DEF Replies
<1> QED
  BY <1>1, <1>2 DEF AnsweredOnce, Distinct, Replied

(* No request is answered twice, for any policy and any interleaving of    *)
(* the two directions: what the gateway refuses it does not forward, and   *)
(* what it forwards only the server answers (gateway.go:112-208).          *)
THEOREM RequestsAreAnsweredOnce == Spec => []AnsweredOnce
  BY InitTypes, TypeStep, InitOnce, OnceStep, OnceCovers, PTL DEF Spec

------------------------------------------------------------------------------
LEMMA InjectTypeInit == InjectInit => InjectTypeOK
BY InjectAssumption DEF InjectInit, InjectTypeOK, Nothing

(* What the entry in hand can be. *)
LEMMA InHand ==
  ASSUME InjectTypeOK
  PROVE  /\ pc \in {"read", "enqueued"} => \E f \in Files : current = {f}
         /\ pc \notin {"read", "enqueued"} => current = Nothing
BY DEF InjectTypeOK

LEMMA InjectTypeStep == InjectTypeOK /\ [InjectNext]_injectVars => InjectTypeOK'
<1> SUFFICES ASSUME InjectTypeOK, [InjectNext]_injectVars PROVE InjectTypeOK'
  OBVIOUS
<1>a. MaxTurns \in Nat /\ MaxCrashes \in Nat /\ MaxFailures \in Nat /\ Turn \notin Events
  BY InjectAssumption
<1>1. ASSUME NEW e \in Events, WriteTmp(e) PROVE InjectTypeOK'
  BY <1>1 DEF WriteTmp, InjectTypeOK, agent
<1>2. ASSUME NEW e \in Events, Rename(e) PROVE InjectTypeOK'
  BY <1>a, <1>2 DEF Rename, InjectTypeOK, agent, Files
<1>3. ASSUME NEW e \in Events, WriterEnds(e) PROVE InjectTypeOK'
  BY <1>a, <1>3 DEF WriterEnds, InjectTypeOK, agent
<1>4. CASE WriteTurn
  BY <1>a, <1>4 DEF WriteTurn, InjectTypeOK, agent, Files
<1>5. CASE Start
  BY <1>5 DEF Start, InjectTypeOK
<1>6. CASE ReadDir
  BY <1>6 DEF ReadDir, InjectTypeOK
<1>7. CASE ReadFile
  <2>1. PICK f \in entries :
          /\ entries' = entries \ {f}
          /\ IF f \in dir THEN pc' = "read" /\ current' = {f} ELSE UNCHANGED <<pc, current>>
    BY <1>7 DEF ReadFile
  <2>2. f \in Files /\ {f} # Nothing
    BY <2>1 DEF InjectTypeOK, Nothing
  <2>3. CASE f \in dir
    BY <1>7, <2>1, <2>2, <2>3 DEF ReadFile, InjectTypeOK
  <2>4. CASE f \notin dir
    BY <1>7, <2>1, <2>4 DEF ReadFile, InjectTypeOK
  <2> QED
    BY <2>3, <2>4
<1>8. CASE DrainEnds
  BY <1>8 DEF DrainEnds, InjectTypeOK
<1>9. CASE Enqueue
  <2>1. enqueued' \in [Events -> Nat]
    <3>1. \A e \in Events : enqueued[e] \in Nat /\ enqueued[e] + 1 \in Nat
      BY DEF InjectTypeOK
    <3> QED
      BY <1>9, <3>1 DEF Enqueue
  <2> QED
    BY <1>9, <2>1 DEF Enqueue, InjectTypeOK
<1>10. CASE RemoveFile
  <2>1. failures' \in 0 .. MaxFailures
    BY <1>a, <1>10 DEF RemoveFile, InjectTypeOK
  <2>2. dir' \subseteq Files /\ turnFile' \in 0 .. turn /\ (turnFile' # 0 <=> Turn \in dir')
    BY <1>10 DEF RemoveFile, InjectTypeOK
  <2> QED
    BY <1>10, <2>1, <2>2 DEF RemoveFile, InjectTypeOK
<1>11. CASE AgentEnds
  BY <1>a, <1>11 DEF AgentEnds, InjectTypeOK, Nothing
<1>12. CASE UNCHANGED injectVars
  BY <1>12 DEF injectVars, agent, InjectTypeOK
<1> QED
  BY <1>1, <1>2, <1>3, <1>4, <1>5, <1>6, <1>7, <1>8, <1>9, <1>10, <1>11, <1>12 DEF InjectNext, Agent

(* The types hold in every behaviour. *)
THEOREM InjectTypeCorrect == InjectSpec => []InjectTypeOK
BY InjectTypeInit, InjectTypeStep, PTL DEF InjectSpec

(* NeverLost is not inductive: when the file is removed, its event must    *)
(* have been queued by the step before.                                    *)
QueuedFirst ==
  \A e \in Events \ Unsupported : (pc = "enqueued" /\ e \in current) => enqueued[e] > 0
DropInv == InjectTypeOK /\ NeverLost /\ QueuedFirst

LEMMA DropInit == InjectInit => DropInv
BY InjectTypeInit DEF DropInv, InjectInit, NeverLost, QueuedFirst

LEMMA DropStep == DropInv /\ [InjectNext]_injectVars => DropInv'
<1> SUFFICES ASSUME DropInv, [InjectNext]_injectVars PROVE DropInv'
  OBVIOUS
<1>t. InjectTypeOK /\ InjectTypeOK'
  BY InjectTypeStep DEF DropInv
<1>1. ASSUME NEW e \in Events, WriteTmp(e) \/ Rename(e) \/ WriterEnds(e) PROVE DropInv'
  <2>1. UNCHANGED <<pc, current, enqueued>>
    BY <1>1 DEF WriteTmp, Rename, WriterEnds, agent
  <2>2. \A d \in Events : written'[d] = "done" => written[d] = "done" \/ (d = e /\ e \in dir')
    BY <1>t, <1>1 DEF WriteTmp, Rename, WriterEnds, InjectTypeOK
  <2>3. dir \subseteq dir'
    BY <1>1 DEF WriteTmp, Rename, WriterEnds
  <2>4. NeverLost'
    BY <2>1, <2>2, <2>3 DEF DropInv, NeverLost
  <2>5. QueuedFirst'
    BY <2>1 DEF DropInv, QueuedFirst
  <2> QED
    BY <1>t, <2>4, <2>5 DEF DropInv
<1>2. CASE WriteTurn
  BY <1>t, <1>2 DEF WriteTurn, DropInv, NeverLost, QueuedFirst, agent
<1>3. CASE Start \/ ReadDir \/ ReadFile \/ DrainEnds \/ AgentEnds
  <2>1. UNCHANGED <<written, dir, enqueued>>
    BY <1>3 DEF Start, ReadDir, ReadFile, DrainEnds, AgentEnds
  <2>2. pc' # "enqueued"
    BY <1>3 DEF Start, ReadDir, ReadFile, DrainEnds, AgentEnds
  <2> QED
    BY <1>t, <2>1, <2>2 DEF DropInv, NeverLost, QueuedFirst
<1>4. CASE Enqueue
  <2>1. PICK f \in Files : current = {f}
    BY <1>t, <1>4, InHand DEF Enqueue
  <2>2. \A e \in Events : enqueued[e] \in Nat
    BY <1>t DEF InjectTypeOK
  <2>3. \A e \in Events :
          enqueued'[e] = IF current = {e} /\ Deliverable(e) THEN enqueued[e] + 1 ELSE enqueued[e]
    BY <1>4 DEF Enqueue
  <2>4. \A e \in Events : enqueued[e] > 0 => enqueued'[e] > 0
    BY <2>2, <2>3
  <2>5. \A e \in Events \ Unsupported : e \in current => enqueued'[e] > 0
    <3> TAKE e \in Events \ Unsupported
    <3> HAVE e \in current
    <3>1. current = {e} /\ Deliverable(e)
      BY <2>1 DEF Deliverable
    <3>2. enqueued'[e] = enqueued[e] + 1 /\ enqueued[e] \in Nat
      BY <2>2, <2>3, <3>1
    <3> QED
      BY <3>2
  <2>6. UNCHANGED <<written, dir, current>>
    BY <1>4 DEF Enqueue
  <2> QED
    BY <1>t, <2>4, <2>5, <2>6 DEF DropInv, NeverLost, QueuedFirst
<1>5. CASE RemoveFile
  <2>1. pc = "enqueued" /\ pc' = "drain" /\ UNCHANGED <<written, enqueued>>
    BY <1>5 DEF RemoveFile
  <2>2. \A e \in dir : e \in dir' \/ e \in current
    BY <1>5 DEF RemoveFile
  <2> QED
    BY <1>t, <2>1, <2>2 DEF DropInv, NeverLost, QueuedFirst
<1>6. CASE UNCHANGED injectVars
  BY <1>t, <1>6 DEF injectVars, agent, DropInv, NeverLost, QueuedFirst
<1> QED
  BY <1>1, <1>2, <1>3, <1>4, <1>5, <1>6 DEF InjectNext, Agent

(* No event that was renamed into the directory is lost, wherever the      *)
(* agent or a writer ends and whichever removal fails, for any number of   *)
(* events, crashes and failures.                                           *)
THEOREM NothingIsLost == InjectSpec => []NeverLost
<1>1. DropInv => NeverLost
  BY DEF DropInv
<1> QED
  BY <1>1, DropInit, DropStep, PTL DEF InjectSpec
=============================================================================
