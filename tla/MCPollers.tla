----------------------------- MODULE MCPollers -----------------------------
(* Small instances for TLC of the connection monitor, the action tracker   *)
(* and the inject directory, which run side by side in loops of the agent. *)
EXTENDS ConnectionMonitor, ActionTracker, InjectDir

CONSTANTS e1, e2, e3

MCAddrKind == [a \in {"127.0.0.1", "10.0.0.7", "8.8.8.8"} |->
                 CASE a = "127.0.0.1" -> "loopback" [] a = "10.0.0.7" -> "private" [] OTHER -> "public"]

Endpoint(host, port) == [form |-> "colon", host |-> host, port |-> port]
Row(pid, port, remote) ==
  [pid |-> pid, comm |-> "sh", tcpLike |-> FALSE, state |-> "established",
   local |-> Endpoint("10.0.0.2", port), remote |-> remote]
MCRows ==
  {Row(1, 5001, Endpoint("8.8.8.8", 443)), [Row(1, 5001, Endpoint("8.8.8.8", 443)) EXCEPT !.comm = "curl"],
   Row(2, 5002, Endpoint("8.8.8.8", 53)), Row(2, 5003, [Endpoint("10.0.0.7", 8000) EXCEPT !.form = "dot"]),
   Row(0, 5004, Endpoint("8.8.8.8", 22)), Row(3, 5005, Endpoint("127.0.0.1", 80))}

MCApps == {[name |-> "Mail", bundle |-> "com.mail"], [name |-> "sh", bundle |-> ""]}

(* They share nothing: a behaviour is one of either.                       *)
Init == ConnectionInit /\ ActionInit /\ InjectInit
Next ==
  \/ ConnectionNext /\ UNCHANGED <<actionVars, injectVars>> /\ ActionInit /\ InjectInit
  \/ ActionNext /\ UNCHANGED <<connectionVars, injectVars>> /\ ConnectionInit /\ InjectInit
  \/ InjectNext /\ UNCHANGED <<connectionVars, actionVars>> /\ ConnectionInit /\ ActionInit
Spec ==
  /\ Init /\ [][Next]_<<connectionVars, actionVars, injectVars>>
  /\ WF_injectVars(Agent)   \* as in InjectFairSpec
=============================================================================
