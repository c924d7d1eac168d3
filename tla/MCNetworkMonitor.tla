-------------------------- MODULE MCNetworkMonitor --------------------------
(* A small instance of NetworkMonitor for TLC: home has another link and   *)
(* another summary than office; busy has home's link and more connections, *)
(* one of them without a remote port.                                      *)
EXTENDS NetworkMonitor

CONSTANTS c1, c2, office, home, busy

Iface(name, kind, addrs) ==
  [name |-> name, kind |-> kind, up |-> TRUE, loopback |-> FALSE, addrs |-> addrs]
Lo == [Iface("lo", "other", {"127.0.0.1"}) EXCEPT !.loopback = TRUE]
Line(state, port) == [proto |-> "tcp", state |-> state, port |-> port]

Office == [ifaces |-> <<Lo, Iface("tun0", "other", {"10.0.0.1"}), Iface("eth0", "ethernet", {"10.0.0.2"})>>,
           ip |-> "198.51.100.1", netstat |-> <<Line("listen", 0), Line("established", 443)>>]
Home == [Office EXCEPT !.ip = "198.51.100.2",
           !.ifaces = <<Lo, [Iface("eth0", "ethernet", {"10.0.0.2"}) EXCEPT !.up = FALSE],
                        Iface("wlan0", "wifi", {"192.168.0.2"})>>]
Busy == [Home EXCEPT !.netstat = @ \o <<Line("established", 22), Line("established", 0), Line("established", 22)>>]

MCReading == (office :> Office) @@ (home :> Home) @@ (busy :> Busy)

(* The agent starts at the office.                                         *)
MCInit == host = office /\ Init
MCSpec == MCInit /\ [][Next]_vars /\ Fairness
=============================================================================
