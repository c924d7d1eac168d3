---------------------------- MODULE NetworkState ----------------------------
(* What the network monitor reads of the host and how it compares two      *)
(* readings (internal/collect/network: network.go, network_state.go).  A   *)
(* host is a record: the interfaces in the order of the system, the public *)
(* address, and netstat's lines.  The name of an interface says its kind.  *)
EXTENDS Naturals, Sequences, SequencesExt

TopPorts == 5   \* network.go: list[:5]

(* An interface counts when it is up, is not the loopback, has an address. *)
Usable(f) == f.up /\ ~f.loopback /\ f.addrs # {}

UsableIfaces(h) == SelectSeq(h.ifaces, Usable)

(* linkFingerprint: names and addresses, both sorted before they are       *)
(* joined: the order of the system does not matter.                        *)
LinkFingerprint(h) == {<<f.name, f.addrs>> : f \in ToSet(UsableIfaces(h))}

(* net.Interfaces fails: the fingerprint of a host without interfaces.     *)
NoLink == {}

(* networkType: the first usable interface whose name tells its kind.      *)
NetworkType(h) ==
  LET known == SelectSeq(UsableIfaces(h), LAMBDA f : f.kind \in {"wifi", "ethernet"})
  IN IF known = << >> THEN "unknown" ELSE Head(known).kind

(* portStats: TCP and UDP lines by state.  An established socket counts    *)
(* for its remote port when that is one (remotePort gives 0 otherwise).    *)
Sockets(h, state) == SelectSeq(h.netstat, LAMBDA l : l.proto \in {"tcp", "udp"} /\ l.state = state)

Ports(h) == {l.port : l \in ToSet(Sockets(h, "established"))} \ {0}

PortCount(h, p) == Len(SelectSeq(Sockets(h, "established"), LAMBDA l : l.port = p))

TopRemotePorts(h) ==
  LET busier(p, q) == \/ PortCount(h, p) > PortCount(h, q)
                      \/ PortCount(h, p) = PortCount(h, q) /\ p < q
      ranked == SetToSortSeq(Ports(h), busier)
  IN [i \in 1 .. (IF Len(ranked) > TopPorts THEN TopPorts ELSE Len(ranked)) |->
        <<ranked[i], PortCount(h, ranked[i])>>]

(* summaryFingerprint of Summary: all of it but the foreground count,      *)
(* which is always 0.                                                      *)
SummaryFingerprint(h) ==
  [ip |-> h.ip, type |-> NetworkType(h), listen |-> Len(Sockets(h, "listen")),
   est |-> Len(Sockets(h, "established")), ports |-> TopRemotePorts(h)]

(* What Summary may see of h: the public address, the interfaces or        *)
(* netstat's output may each fail to be read, and is then empty.           *)
PartlyRead(h) ==
  {[h EXCEPT !.ip = ""], [h EXCEPT !.ifaces = << >>], [h EXCEPT !.netstat = << >>]}
=============================================================================
