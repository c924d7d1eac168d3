------------------------- MODULE ConnectionMonitor -------------------------
(* The monitor of established connections (internal/collect/network:       *)
(* connection_monitor.go, connections.go), polled by one loop of the       *)
(* agent: a poll lists the sockets, reports at most a number of new ones,  *)
(* each with the name of its remote address, and keeps the list.           *)
EXTENDS SocketTable, FiniteSets

CONSTANTS
  Systems,        \* the systems it may run on: "darwin", "linux", "windows"
  Rows,           \* the rows the system's tool can show
  Names,          \* what the resolver may answer for an address
  MaxPerPoll,     \* maxConnectionEventsPerPoll
  MaxMoves,       \* bound: sockets opened or closed
  MaxListFailures \* bound: lists that fail

ASSUME ConnectionAssumption ==
  MaxPerPoll \in Nat \ {0} /\ {MaxMoves, MaxListFailures} \subseteq Nat /\ "" \notin Names

VARIABLES
  os, live,            \* the system and the rows it shows now
  connSeen, connReady,
  cache,               \* hostnameCache: the name of an address, "" for none
  told,                \* the reports: a fingerprint, its address and the name given
  known,               \* fingerprints told or of the first list
  left, blank,         \* fingerprints closed since; a list was empty by a failure
  again,               \* a report of a fingerprint that was known and had not left
  connMoves, connFailures   \* counters of the bounds

connectionVars == <<os, live, connSeen, connReady, cache, told, known, left, blank, again,
                    connMoves, connFailures>>

ConnectionInit ==
  /\ os \in Systems /\ live = {}
  /\ connSeen = {} /\ connReady = FALSE /\ cache = << >>
  /\ told = {} /\ known = {} /\ left = {} /\ blank = FALSE /\ again = FALSE
  /\ connMoves = 0 /\ connFailures = 0

(* A socket opens or closes. *)
SocketsMove ==
  /\ connMoves < MaxMoves /\ connMoves' = connMoves + 1
  /\ \E r \in Rows :
       /\ live' = IF r \in live THEN live \ {r} ELSE live \cup {r}
       /\ left' = left \cup ({Fingerprint(c) : c \in Established(os, live)}
                               \ {Fingerprint(c) : c \in Established(os, live')})
  /\ UNCHANGED <<os, connSeen, connReady, cache, told, known, blank, again,
                 connFailures>>

-----------------------------------------------------------------------------
(* lookupRemoteHostname: what is in the cache, "" included, is never asked *)
(* again; the resolver answers with a name, or fails or times out.         *)
LookupBug(addrs) ==   \* no name is no answer, and asked for again
  {f \in [DOMAIN cache \cup addrs -> Names \cup {""}] :
     \A a \in DOMAIN cache : cache[a] # "" => f[a] = cache[a]}

Lookup(addrs) ==
  {f \in [DOMAIN cache \cup addrs -> Names \cup {""}] : \A a \in DOMAIN cache : f[a] = cache[a]}

(* WithHostname: an address that is not public is not looked up.           *)
ToName(conns) == {c.remote.host : c \in {d \in conns : ~IsNonPublicIP(d.remote.host)}}

Report(c, names) ==
  [fp |-> Fingerprint(c), addr |-> c.remote.host,
   name |-> IF c.remote.host \in DOMAIN names THEN names[c.remote.host] ELSE ""]

Prints(conns) == {Fingerprint(c) : c \in conns}

NewBug(conns) == conns \ connSeen   \* compared with the name of the command

(* New connections in the order of a map, up to the cap of one poll.       *)
New(conns) == {c \in conns : Fingerprint(c) \notin Prints(connSeen)}

Added(conns) ==
  {s \in SUBSET New(conns) :
     Cardinality(s) = IF Cardinality(New(conns)) > MaxPerPoll THEN MaxPerPoll ELSE Cardinality(New(conns))}

(* Poll's current: one of the rows with the same fingerprint.              *)
Keyed(conns) == {c \in conns : c = CHOOSE d \in conns : Fingerprint(d) = Fingerprint(c)}

(* listEstablishedConnections: lsof or ss that fails without output shows  *)
(* no connection; on Windows the failure of netstat is an error.           *)
List(conns) ==
  \/ conns = Keyed(Established(os, live)) /\ UNCHANGED <<blank, connFailures>>
  \/ /\ connFailures < MaxListFailures /\ connFailures' = connFailures + 1
     /\ os # "windows" /\ conns = {} /\ blank' = TRUE

PollError ==
  /\ os = "windows"
  /\ connFailures < MaxListFailures /\ connFailures' = connFailures + 1
  /\ UNCHANGED <<os, live, connSeen, connReady, cache, told, known, left, blank, again,
                 connMoves>>

(* The first list is a silent baseline.                                    *)
PollBaseline ==
  /\ ~connReady /\ connReady' = TRUE
  /\ \E conns \in {Keyed(Established(os, live)), {}} :
       List(conns) /\ connSeen' = conns /\ known' = Prints(conns)
  /\ UNCHANGED <<os, live, cache, told, left, again, connMoves>>

(* Later, all of the list is kept, with what the cap has cut off.          *)
PollReport ==
  /\ connReady
  /\ \E conns \in {Keyed(Established(os, live)), {}} :
       /\ List(conns)
       /\ connSeen' = conns
       /\ \E added \in Added(conns) : \E names \in Lookup(ToName(added)) :
            /\ cache' = names
            /\ told' = told \cup {Report(c, names) : c \in added}
            /\ known' = known \cup Prints(added) /\ left' = left \ Prints(added)
            /\ again' = (again \/ \E f \in Prints(added) : f \in known \ left)
  /\ UNCHANGED <<os, live, connReady, connMoves>>

ConnectionNext == SocketsMove \/ PollError \/ PollBaseline \/ PollReport

ConnectionSpec == ConnectionInit /\ [][ConnectionNext]_connectionVars

-----------------------------------------------------------------------------
(* A connection that stays open is reported at most once, and never when   *)
(* it was there at the first poll, whatever command its process runs by    *)
(* now; except after a list that was empty because its tool failed         *)
(* (connections.go:127-131, connection_monitor.go:61-71).                  *)
OnlyGapsReannounce == again => blank

(* Two reports never give one address two names: an answer, also a missing *)
(* one, is kept for as long as the agent runs (connections.go:80-99).      *)
OneNamePerAddress == \A r, s \in told : r.addr = s.addr => r.name = s.name
=============================================================================
