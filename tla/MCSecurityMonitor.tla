------------------------- MODULE MCSecurityMonitor -------------------------
(* A small instance of SecurityMonitor for TLC.  On the Mac: one daemon,   *)
(* one agent whose program changes or that is removed, a kernel extension. *)
(* On Windows: a service, and a value of a Run key that changes.           *)
EXTENDS SecurityMonitor

CONSTANTS mac, macNewProgram, macNoAgent, win, winNewValue, t1, t2

MCLower == [n \in {"Sync", "sync", "update", "disk", "HKCU", "Run"} |->
              IF n = "Sync" THEN "sync" ELSE n]
MCCut == [t \in {<<"update", "--fast">>, <<"sync">>, <<"a">>, <<"b">>} |-> t]

File(name, label, program, args) ==
  [plist |-> TRUE, name |-> name, label |-> label, program |-> program, args |-> args]
User == [hive |-> "user", daemon |-> FALSE]
System == [hive |-> "system", daemon |-> FALSE]
Daemon == [hive |-> "system", daemon |-> TRUE]
Mac(agents) ==
  [os |-> "darwin", kexts |-> <<"disk">>,
   files |-> (User :> agents) @@ (System :> <<[File("notes", "", "", << >>) EXCEPT !.plist = FALSE]>>)
             @@ (Daemon :> <<File("update", "", "sync", << >>)>>)]
Win(value) ==
  [os |-> "windows",
   rows |-> <<[kind |-> "service", name |-> "Sync"], [kind |-> "driver", name |-> ""],
              [kind |-> "registry", hive |-> "HKCU", key |-> "Run", name |-> "Sync", value |-> value]>>]

MCReading ==
  (mac :> Mac(<<File("Sync", "Sync", "sync", <<"">>)>>))
    @@ (macNewProgram :> Mac(<<File("Sync", "Sync", "sync", <<"update", "--fast">>)>>))
    @@ (macNoAgent :> Mac(<< >>)) @@ (win :> Win("a")) @@ (winNewValue :> Win("b"))
MCNear ==
  (mac :> {macNewProgram, macNoAgent}) @@ (macNewProgram :> {mac}) @@ (macNoAgent :> {mac})
    @@ (win :> {winNewValue}) @@ (winNewValue :> {win})

MCInit == host \in {mac, win} /\ Init
MCSpec == MCInit /\ [][Next]_vars /\ Fairness
=============================================================================
