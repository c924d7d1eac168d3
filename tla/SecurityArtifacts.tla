------------------------- MODULE SecurityArtifacts -------------------------
(* What the security monitor lists of a host (internal/collect/security:   *)
(* security_darwin.go, security_windows.go).  On a Mac, the property lists *)
(* of the launch directories and the loaded kernel extensions; on Windows, *)
(* the rows of a script.  A text is a member of a small set; "" is blank.  *)
EXTENDS Naturals, Sequences, FiniteSets, SequencesExt

CONSTANTS
  Lower,   \* Lower[t]: strings.ToLower of a name
  Cut      \* Cut[t]: truncateCmdline of a text, its first 4096 bytes

(* service and driver: their name is their fingerprint, so that a change   *)
(* of what they run is none.                                               *)
Named(class, type, name) ==
  [id |-> <<class, Lower[name]>>, type |-> type, fp |-> Lower[name]]

Registry(id, payload) ==
  [id |-> <<"registry">> \o id, type |-> "registry_persistence", fp |-> payload]

-----------------------------------------------------------------------------
(* security_darwin.go *)

(* launchProgram: the arguments that are not blank, else the program.      *)
LaunchProgram(f) ==
  LET args == SelectSeq(f.args, LAMBDA a : a # "")
  IN IF args # << >> THEN args ELSE IF f.program # "" THEN <<f.program>> ELSE << >>

(* launchPlistArtifact: a daemon is a service; an agent a registry entry,  *)
(* compared with all of its payload.                                       *)
LaunchPlistArtifact(scope, f) ==
  LET label == IF f.label # "" THEN f.label ELSE f.name
  IN IF scope.daemon
     THEN Named("service", "service_installed", label)
     ELSE Registry(<<scope.hive, Lower[label]>>,
                   <<scope.hive, label, Cut[LaunchProgram(f)], f.name>>)

Scopes ==
  {[hive |-> "user", daemon |-> FALSE], [hive |-> "system", daemon |-> FALSE],
   [hive |-> "system", daemon |-> TRUE]}

(* collectLaunchPlists: the *.plist files, one that cannot be read or      *)
(* parsed skipped.  A directory that is missing has no files.              *)
CollectLaunchPlists(h, scope, unread) ==
  LET read == SelectSeq(h.files[scope], LAMBDA f : f.plist /\ f \notin unread)
  IN [i \in DOMAIN read |-> LaunchPlistArtifact(scope, read[i])]

(* collectLoadedKexts: kextstat that fails shows none.                     *)
CollectLoadedKexts(h, kextstat) ==
  IF kextstat THEN [i \in DOMAIN h.kexts |-> Named("driver", "driver_loaded", h.kexts[i])] ELSE << >>

ListDarwin(h, unread, kextstat) ==
  FlattenSeq([s \in 1 .. 3 |->
      CollectLaunchPlists(h, SetToSeq(Scopes)[s], unread)]) \o CollectLoadedKexts(h, kextstat)

-----------------------------------------------------------------------------
(* security_windows.go *)

(* winSecurityArtifactToEvent: a row without its names is dropped.         *)
KeptRow(r) ==
  CASE r.kind \in {"driver", "service"} -> r.name # ""
    [] r.kind = "registry" -> r.hive # "" /\ r.key # "" /\ r.name # ""
    [] OTHER -> FALSE

WinArtifact(r) ==
  CASE r.kind = "driver" -> Named("driver", "driver_loaded", r.name)
    [] r.kind = "service" -> Named("service", "service_installed", r.name)
    [] r.kind = "registry" -> Registry(<<Lower[r.hive], Lower[r.key], Lower[r.name]>>,
                                       <<r.hive, r.key, r.name, Cut[<<r.value>>]>>)

(* The script asks for drivers, services and keys one after the other, and *)
(* goes on when one of them fails.                                         *)
ListWindows(h, failed) ==
  LET rows == SelectSeq(h.rows, LAMBDA r : KeptRow(r) /\ r.kind \notin failed)
  IN [i \in DOMAIN rows |-> WinArtifact(rows[i])]

-----------------------------------------------------------------------------
(* Poll's current: by id, the last one listed.                             *)
Current(listing) ==
  {listing[i] : i \in {j \in DOMAIN listing :
                        \A k \in j + 1 .. Len(listing) : listing[k].id # listing[j].id}}

Complete(h) ==
  Current(IF h.os = "darwin" THEN ListDarwin(h, {}, TRUE) ELSE ListWindows(h, {}))

(* The listings that miss a part without being an error.                   *)
Incomplete(h) ==
  IF h.os = "darwin"
  THEN {Current(ListDarwin(h, unread, kextstat)) :
          unread \in SUBSET UNION {ToSet(h.files[s]) : s \in Scopes}, kextstat \in BOOLEAN}
  ELSE {Current(ListWindows(h, failed)) : failed \in SUBSET {"driver", "service", "registry"}}
=============================================================================
