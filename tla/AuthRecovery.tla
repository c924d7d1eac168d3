---------------------------- MODULE AuthRecovery ----------------------------
(* The device's identity and token: internal/agent/auth.go over the HTTP   *)
(* client (internal/api/client.go) and the credential store                *)
(* (internal/credentials, keyring platforms).  Main registers at start;    *)
(* then posters upload, and one that is refused with 401 re-registers      *)
(* under authMu.  Tokens and device ids are numbers in order of creation,  *)
(* 0 stands for the empty string.                                          *)
EXTENDS Integers, FiniteSets

CONSTANTS
  Posters,         \* goroutines that call postEvents
  Main,            \* the goroutine that runs EnsureRegistered
  MaxRevokes,      \* bound: tokens the server revokes
  MaxNetFails,     \* bound: requests or answers lost
  MaxCredFails,    \* bound: failed operations of the credential store
  MaxStarts        \* bound: starts of the process

ASSUME AuthAssumption ==
  /\ Main \notin Posters /\ 0 \notin Posters \cup {Main}
  /\ {MaxRevokes, MaxNetFails, MaxCredFails, MaxStarts} \subseteq Nat

None == 0
NoFile == [id |-> None, token |-> None]

VARIABLES
  keyring, legacy,   \* the keyring entries of the current and of the old service
  file,              \* state.json: device id and, before migration, the token
  authMu,            \* who holds a.authMu; None when free
  deviceID,          \* a.deviceID
  token,             \* client.deviceToken
  pc,                \* where Main and each poster are
  retried,           \* the poster is in the second PostEvents of its call
  failedToken,       \* postEvents: the token read before posting
  usedToken,         \* postEventsBody: the token the request carries
  reply,             \* registerLocked: the id and token the server answered
  hadToken,          \* ensureRegistered: a stored token was found
  lastToken, lastID, \* the newest token and device id created anywhere
  valid,             \* server: the tokens it accepts
  devices,           \* server: the device ids it has registered
  netFails, credFails, starts   \* counters of the bounds

Procs == Posters \cup {Main}
store    == <<keyring, legacy, file>>
memory   == <<deviceID, token>>
calls    == <<retried, failedToken, usedToken, reply, hadToken>>
server   == <<valid, devices>>
counters == <<netFails, credFails, starts>>
vars == <<store, authMu, memory, pc, calls, lastToken, lastID, server, counters>>

Up == pc[Main] # "down"

(* The stores an agent can start from: a fresh install, a registered one,  *)
(* one of the old keyring service, one that kept its token in state.json.  *)
Init ==
  /\ \/ keyring = None /\ legacy = None /\ file = NoFile
     \/ keyring = 1 /\ legacy = None /\ file = [id |-> 1, token |-> None]
     \/ keyring = None /\ legacy = 1 /\ file = [id |-> 1, token |-> None]
     \/ keyring = None /\ legacy = None /\ file = [id |-> 1, token |-> 1]
  /\ lastToken = file.id /\ lastID = file.id
  /\ valid = {file.id} \ {None} /\ devices = {file.id} \ {None}
  /\ authMu = None /\ deviceID = None /\ token = None
  /\ pc = [p \in Procs |-> IF p = Main THEN "down" ELSE "idle"]
  /\ retried = [p \in Posters |-> FALSE]
  /\ failedToken = [p \in Posters |-> None] /\ usedToken = [p \in Posters |-> None]
  /\ reply = [id |-> None, token |-> None] /\ hadToken = FALSE
  /\ netFails = 0 /\ credFails = 0 /\ starts = 0

Goto(p, there) == pc' = [pc EXCEPT ![p] = there]

(* An operation of the credential store may fail, and then count. *)
CredOp(ok) ==
  IF ok THEN UNCHANGED credFails
        ELSE credFails < MaxCredFails /\ credFails' = credFails + 1
NetFails == netFails < MaxNetFails /\ netFails' = netFails + 1

-----------------------------------------------------------------------------
(* The process ends at any moment and forgets what is in memory. *)
Down ==
  /\ pc' = [p \in Procs |-> IF p = Main THEN "down" ELSE "idle"]
  /\ authMu' = None /\ deviceID' = None /\ token' = None
  /\ retried' = [p \in Posters |-> FALSE]
  /\ failedToken' = [p \in Posters |-> None] /\ usedToken' = [p \in Posters |-> None]
  /\ reply' = [id |-> None, token |-> None] /\ hadToken' = FALSE

ProcessEnds == Up /\ Down /\ UNCHANGED <<store, lastToken, lastID, server, counters>>

(* keyringStore.Load.  keyringGetToken takes the current entry, or moves   *)
(* the old service's entry over; then a token of state.json is moved to    *)
(* the keyring and the file rewritten without it.  got is the token        *)
(* returned, ok says no error was; each move may stop half way.            *)
Load(got, ok) ==
  \/ (* a read of the keyring fails *)
     /\ ~ok /\ got = None /\ CredOp(FALSE) /\ UNCHANGED store
  \/ (* the current entry *)
     /\ ok /\ keyring # None /\ got = keyring /\ UNCHANGED <<store, credFails>>
  \/ (* the old entry is used without being moved *)
     /\ ok /\ keyring = None /\ legacy # None /\ got = legacy
     /\ CredOp(FALSE) /\ UNCHANGED store
  \/ (* the old entry is moved; deleting it may fail unnoticed *)
     /\ ok /\ keyring = None /\ legacy # None /\ got = legacy
     /\ keyring' = legacy /\ UNCHANGED file
     /\ \E deleted \in BOOLEAN : CredOp(deleted) /\ legacy' = IF deleted THEN None ELSE legacy
  \/ (* the token of state.json is moved; rewriting the file may fail *)
     /\ keyring = None /\ legacy = None /\ file.token # None
     /\ got = IF ok THEN file.token ELSE None
     /\ keyring' = file.token /\ UNCHANGED legacy
     /\ CredOp(ok) /\ file' = IF ok THEN [file EXCEPT !.token = None] ELSE file
  \/ (* nothing stored *)
     /\ ok /\ keyring = None /\ legacy = None /\ file.token = None
     /\ got = None /\ UNCHANGED <<store, credFails>>

(* main: a first Load, only to fail early. *)
Boot ==
  /\ pc[Main] = "down" /\ starts < MaxStarts
  /\ starts' = starts + 1
  /\ \E got \in 0 .. lastToken, ok \in BOOLEAN :
       Load(got, ok) /\ Goto(Main, IF ok THEN "load" ELSE "down")
  /\ UNCHANGED <<authMu, memory, calls, lastToken, lastID, server, netFails>>
LoadedIDFreshBug == lastID + 1

(* The stored device id, or a new one. *)
LoadedID == IF file.id = None THEN lastID + 1 ELSE file.id

(* ensureRegistered: lock, load; without a file a new device id is made    *)
(* up.  An error makes main exit.                                          *)
EnsureLoad ==
  /\ pc[Main] = "load" /\ authMu = None
  /\ \E got \in 0 .. lastToken, ok \in BOOLEAN :
       /\ Load(got, ok)
       /\ IF ok
            THEN /\ authMu' = Main /\ Goto(Main, "register")
                 /\ deviceID' = LoadedID
                 /\ lastID' = IF LoadedID > lastID THEN LoadedID ELSE lastID
                 /\ token' = got /\ hadToken' = (got # None)
                 /\ UNCHANGED <<retried, failedToken, usedToken, reply>>
            ELSE Down /\ UNCHANGED lastID
  /\ UNCHANGED <<lastToken, server, netFails, starts>>

-----------------------------------------------------------------------------
(* registerLocked, run with authMu held by p: the request, the answer, the *)
(* two writes of Save (the file, then the keyring).                        *)

(* How registerLocked's error and success are taken by ensureRegistered    *)
(* (fatal only without a stored token) and by a poster's recovery.         *)
RegisterFailed(p) ==
  IF p # Main
    THEN authMu' = None /\ Goto(p, "idle") /\ UNCHANGED <<deviceID, token, calls>>
  ELSE IF hadToken
    THEN authMu' = None /\ Goto(p, "running") /\ UNCHANGED <<deviceID, token, calls>>
  ELSE Down

RegisterDone(p) ==
  /\ authMu' = None
  /\ Goto(p, IF p = Main THEN "running" ELSE "send")
  /\ retried' = IF p = Main THEN retried ELSE [retried EXCEPT ![p] = TRUE]

(* The server registers the device it is told and issues a fresh token. *)
ServerRegisters(p) ==
  /\ pc[p] = "register"
  /\ lastToken' = lastToken + 1
  /\ valid' = valid \cup {lastToken + 1} /\ devices' = devices \cup {deviceID}
  /\ reply' = [id |-> deviceID, token |-> lastToken + 1]
  /\ Goto(p, "answer")
  /\ UNCHANGED <<store, authMu, memory, retried, failedToken, usedToken, hadToken, lastID, counters>>

(* The request, or its answer, is lost or refused. *)
RegisterLost(p) ==
  /\ pc[p] \in {"register", "answer"}
  /\ NetFails
  /\ RegisterFailed(p)
  /\ UNCHANGED <<store, lastToken, lastID, server, credFails, starts>>

AnsweredUnlocksBug(p) ==   \* the lock does not cover the save
  /\ pc[p] = "answer"
  /\ token' = reply.token /\ deviceID' = reply.id
  /\ authMu' = None /\ Goto(p, "saveFile")
  /\ UNCHANGED <<store, calls, lastToken, lastID, server, counters>>

AnsweredTokenFirstBug(p) ==   \* the keyring is written before the file
  /\ pc[p] = "answer"
  /\ token' = reply.token /\ deviceID' = reply.id
  /\ Goto(p, "saveToken")
  /\ UNCHANGED <<store, authMu, calls, lastToken, lastID, server, counters>>

(* client.Register sets the client's token itself, before anything is saved. *)
RegisterAnswered(p) ==
  /\ pc[p] = "answer"
  /\ token' = reply.token /\ deviceID' = reply.id
  /\ Goto(p, "saveFile")
  /\ UNCHANGED <<store, authMu, calls, lastToken, lastID, server, counters>>

SaveFile(p) ==
  /\ pc[p] = "saveFile"
  /\ \E ok \in BOOLEAN :
       /\ CredOp(ok)
       /\ IF ok
            THEN /\ file' = [id |-> deviceID, token |-> None]
                 /\ Goto(p, "saveToken") /\ UNCHANGED <<authMu, memory, calls>>
            ELSE UNCHANGED file /\ RegisterFailed(p)
  /\ UNCHANGED <<keyring, legacy, lastToken, lastID, server, netFails, starts>>

SaveToken(p) ==
  /\ pc[p] = "saveToken"
  /\ \E ok \in BOOLEAN :
       /\ CredOp(ok)
       /\ IF ok
            THEN /\ keyring' = reply.token
                 /\ token' = reply.token
                 /\ RegisterDone(p)
                 /\ UNCHANGED <<deviceID, failedToken, usedToken, reply, hadToken>>
            ELSE UNCHANGED keyring /\ RegisterFailed(p)
  /\ UNCHANGED <<legacy, file, lastToken, lastID, server, netFails, starts>>

RegisterLocked(p) ==
  ServerRegisters(p) \/ RegisterLost(p) \/ RegisterAnswered(p) \/ SaveFile(p) \/ SaveToken(p)

-----------------------------------------------------------------------------
(* postEvents: note the token, post; the request reads the token again. *)
PostBegin(p) ==
  /\ pc[Main] = "running" /\ pc[p] = "idle"
  /\ failedToken' = [failedToken EXCEPT ![p] = token]
  /\ retried' = [retried EXCEPT ![p] = FALSE]
  /\ Goto(p, "send")
  /\ UNCHANGED <<store, authMu, memory, usedToken, reply, hadToken, lastToken, lastID, server, counters>>

PostSend(p) ==
  /\ pc[p] = "send"
  /\ usedToken' = [usedToken EXCEPT ![p] = token]
  /\ Goto(p, "sent")
  /\ UNCHANGED <<store, authMu, memory, retried, failedToken, reply, hadToken, lastToken, lastID, server, counters>>

PostAccepted(p) ==
  /\ pc[p] = "sent" /\ usedToken[p] \in valid
  /\ Goto(p, "idle")
  /\ UNCHANGED <<store, authMu, memory, calls, lastToken, lastID, server, counters>>

(* A second 401 in one call is returned to the caller. *)
PostUnauthorized(p) ==
  /\ pc[p] = "sent" /\ usedToken[p] \notin valid
  /\ Goto(p, IF retried[p] THEN "idle" ELSE "recover")
  /\ UNCHANGED <<store, authMu, memory, calls, lastToken, lastID, server, counters>>

PostLost(p) ==
  /\ pc[p] = "sent" /\ NetFails
  /\ Goto(p, "idle")
  /\ UNCHANGED <<store, authMu, memory, calls, lastToken, lastID, server, credFails, starts>>

NeverRecoveredBug(p) == FALSE
AnyTokenBug(p) == token # None

(* recoverAuthAfterUnauthorized: lock; another caller may have renewed the *)
(* token already; otherwise clear the stored one and register.             *)
AlreadyRecovered(p) == token # None /\ token # failedToken[p]

RecoverSkip(p) ==
  /\ pc[p] = "recover" /\ authMu = None /\ AlreadyRecovered(p)
  /\ Goto(p, "send") /\ retried' = [retried EXCEPT ![p] = TRUE]
  /\ UNCHANGED <<store, authMu, memory, failedToken, usedToken, reply, hadToken, lastToken, lastID, server, counters>>

RecoverClear(p) ==
  /\ pc[p] = "recover" /\ authMu = None /\ ~AlreadyRecovered(p)
  /\ \E cleared, legacyCleared \in BOOLEAN :
       /\ CredOp(cleared /\ (legacyCleared \/ legacy = None))
       /\ keyring' = IF cleared THEN None ELSE keyring
       /\ legacy' = IF cleared /\ legacyCleared THEN None ELSE legacy
       /\ token' = IF cleared THEN None ELSE token
       /\ authMu' = IF cleared THEN p ELSE None
       /\ Goto(p, IF cleared THEN "register" ELSE "idle")
  /\ UNCHANGED <<file, deviceID, calls, lastToken, lastID, server, netFails, starts>>

Poster(p) ==
  \/ PostBegin(p) \/ PostSend(p) \/ PostAccepted(p) \/ PostUnauthorized(p) \/ PostLost(p)
  \/ RecoverSkip(p) \/ RecoverClear(p)

(* The server stops accepting a token (an operator revokes the device). *)
Revoke ==
  /\ lastToken - Cardinality(valid) < MaxRevokes
  /\ \E t \in valid : valid' = valid \ {t}
  /\ UNCHANGED <<store, authMu, memory, pc, calls, lastToken, lastID, devices, counters>>

Next ==
  \/ Boot \/ EnsureLoad \/ ProcessEnds \/ Revoke
  \/ \E p \in Posters : Poster(p)
  \/ \E p \in Procs : RegisterLocked(p)

Spec == Init /\ [][Next]_vars

(* Requests end (the HTTP client has a 30 s timeout), the lock is handed   *)
(* on, and the upload loop keeps posting.  Starts and ends are not forced. *)
Fairness ==
  /\ \A p \in Posters : WF_vars(PostBegin(p) \/ PostSend(p) \/ PostAccepted(p) \/ PostUnauthorized(p))
  /\ \A p \in Posters : SF_vars(RecoverSkip(p) \/ RecoverClear(p))
  /\ \A p \in Procs : WF_vars(RegisterLocked(p))
  /\ WF_vars(EnsureLoad)

FairSpec == Spec /\ Fairness
-----------------------------------------------------------------------------
(* The types of the state. *)
Tokens == 0 .. lastToken
Places == {"down", "load", "running", "idle", "send", "sent", "recover",
           "register", "answer", "saveFile", "saveToken"}
TypeOK ==
  /\ lastToken \in Nat /\ lastID \in Nat
  /\ keyring \in Tokens /\ legacy \in Tokens
  /\ file \in [id : 0 .. lastID, token : Tokens]
  /\ authMu \in Procs \cup {None}
  /\ deviceID \in 0 .. lastID /\ token \in Tokens
  /\ pc \in [Procs -> Places]
  /\ retried \in [Posters -> BOOLEAN]
  /\ failedToken \in [Posters -> Tokens] /\ usedToken \in [Posters -> Tokens]
  /\ reply \in [id : 0 .. lastID, token : Tokens] /\ hadToken \in BOOLEAN
  /\ valid \subseteq Tokens /\ devices \subseteq 0 .. lastID
  /\ netFails \in 0 .. MaxNetFails /\ credFails \in 0 .. MaxCredFails
  /\ starts \in 0 .. MaxStarts

(* authMu covers the whole of registerLocked, network and disk included:   *)
(* two registrations never overlap, so no answer overwrites a newer one.   *)
OneRegistrationAtATime ==
  \A p \in Procs :
    pc[p] \in {"register", "answer", "saveFile", "saveToken"} => authMu = p

(* Recovery throws a token away only when the server refuses it: however   *)
(* the posters' reads of the token interleave with a recovery, none clears *)
(* the token another one has just obtained ("concurrent 401s only          *)
(* re-register once", docs/agent.md:178; auth.go 71-89).                   *)
OnlyRejectedTokensAreCleared ==
  [][\A p \in Posters : RecoverClear(p) /\ token # None => token \notin valid]_vars

(* A token in the keyring always comes with a device id in state.json that *)
(* the server knows, whichever write failed or whenever the process ended: *)
(* Save writes the file first.                                             *)
TokenHasIdentity ==
  (keyring # None \/ legacy # None \/ file.token # None) => file.id \in devices

(* Once state.json names the device, the agent goes on as that device,     *)
(* through restarts, migrations, failures and re-registrations.            *)
IdentityIsStable ==
  [][/\ file.id # None => file'.id = file.id
     /\ (file.id # None /\ deviceID' # None) => deviceID' = file.id]_vars

(* Once the failures and revocations are over, a running agent comes to    *)
(* hold a token the server accepts: no poster is stuck behind the lock, in *)
(* a retry loop, or with a stale token.                                    *)
AuthRecovers == []<>(pc[Main] # "running" \/ token \in valid)
=============================================================================
