------------------------- MODULE AuthRecoveryProofs -------------------------
(* The safety of AuthRecovery for any posters, starts, failures and        *)
(* revocations: registrations do not overlap, a token has an identity, the *)
(* identity stays, and only refused tokens are thrown away.                *)
EXTENDS AuthRecovery, TLAPS

Registering == {"register", "answer", "saveFile", "saveToken"}

(* What Load does to the stores and returns, on every path.                *)
LEMMA LoadKeeps ==
  ASSUME TypeOK, NEW got \in Tokens, NEW ok \in BOOLEAN, Load(got, ok)
  PROVE  /\ keyring' \in Tokens /\ legacy' \in Tokens
         /\ file' \in [id : 0 .. lastID, token : Tokens]
         /\ file'.id = file.id
         /\ credFails' \in 0 .. MaxCredFails
         /\ (keyring' # None \/ legacy' # None \/ file'.token # None)
              => (keyring # None \/ legacy # None \/ file.token # None)
<1> USE DEF TypeOK, Tokens, None, CredOp, store
<1>1. CASE ~ok /\ got = None /\ CredOp(FALSE) /\ UNCHANGED store
  BY <1>1, AuthAssumption
<1>2. CASE ok /\ keyring # None /\ got = keyring /\ UNCHANGED <<store, credFails>>
  BY <1>2
<1>3. CASE ok /\ keyring = None /\ legacy # None /\ got = legacy /\ CredOp(FALSE) /\ UNCHANGED store
  BY <1>3, AuthAssumption
<1>4. CASE /\ ok /\ keyring = None /\ legacy # None /\ got = legacy
           /\ keyring' = legacy /\ UNCHANGED file
           /\ \E deleted \in BOOLEAN : CredOp(deleted) /\ legacy' = IF deleted THEN None ELSE legacy
  BY <1>4, AuthAssumption
<1>5. CASE /\ keyring = None /\ legacy = None /\ file.token # None
           /\ got = IF ok THEN file.token ELSE None
           /\ keyring' = file.token /\ UNCHANGED legacy
           /\ CredOp(ok) /\ file' = IF ok THEN [file EXCEPT !.token = None] ELSE file
  BY <1>5, AuthAssumption
<1>6. CASE /\ ok /\ keyring = None /\ legacy = None /\ file.token = None
           /\ got = None /\ UNCHANGED <<store, credFails>>
  BY <1>6
<1> QED
  BY <1>1, <1>2, <1>3, <1>4, <1>5, <1>6 DEF Load

(* Where everybody is after the process has ended. *)
LEMMA DownType ==
  ASSUME TypeOK, Down
  PROVE  /\ authMu' \in Procs \cup {None} /\ deviceID' \in 0 .. lastID /\ token' \in Tokens
         /\ pc' \in [Procs -> Places]
         /\ retried' \in [Posters -> BOOLEAN]
         /\ failedToken' \in [Posters -> Tokens] /\ usedToken' \in [Posters -> Tokens]
         /\ reply' \in [id : 0 .. lastID, token : Tokens] /\ hadToken' \in BOOLEAN
<1>1. None \in Tokens /\ None \in 0 .. lastID
  BY DEF TypeOK, Tokens, None
<1>2. pc' \in [Procs -> Places]
  BY DEF Down, Places
<1> QED
  BY <1>1, <1>2 DEF Down

(* Where a failed registration leaves them. *)
LEMMA FailedType ==
  ASSUME TypeOK, NEW p \in Procs, RegisterFailed(p)
  PROVE  /\ authMu' \in Procs \cup {None} /\ deviceID' \in 0 .. lastID /\ token' \in Tokens
         /\ pc' \in [Procs -> Places]
         /\ retried' \in [Posters -> BOOLEAN]
         /\ failedToken' \in [Posters -> Tokens] /\ usedToken' \in [Posters -> Tokens]
         /\ reply' \in [id : 0 .. lastID, token : Tokens] /\ hadToken' \in BOOLEAN
<1>1. CASE p # Main
  BY <1>1 DEF RegisterFailed, TypeOK, Goto, Places, calls
<1>2. CASE p = Main /\ hadToken
  BY <1>2 DEF RegisterFailed, TypeOK, Goto, Places, calls
<1>3. CASE p = Main /\ ~hadToken
  BY <1>3, DownType DEF RegisterFailed
<1> QED
  BY <1>1, <1>2, <1>3 DEF TypeOK

(* Every step keeps the types. *)
LEMMA TypeStep == TypeOK /\ [Next]_vars => TypeOK'
<1> SUFFICES ASSUME TypeOK, [Next]_vars PROVE TypeOK'
  OBVIOUS
<1> USE DEF Tokens, store, memory, calls, server, counters
<1>a. {MaxRevokes, MaxNetFails, MaxCredFails, MaxStarts} \subseteq Nat
  BY AuthAssumption
<1>1. CASE Boot
  <2>1. PICK got \in 0 .. lastToken, ok \in BOOLEAN :
          Load(got, ok) /\ Goto(Main, IF ok THEN "load" ELSE "down")
    BY <1>1 DEF Boot
  <2>2. /\ keyring' \in Tokens /\ legacy' \in Tokens /\ credFails' \in 0 .. MaxCredFails
        /\ file' \in [id : 0 .. lastID, token : Tokens]
    BY <2>1, LoadKeeps
  <2>3. pc' \in [Procs -> Places]
    BY <2>1 DEF TypeOK, Goto, Places
  <2> QED
    BY <1>1, <1>a, <2>2, <2>3 DEF Boot, TypeOK
<1>2. CASE EnsureLoad
  <2>1. PICK got \in 0 .. lastToken, ok \in BOOLEAN :
          /\ Load(got, ok)
          /\ IF ok
               THEN /\ authMu' = Main /\ Goto(Main, "register")
                    /\ deviceID' = LoadedID
                    /\ lastID' = IF LoadedID > lastID THEN LoadedID ELSE lastID
                    /\ token' = got /\ hadToken' = (got # None)
                    /\ UNCHANGED <<retried, failedToken, usedToken, reply>>
               ELSE Down /\ UNCHANGED lastID
    BY <1>2 DEF EnsureLoad
  <2>2. /\ keyring' \in Tokens /\ legacy' \in Tokens /\ credFails' \in 0 .. MaxCredFails
        /\ file' \in [id : 0 .. lastID, token : Tokens]
    BY <2>1, LoadKeeps
  <2>3. UNCHANGED <<lastToken, server, netFails, starts>>
    BY <1>2 DEF EnsureLoad
  <2>4. CASE ok
    <3>1. /\ lastID' \in Nat /\ LoadedID \in 0 .. lastID' /\ lastID <= lastID'
      BY <2>1, <2>4 DEF TypeOK, LoadedID, None
    <3>2. 0 .. lastID \subseteq 0 .. lastID'
      BY <3>1 DEF TypeOK
    <3>3. pc' \in [Procs -> Places] /\ authMu' \in Procs
      BY <2>1, <2>4 DEF TypeOK, Goto, Places, Procs
    <3>4. file' \in [id : 0 .. lastID', token : Tokens] /\ reply' \in [id : 0 .. lastID', token : Tokens]
      BY <2>1, <2>2, <2>4, <3>2 DEF TypeOK
    <3>5. deviceID' \in 0 .. lastID' /\ token' \in Tokens /\ hadToken' \in BOOLEAN
      BY <2>1, <2>4, <3>1
    <3> QED
      BY <2>1, <2>2, <2>3, <2>4, <3>1, <3>2, <3>3, <3>4, <3>5 DEF TypeOK
  <2>5. CASE ~ok
    <3>1. Down /\ UNCHANGED lastID
      BY <2>1, <2>5
    <3> QED
      BY <2>2, <2>3, <3>1, DownType DEF TypeOK
  <2> QED
    BY <2>4, <2>5
<1>3. CASE ProcessEnds
  BY <1>3, DownType DEF ProcessEnds, TypeOK
<1>4. CASE Revoke
  BY <1>4 DEF Revoke, TypeOK
<1>5. ASSUME NEW p \in Posters, Poster(p) PROVE TypeOK'
  <2> p \in Procs
    BY DEF Procs
  <2>1. CASE PostBegin(p)
    BY <2>1 DEF PostBegin, Goto, Places, TypeOK
  <2>2. CASE PostSend(p)
    BY <2>2 DEF PostSend, Goto, Places, TypeOK
  <2>3. CASE PostAccepted(p) \/ PostUnauthorized(p)
    BY <2>3 DEF PostAccepted, PostUnauthorized, Goto, Places, TypeOK
  <2>4. CASE PostLost(p)
    BY <2>4, <1>a DEF PostLost, NetFails, Goto, Places, TypeOK
  <2>5. CASE RecoverSkip(p)
    BY <2>5 DEF RecoverSkip, Goto, Places, TypeOK
  <2>6. CASE RecoverClear(p)
    BY <2>6, <1>a DEF RecoverClear, CredOp, None, Goto, Places, TypeOK
  <2> QED
    BY <1>5, <2>1, <2>2, <2>3, <2>4, <2>5, <2>6 DEF Poster
<1>6. ASSUME NEW p \in Procs, RegisterLocked(p) PROVE TypeOK'
  <2>1. CASE ServerRegisters(p)
    <3>1. 0 .. lastToken \subseteq 0 .. lastToken' /\ lastToken' \in Nat /\ lastToken + 1 \in 0 .. lastToken'
      BY <2>1 DEF ServerRegisters, TypeOK
    <3> QED
      BY <2>1, <3>1 DEF ServerRegisters, Goto, Places, TypeOK
  <2>2. CASE RegisterLost(p)
    <3>1. RegisterFailed(p) /\ netFails' \in 0 .. MaxNetFails
      BY <2>2, <1>a DEF RegisterLost, NetFails, TypeOK
    <3> QED
      BY <2>2, <3>1, FailedType DEF RegisterLost, TypeOK
  <2>3. CASE RegisterAnswered(p)
    BY <2>3 DEF RegisterAnswered, Goto, Places, TypeOK
  <2>4. CASE SaveFile(p)
    <3>1. PICK ok \in BOOLEAN :
            /\ CredOp(ok)
            /\ IF ok
                 THEN /\ file' = [id |-> deviceID, token |-> None]
                      /\ Goto(p, "saveToken") /\ UNCHANGED <<authMu, memory, calls>>
                 ELSE UNCHANGED file /\ RegisterFailed(p)
      BY <2>4 DEF SaveFile
    <3>2. credFails' \in 0 .. MaxCredFails
      BY <3>1, <1>a DEF CredOp, TypeOK
    <3>3. CASE ok
      BY <2>4, <3>1, <3>2, <3>3 DEF SaveFile, Goto, Places, TypeOK, None
    <3>4. CASE ~ok
      BY <2>4, <3>1, <3>2, <3>4, FailedType DEF SaveFile, TypeOK
    <3> QED
      BY <3>3, <3>4
  <2>5. CASE SaveToken(p)
    <3>1. PICK ok \in BOOLEAN :
            /\ CredOp(ok)
            /\ IF ok
                 THEN /\ keyring' = reply.token
                      /\ token' = reply.token
                      /\ RegisterDone(p)
                      /\ UNCHANGED <<deviceID, failedToken, usedToken, reply, hadToken>>
                 ELSE UNCHANGED keyring /\ RegisterFailed(p)
      BY <2>5 DEF SaveToken
    <3>2. credFails' \in 0 .. MaxCredFails
      BY <3>1, <1>a DEF CredOp, TypeOK
    <3>3. CASE ok
      <4>1. /\ keyring' \in Tokens /\ token' \in Tokens /\ RegisterDone(p)
            /\ UNCHANGED <<deviceID, failedToken, usedToken, reply, hadToken>>
        BY <3>1, <3>3 DEF TypeOK
      <4>2. authMu' = None /\ pc' \in [Procs -> Places]
        BY <4>1 DEF RegisterDone, Goto, Places, TypeOK
      <4>3. retried' \in [Posters -> BOOLEAN]
        BY <4>1 DEF RegisterDone, TypeOK
      <4> QED
        BY <2>5, <3>2, <4>1, <4>2, <4>3 DEF SaveToken, TypeOK
    <3>4. CASE ~ok
      BY <2>5, <3>1, <3>2, <3>4, FailedType DEF SaveToken, TypeOK
    <3> QED
      BY <3>3, <3>4
  <2> QED
    BY <1>6, <2>1, <2>2, <2>3, <2>4, <2>5 DEF RegisterLocked
<1>7. CASE UNCHANGED vars
  BY <1>7 DEF vars, TypeOK
<1> QED
  BY <1>1, <1>2, <1>3, <1>4, <1>5, <1>6, <1>7 DEF Next

-----------------------------------------------------------------------------
(* Who registers holds the lock; posters wait for Main; from its first     *)
(* registration on the process has a device id.                            *)
Control ==
  /\ OneRegistrationAtATime
  /\ \A p \in Posters : pc[Main] # "running" => pc[p] = "idle"
  /\ pc[Main] \notin {"down", "load"} => deviceID # None
  /\ \A p \in Procs : pc[p] = "answer" => reply.id = deviceID

(* Nobody registers without a device id. *)
LEMMA RegisteringIsNamed ==
  ASSUME Control, NEW p \in Procs, pc[p] \in Registering
  PROVE  deviceID # None
BY DEF Control, Procs, Registering

(* Nobody is inside a registration once the process has ended. *)
LEMMA DownControl == ASSUME TypeOK, Down PROVE Control'
BY AuthAssumption DEF Down, Control, OneRegistrationAtATime, Procs, TypeOK

(* A registration that fails gives the lock back. *)
LEMMA FailedControl ==
  ASSUME TypeOK, Control, NEW p \in Procs, pc[p] \in Registering, RegisterFailed(p)
  PROVE  Control'
<1>1. CASE p # Main
  BY <1>1 DEF RegisterFailed, TypeOK, Goto, calls, Control, OneRegistrationAtATime, Procs, Registering
<1>2. CASE p = Main /\ hadToken
  BY <1>2, AuthAssumption DEF RegisterFailed, TypeOK, Goto, calls, Control, OneRegistrationAtATime, Procs, Registering
<1>3. CASE p = Main /\ ~hadToken
  BY <1>3, DownControl DEF RegisterFailed
<1> QED
  BY <1>1, <1>2, <1>3 DEF TypeOK

(* Every step keeps who may register. *)
LEMMA ControlStep == TypeOK /\ Control /\ [Next]_vars => Control'
<1> SUFFICES ASSUME TypeOK, Control, [Next]_vars PROVE Control'
  OBVIOUS
<1> USE AuthAssumption
<1> USE DEF Control, OneRegistrationAtATime, Goto, memory, calls, Procs
<1>1. CASE Boot
  BY <1>1 DEF Boot, TypeOK
<1>2. CASE EnsureLoad
  <2>1. PICK got \in 0 .. lastToken, ok \in BOOLEAN :
          IF ok
            THEN /\ authMu' = Main /\ Goto(Main, "register")
                 /\ deviceID' = LoadedID
            ELSE Down /\ UNCHANGED lastID
    BY <1>2 DEF EnsureLoad
  <2>2. CASE ok
    <3>1. LoadedID # None
      BY DEF LoadedID, TypeOK, None
    <3>2. pc[Main] = "load" /\ authMu = None
      BY <1>2 DEF EnsureLoad
    <3>3. \A p \in Procs : pc'[p] = IF p = Main THEN "register" ELSE pc[p]
      BY <2>1, <2>2 DEF TypeOK
    <3> QED
      BY <2>1, <2>2, <3>1, <3>2, <3>3
  <2>3. CASE ~ok
    BY <2>1, <2>3, DownControl
  <2> QED
    BY <2>2, <2>3
<1>3. CASE ProcessEnds
  BY <1>3, DownControl DEF ProcessEnds
<1>4. CASE Revoke
  BY <1>4 DEF Revoke
<1>5. ASSUME NEW p \in Posters, Poster(p) PROVE Control'
  <2>1. pc[Main] = "running" /\ p # Main
    BY <1>5 DEF Poster, PostBegin, PostSend, PostAccepted, PostUnauthorized, PostLost, RecoverSkip, RecoverClear
  <2>2. CASE PostBegin(p) \/ PostSend(p) \/ PostAccepted(p) \/ PostUnauthorized(p) \/ PostLost(p) \/ RecoverSkip(p)
    BY <2>1, <2>2 DEF PostBegin, PostSend, PostAccepted, PostUnauthorized, PostLost, RecoverSkip, TypeOK
  <2>3. CASE RecoverClear(p)
    <3>1. PICK cleared \in BOOLEAN :
            authMu' = (IF cleared THEN p ELSE None) /\ Goto(p, IF cleared THEN "register" ELSE "idle")
      BY <2>3 DEF RecoverClear
    <3>2. authMu = None /\ deviceID' = deviceID
      BY <2>3 DEF RecoverClear
    <3>3. \A q \in Procs : pc[q] \notin Registering
      BY <3>2 DEF None, Registering
    <3> QED
      BY <2>1, <3>1, <3>2, <3>3 DEF TypeOK, Registering
  <2> QED
    BY <1>5, <2>2, <2>3 DEF Poster
<1>6. ASSUME NEW p \in Procs, RegisterLocked(p) PROVE Control'
  <2>1. CASE ServerRegisters(p)
    BY <2>1 DEF ServerRegisters, TypeOK
  <2>2. CASE RegisterLost(p)
    BY <2>2, FailedControl DEF RegisterLost, Registering
  <2>3. CASE RegisterAnswered(p)
    <3>1. reply.id # None
      BY <2>3, RegisteringIsNamed DEF RegisterAnswered, Registering
    <3>2. \A q \in Procs : pc'[q] = IF q = p THEN "saveFile" ELSE pc[q]
      BY <2>3 DEF RegisterAnswered, TypeOK
    <3>3. \A q \in Procs : pc'[q] # "answer"
      BY <2>3, <3>2 DEF RegisterAnswered
    <3> QED
      BY <2>3, <3>1, <3>2, <3>3 DEF RegisterAnswered
  <2>4. CASE SaveFile(p)
    <3>1. CASE RegisterFailed(p)
      BY <2>4, <3>1, FailedControl DEF SaveFile, Registering
    <3>2. CASE Goto(p, "saveToken") /\ UNCHANGED <<authMu, memory, calls>>
      BY <2>4, <3>2 DEF SaveFile, TypeOK
    <3> QED
      BY <2>4, <3>1, <3>2 DEF SaveFile
  <2>5. CASE SaveToken(p)
    <3>1. CASE RegisterFailed(p)
      BY <2>5, <3>1, FailedControl DEF SaveToken, Registering
    <3>2. CASE RegisterDone(p) /\ UNCHANGED deviceID
      BY <2>5, <3>2 DEF SaveToken, RegisterDone, TypeOK
    <3> QED
      BY <2>5, <3>1, <3>2 DEF SaveToken
  <2> QED
    BY <1>6, <2>1, <2>2, <2>3, <2>4, <2>5 DEF RegisterLocked
<1>7. CASE UNCHANGED vars
  BY <1>7 DEF vars
<1> QED
  BY <1>1, <1>2, <1>3, <1>4, <1>5, <1>6, <1>7 DEF Next

-----------------------------------------------------------------------------
(* The device ids in memory, in state.json and on the server: what is      *)
(* about to be saved is registered, and it is the id saved before.         *)
Identity ==
  /\ TokenHasIdentity
  /\ file.id # None /\ deviceID # None => deviceID = file.id
  /\ \A p \in Procs : pc[p] \in {"answer", "saveFile"} => deviceID \in devices
  /\ \A p \in Procs : pc[p] = "saveToken" => file.id \in devices

(* What is on disk survives the end of the process. *)
LEMMA DownIdentity ==
  ASSUME TypeOK, Identity, Down, devices' = devices, file'.id = file.id,
         (keyring' # None \/ legacy' # None \/ file'.token # None)
              => (keyring # None \/ legacy # None \/ file.token # None)
  PROVE  Identity'
BY DEF Down, Identity, TokenHasIdentity, Procs

(* A registration that fails has written nothing. *)
LEMMA FailedIdentity ==
  ASSUME TypeOK, Identity, NEW p \in Procs, RegisterFailed(p), UNCHANGED <<store, devices>>
  PROVE  Identity'
<1> USE DEF store
<1>1. CASE p # Main
  BY <1>1 DEF RegisterFailed, TypeOK, Goto, Identity, TokenHasIdentity, Procs
<1>2. CASE p = Main /\ hadToken
  BY <1>2 DEF RegisterFailed, TypeOK, Goto, Identity, TokenHasIdentity, Procs
<1>3. CASE p = Main /\ ~hadToken
  BY <1>3, DownIdentity DEF RegisterFailed
<1> QED
  BY <1>1, <1>2, <1>3 DEF TypeOK

(* Every step keeps what the stores say of the device. *)
LEMMA IdentityStep == TypeOK /\ Control /\ Identity /\ [Next]_vars => Identity'
<1> SUFFICES ASSUME TypeOK, Control, Identity, [Next]_vars PROVE Identity'
  OBVIOUS
<1> USE DEF Identity, TokenHasIdentity, Goto, Procs, store, memory, calls, server, counters
<1>1. CASE Boot
  <2>1. PICK got \in Tokens, ok \in BOOLEAN :
          Load(got, ok) /\ Goto(Main, IF ok THEN "load" ELSE "down")
    BY <1>1 DEF Boot, Tokens
  <2>2. /\ file'.id = file.id
        /\ (keyring' # None \/ legacy' # None \/ file'.token # None)
              => (keyring # None \/ legacy # None \/ file.token # None)
    BY <2>1, LoadKeeps
  <2> QED
    BY <1>1, <2>1, <2>2 DEF Boot, TypeOK
<1>2. CASE EnsureLoad
  <2>1. PICK got \in Tokens, ok \in BOOLEAN :
          /\ Load(got, ok)
          /\ IF ok THEN Goto(Main, "register") /\ deviceID' = LoadedID ELSE Down
    BY <1>2 DEF EnsureLoad, Tokens
  <2>2. /\ file'.id = file.id /\ devices' = devices
        /\ (keyring' # None \/ legacy' # None \/ file'.token # None)
              => (keyring # None \/ legacy # None \/ file.token # None)
    BY <1>2, <2>1, LoadKeeps DEF EnsureLoad
  <2>3. CASE ok
    <3>1. \A p \in Procs : pc'[p] = IF p = Main THEN "register" ELSE pc[p]
      BY <2>1, <2>3 DEF TypeOK
    <3>2. \A p \in Procs : p # Main => pc[p] = "idle"
      BY <1>2 DEF EnsureLoad, Control
    <3>3. file.id # None => deviceID' = file.id
      BY <2>1, <2>3 DEF LoadedID
    <3> QED
      BY <2>2, <3>1, <3>2, <3>3
  <2>4. CASE ~ok
    BY <2>1, <2>2, <2>4, DownIdentity
  <2> QED
    BY <2>3, <2>4
<1>3. CASE ProcessEnds
  BY <1>3, DownIdentity DEF ProcessEnds
<1>4. CASE Revoke
  BY <1>4 DEF Revoke
<1>5. ASSUME NEW p \in Posters, Poster(p) PROVE Identity'
  <2>1. CASE PostBegin(p) \/ PostSend(p) \/ PostAccepted(p) \/ PostUnauthorized(p) \/ PostLost(p) \/ RecoverSkip(p)
    BY <2>1 DEF PostBegin, PostSend, PostAccepted, PostUnauthorized, PostLost, RecoverSkip, TypeOK
  <2>2. CASE RecoverClear(p)
    <3>1. PICK cleared \in BOOLEAN, legacyCleared \in BOOLEAN :
            /\ keyring' = IF cleared THEN None ELSE keyring
            /\ legacy' = IF cleared /\ legacyCleared THEN None ELSE legacy
            /\ Goto(p, IF cleared THEN "register" ELSE "idle")
      BY <2>2 DEF RecoverClear
    <3> QED
      BY <2>2, <3>1 DEF RecoverClear, TypeOK
  <2> QED
    BY <1>5, <2>1, <2>2 DEF Poster
<1>6. ASSUME NEW p \in Procs, RegisterLocked(p) PROVE Identity'
  <2>1. CASE ServerRegisters(p)
    BY <2>1 DEF ServerRegisters, TypeOK
  <2>2. CASE RegisterLost(p)
    BY <2>2, FailedIdentity DEF RegisterLost
  <2>3. CASE RegisterAnswered(p)
    BY <2>3 DEF RegisterAnswered, TypeOK, Control
  <2>4. CASE SaveFile(p)
    <3>1. CASE UNCHANGED file /\ RegisterFailed(p)
      BY <2>4, <3>1, FailedIdentity DEF SaveFile
    <3>2. CASE file' = [id |-> deviceID, token |-> None] /\ Goto(p, "saveToken") /\ UNCHANGED <<authMu, memory, calls>>
      <4>1. deviceID \in devices /\ file'.id = deviceID
        BY <2>4, <3>2 DEF SaveFile
      <4>2. \A q \in Procs : pc'[q] = IF q = p THEN "saveToken" ELSE pc[q]
        BY <3>2 DEF TypeOK
      <4>3. UNCHANGED <<keyring, legacy, deviceID, devices>>
        BY <2>4, <3>2 DEF SaveFile
      <4> QED
        BY <4>1, <4>2, <4>3
    <3> QED
      BY <2>4, <3>1, <3>2 DEF SaveFile
  <2>5. CASE SaveToken(p)
    <3>1. CASE UNCHANGED keyring /\ RegisterFailed(p)
      BY <2>5, <3>1, FailedIdentity DEF SaveToken
    <3>2. CASE keyring' = reply.token /\ RegisterDone(p) /\ UNCHANGED deviceID
      <4>1. file'.id = file.id /\ file.id \in devices /\ devices' = devices
        BY <2>5 DEF SaveToken
      <4>2. \A q \in Procs : pc'[q] = IF q = p THEN (IF p = Main THEN "running" ELSE "send") ELSE pc[q]
        BY <3>2 DEF RegisterDone, TypeOK
      <4> QED
        BY <3>2, <4>1, <4>2
    <3> QED
      BY <2>5, <3>1, <3>2 DEF SaveToken
  <2> QED
    BY <1>6, <2>1, <2>2, <2>3, <2>4, <2>5 DEF RegisterLocked
<1>7. CASE UNCHANGED vars
  BY <1>7 DEF vars
<1> QED
  BY <1>1, <1>2, <1>3, <1>4, <1>5, <1>6, <1>7 DEF Next

-----------------------------------------------------------------------------
(* The tokens of memory, of the posters and of the answer: an answer is    *)
(* newer than all the others, and the token that a poster wants to replace *)
(* was refused, unless it is no longer the one in memory.                  *)
Refused ==
  /\ \A p \in Procs : pc[p] = "answer" =>
       token < reply.token /\ \A q \in Posters : failedToken[q] < reply.token
  /\ \A p \in Procs : pc[p] \in {"saveFile", "saveToken"} => token = reply.token
  /\ \A p \in Posters : pc[p] = "sent" /\ token = failedToken[p] /\ token # None => usedToken[p] = token
  /\ \A p \in Posters : pc[p] = "recover" /\ token = failedToken[p] /\ token # None => token \notin valid

(* Nobody recovers once the process has ended. *)
LEMMA DownRefused == ASSUME TypeOK, Down PROVE Refused'
BY DEF Down, Refused, Procs

(* A registration that fails replaces no token. *)
LEMMA FailedRefused ==
  ASSUME TypeOK, Refused, NEW p \in Procs, RegisterFailed(p), valid' = valid
  PROVE  Refused'
<1>1. CASE p # Main
  BY <1>1 DEF RegisterFailed, TypeOK, Goto, calls, Refused, Procs
<1>2. CASE p = Main /\ hadToken
  BY <1>2 DEF RegisterFailed, TypeOK, Goto, calls, Refused, Procs
<1>3. CASE p = Main /\ ~hadToken
  BY <1>3, DownRefused DEF RegisterFailed
<1> QED
  BY <1>1, <1>2, <1>3 DEF TypeOK

(* Every step keeps what is known of the tokens to be replaced. *)
LEMMA RefusedStep == TypeOK /\ Control /\ Refused /\ [Next]_vars => Refused'
<1> SUFFICES ASSUME TypeOK, Control, Refused, [Next]_vars PROVE Refused'
  OBVIOUS
<1> USE DEF Refused, Goto, Procs, store, memory, calls, server, counters
<1>1. CASE Boot
  BY <1>1 DEF Boot, TypeOK
<1>2. CASE EnsureLoad
  <2>1. PICK got \in Tokens, ok \in BOOLEAN :
          IF ok THEN /\ Goto(Main, "register") /\ token' = got
                     /\ UNCHANGED <<retried, failedToken, usedToken, reply>>
                ELSE Down
    BY <1>2 DEF EnsureLoad, Tokens
  <2>2. CASE ok
    <3>1. \A p \in Procs : pc'[p] = IF p = Main THEN "register" ELSE pc[p]
      BY <2>1, <2>2 DEF TypeOK
    <3>2. \A p \in Procs : p # Main => pc[p] = "idle"
      BY <1>2 DEF EnsureLoad, Control
    <3> QED
      BY <3>1, <3>2, AuthAssumption
  <2>3. CASE ~ok
    BY <2>1, <2>3, DownRefused
  <2> QED
    BY <2>2, <2>3
<1>3. CASE ProcessEnds
  BY <1>3, DownRefused DEF ProcessEnds
<1>4. CASE Revoke
  BY <1>4 DEF Revoke
<1>5. ASSUME NEW p \in Posters, Poster(p) PROVE Refused'
  <2>1. CASE PostBegin(p)
    BY <2>1 DEF PostBegin, TypeOK
  <2>2. CASE PostSend(p)
    BY <2>2 DEF PostSend, TypeOK
  <2>3. CASE PostAccepted(p) \/ PostUnauthorized(p) \/ PostLost(p) \/ RecoverSkip(p)
    BY <2>3 DEF PostAccepted, PostUnauthorized, PostLost, RecoverSkip, TypeOK
  <2>4. CASE RecoverClear(p)
    <3>1. PICK cleared \in BOOLEAN :
            /\ token' = (IF cleared THEN None ELSE token)
            /\ Goto(p, IF cleared THEN "register" ELSE "idle")
      BY <2>4 DEF RecoverClear
    <3>2. \A q \in Procs : pc[q] \notin Registering
      BY <2>4, AuthAssumption DEF RecoverClear, Control, OneRegistrationAtATime, None, Registering
    <3>3. \A q \in Procs : q # p => pc'[q] = pc[q]
      BY <3>1 DEF TypeOK
    <3>4. pc'[p] \in {"register", "idle"}
      BY <3>1 DEF TypeOK
    <3>5. CASE ~cleared
      BY <2>4, <3>1, <3>2, <3>3, <3>4, <3>5 DEF RecoverClear, Registering
    <3>6. CASE cleared
      BY <2>4, <3>1, <3>2, <3>3, <3>4, <3>6 DEF RecoverClear, Registering
    <3> QED
      BY <3>5, <3>6
  <2> QED
    BY <1>5, <2>1, <2>2, <2>3, <2>4 DEF Poster
<1>6. ASSUME NEW p \in Procs, RegisterLocked(p) PROVE Refused'
  <2>1. CASE ServerRegisters(p)
    <3>1. \A q \in Procs : pc'[q] = IF q = p THEN "answer" ELSE pc[q]
      BY <2>1 DEF ServerRegisters, TypeOK
    <3>2. \A q \in Procs : pc[q] \in Registering => q = p
      BY <2>1 DEF ServerRegisters, Control, OneRegistrationAtATime, Registering
    <3>3. reply'.token = lastToken + 1 /\ token < lastToken + 1 /\ \A q \in Posters : failedToken[q] < lastToken + 1
      BY <2>1 DEF ServerRegisters, TypeOK, Tokens
    <3> QED
      BY <2>1, <3>1, <3>2, <3>3 DEF ServerRegisters, Registering
  <2>2. CASE RegisterLost(p)
    BY <2>2, FailedRefused DEF RegisterLost
  <2>3. CASE RegisterAnswered(p)
    <3>1. \A q \in Procs : pc'[q] = IF q = p THEN "saveFile" ELSE pc[q]
      BY <2>3 DEF RegisterAnswered, TypeOK
    <3>2. \A q \in Procs : pc[q] \in Registering => q = p
      BY <2>3 DEF RegisterAnswered, Control, OneRegistrationAtATime, Registering
    <3>3. token' = reply.token /\ reply' = reply
      BY <2>3 DEF RegisterAnswered
    <3>4. \A q \in Posters : token' # failedToken'[q]
      BY <2>3, <3>3 DEF RegisterAnswered, TypeOK, Tokens
    <3> QED
      BY <2>3, <3>1, <3>2, <3>3, <3>4 DEF RegisterAnswered, Registering
  <2>4. CASE SaveFile(p)
    <3>1. CASE RegisterFailed(p)
      BY <2>4, <3>1, FailedRefused DEF SaveFile
    <3>2. CASE Goto(p, "saveToken") /\ UNCHANGED <<authMu, memory, calls>>
      BY <2>4, <3>2 DEF SaveFile, TypeOK
    <3> QED
      BY <2>4, <3>1, <3>2 DEF SaveFile
  <2>5. CASE SaveToken(p)
    <3>1. CASE RegisterFailed(p)
      BY <2>5, <3>1, FailedRefused DEF SaveToken
    <3>2. CASE token' = reply.token /\ RegisterDone(p) /\ UNCHANGED <<failedToken, usedToken, reply>>
      <4>1. token' = token
        BY <2>5, <3>2 DEF SaveToken
      <4>2. \A q \in Procs : pc'[q] = IF q = p THEN (IF p = Main THEN "running" ELSE "send") ELSE pc[q]
        BY <3>2 DEF RegisterDone, TypeOK
      <4>3. valid' = valid
        BY <2>5 DEF SaveToken
      <4> QED
        BY <3>2, <4>1, <4>2, <4>3
    <3> QED
      BY <2>5, <3>1, <3>2 DEF SaveToken
  <2> QED
    BY <1>6, <2>1, <2>2, <2>3, <2>4, <2>5 DEF RegisterLocked
<1>7. CASE UNCHANGED vars
  BY <1>7 DEF vars
<1> QED
  BY <1>1, <1>2, <1>3, <1>4, <1>5, <1>6, <1>7 DEF Next

-----------------------------------------------------------------------------
IInv == TypeOK /\ Control /\ Identity /\ Refused

(* Each of the initial stores meets the invariant. *)
LEMMA InitIInv == Init => IInv
<1> SUFFICES ASSUME Init PROVE IInv
  OBVIOUS
<1> USE AuthAssumption
<1>1. TypeOK
  <2>1. /\ lastToken \in {0, 1} /\ lastID = lastToken /\ file.id = lastToken
        /\ file \in [id : {0, 1}, token : {0, 1}] /\ keyring \in {0, 1} /\ legacy \in {0, 1}
    BY DEF Init, None, NoFile
  <2>2. keyring <= lastToken /\ legacy <= lastToken /\ file.token <= lastToken
    BY DEF Init, None, NoFile
  <2>3. keyring \in Tokens /\ legacy \in Tokens /\ file \in [id : 0 .. lastID, token : Tokens]
    BY <2>1, <2>2 DEF Tokens
  <2>4. None \in Tokens /\ None \in 0 .. lastID
    BY <2>1 DEF Tokens, None
  <2>5. pc \in [Procs -> Places]
    BY DEF Init, Places
  <2>6. netFails \in 0 .. MaxNetFails /\ credFails \in 0 .. MaxCredFails /\ starts \in 0 .. MaxStarts
    BY DEF Init
  <2>7. valid \subseteq Tokens /\ devices \subseteq 0 .. lastID
    BY <2>1 DEF Init, Tokens
  <2>8. authMu = None /\ deviceID = None /\ token = None /\ hadToken = FALSE
    BY DEF Init
  <2>9. /\ retried \in [Posters -> BOOLEAN]
        /\ failedToken \in [Posters -> Tokens] /\ usedToken \in [Posters -> Tokens]
        /\ reply \in [id : 0 .. lastID, token : Tokens]
    BY <2>4 DEF Init
  <2> QED
    <3>1. lastToken \in Nat /\ lastID \in Nat
      BY <2>1
    <3>2. authMu \in Procs \cup {None} /\ deviceID \in 0 .. lastID /\ token \in Tokens /\ hadToken \in BOOLEAN
      BY <2>4, <2>8
    <3> QED
      BY <2>3, <2>5, <2>6, <2>7, <2>9, <3>1, <3>2 DEF TypeOK
<1>2. Control
  BY DEF Init, Control, OneRegistrationAtATime, Procs
<1>3. Identity
  BY DEF Init, Identity, TokenHasIdentity, Procs, None, NoFile
<1>4. Refused
  BY DEF Init, Refused, Procs
<1> QED
  BY <1>1, <1>2, <1>3, <1>4 DEF IInv

(* The inductive invariant from which the theorems below follow. *)
THEOREM Inductive == Spec => []IInv
<1>1. IInv /\ [Next]_vars => IInv'
  BY TypeStep, ControlStep, IdentityStep, RefusedStep DEF IInv
<1> QED
  BY InitIInv, <1>1, PTL DEF Spec

(* Every variable keeps its type. *)
THEOREM TypeCorrect == Spec => []TypeOK
BY Inductive, PTL DEF IInv

(* No two registrations overlap, whatever posters, restarts and failures   *)
(* interleave (auth.go 71-89).                                             *)
THEOREM RegistrationsAreSerial == Spec => []OneRegistrationAtATime
BY Inductive, PTL DEF IInv, Control

(* A stored token belongs to a stored device id that the server knows      *)
(* (keyring_store.go Load, Save, ClearToken).                              *)
THEOREM TokensAreIdentified == Spec => []TokenHasIdentity
BY Inductive, PTL DEF IInv, Identity

(* The device id of state.json stays, and the agent goes by it. *)
THEOREM IdentityStays == Spec => IdentityIsStable
<1> DEFINE A == /\ file.id # None => file'.id = file.id
                /\ (file.id # None /\ deviceID' # None) => deviceID' = file.id
<1>1. IInv /\ IInv' /\ [Next]_vars => [A]_vars
  <2> SUFFICES ASSUME IInv, IInv', Next PROVE A
    OBVIOUS
  <2> USE DEF IInv, store
  <2>1. file.id # None => file'.id = file.id
    <3>1. CASE Boot
      BY <3>1, LoadKeeps DEF Boot, Tokens
    <3>2. CASE EnsureLoad
      BY <3>2, LoadKeeps DEF EnsureLoad, Tokens
    <3>3. CASE ProcessEnds \/ Revoke
      BY <3>3 DEF ProcessEnds, Revoke
    <3>4. ASSUME NEW p \in Posters, Poster(p) PROVE file' = file
      BY <3>4 DEF Poster, PostBegin, PostSend, PostAccepted, PostUnauthorized, PostLost, RecoverSkip, RecoverClear
    <3>5. ASSUME NEW p \in Procs, ServerRegisters(p) \/ RegisterLost(p) \/ RegisterAnswered(p) \/ SaveToken(p)
          PROVE  file' = file
      BY <3>5 DEF ServerRegisters, RegisterLost, RegisterAnswered, SaveToken
    <3>6. ASSUME NEW p \in Procs, SaveFile(p), file.id # None PROVE file'.id = file.id
      <4>1. deviceID # None
        BY <3>6, RegisteringIsNamed DEF SaveFile, Registering
      <4>2. deviceID = file.id
        BY <3>6, <4>1 DEF Identity
      <4> QED
        BY <3>6, <4>2 DEF SaveFile
    <3> QED
      BY <3>1, <3>2, <3>3, <3>4, <3>5, <3>6 DEF Next, RegisterLocked
  <2>2. file'.id # None /\ deviceID' # None => deviceID' = file'.id
    BY DEF Identity
  <2> QED
    BY <2>1, <2>2
<1> QED
  BY <1>1, Inductive, PTL DEF Spec, IdentityIsStable

(* Recovery never throws away a token the server accepts (auth.go 71-89). *)
THEOREM GoodTokensAreKept == Spec => OnlyRejectedTokensAreCleared
<1> DEFINE A == \A p \in Posters : RecoverClear(p) /\ token # None => token \notin valid
<1>1. IInv => A
  BY DEF IInv, Refused, RecoverClear, AlreadyRecovered, TypeOK
<1> QED
  BY <1>1, Inductive, PTL DEF Spec, OnlyRejectedTokensAreCleared

=============================================================================
