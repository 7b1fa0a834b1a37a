---------------------------- MODULE SessionProofs ----------------------------
(***************************************************************************)
(* Proofs about SessionLifecycle for any number of clients, handlers and   *)
(* dialers, all requests and all faults.  The last two theorems exclude,   *)
(* in their hypotheses, what breaks their properties.                      *)
(***************************************************************************)
EXTENDS SessionLifecycle, TLAPS

Phones == {Empty, "phone"}
Codes == {Empty, "qr", "pairing"}
Ids == Clients \cup {NoClient}
Live == {"connecting", "connected", "reconnecting", "disconnected", "logged_out", "failed"}

RowType == [status : Live \cup {"none"}, phone : Phones, jid : Ids, code : Codes, expiry : BOOLEAN]
ClType == [used : BOOLEAN, device : Ids, sock : {"off", "open", "auth"}, loggedIn : BOOLEAN,
           auto : BOOLEAN, phone : Phones, loaded : BOOLEAN]
QrType == [pc : {"idle", "loop", "code", "write", "expiry", "fail"},
           item : {Empty, "code", "timeout"}, open : BOOLEAN]
EvType == {"PairSuccess", "Identified", "Connected", "LoggedIn", "Disconnected", "LoggedOut"} \X Phones
DialType == [pc : {"idle", "dial", "fail"}, client : Ids, phone : Phones]
Places == {"idle", "insert", "register", "start", "createFailed", "action", "get", "check",
           "close", "logout", "forget", "forgetFailed", "reread", "loggedOut", "deleteRow"}
ReqType == [pc : Places, op : OpKinds, phone : Phones, jid : Ids, client : Ids]

TypeOK ==
  /\ up \in BOOLEAN /\ history \in BOOLEAN /\ devices \in SUBSET Clients /\ current \in Ids
  /\ row \in RowType /\ cl \in [Clients -> ClType] /\ qr \in [Clients -> QrType]
  /\ ev \in [Clients -> SUBSET EvType] /\ dial \in [Dialers -> DialType]
  /\ req \in [Requests -> ReqType] /\ stale \in [Clients -> Nat]

\* Only a client that was created does anything, and it has a device.
ClientsOwned ==
  \A c \in Clients :
    /\ cl[c].used => cl[c].device \in Clients
    /\ cl[c].sock # "off" \/ cl[c].auto \/ ev[c] # {} \/ qr[c].pc # "idle" => cl[c].used

\* So is every client that a goroutine works for.
DialsOwned ==
  \A d \in Dialers : dial[d].pc # "idle" => dial[d].client \in Clients /\ cl[dial[d].client].used
HandlersOwned ==
  \A r \in Requests :
    /\ req[r].pc \in {"start", "check"} => req[r].client \in Clients /\ cl[req[r].client].used
    /\ req[r].pc = "action" => req[r].op \in {"reconnect", "disconnect", "logout"}

\* The map holds created clients, and nothing runs in a process that is down.
MapOwned ==
  /\ current # NoClient => current \in Clients /\ cl[current].used
  /\ ~up => current = NoClient /\ \A r \in Requests : req[r].pc = "idle"

Owned == ClientsOwned /\ DialsOwned /\ HandlersOwned /\ MapOwned

RowInv == (row.status = "none" => row.jid = NoClient) /\ HistoryKept

\* Places of a QR loop that has written its item
Past == {"idle", "loop"}

\* A client that has written after its replacement never becomes current
\* again: all its loop may still write is the expiry of the same code.
StaleInv ==
  \A c \in Clients :
    \/ stale[c] = 0
    \/ /\ current # c /\ cl[c].used
       /\ \/ stale[c] \in {1, 2} /\ qr[c].pc \in Past
          \/ stale[c] = 1 /\ qr[c].pc = "expiry"

SessionInv == TypeOK /\ Owned /\ RowInv /\ StaleInv

----------------------------------------------------------------------------
LEMMA IdFacts == NoClient \in Ids /\ NoClient \notin Clients /\ Clients \subseteq Ids /\ AskedPhone \in Phones
  BY SMTT(60), SessionAssumption DEF Ids, NoClient, Clients, AskedPhone, Phones

LEMMA EmptyFacts ==
  /\ Empty \in Phones /\ "phone" \in Phones /\ {Empty, "qr", "pairing"} \subseteq Codes
  /\ Empty \notin {"phone", "qr", "pairing", "code", "timeout"}
  BY Zenon DEF Empty, Phones, Codes

LEMMA EmitTypes ==
  ASSUME NEW c \in Clients, NEW name \in {"PairSuccess", "Connected", "Disconnected", "LoggedOut"},
         ev \in [Clients -> SUBSET EvType], Emit(c, name)
  PROVE  ev' \in [Clients -> SUBSET EvType]
<1>1. <<name, Empty>> \in EvType
  BY Zenon, EmptyFacts DEF EvType
<1> QED
  BY Zenon, <1>1 DEF Emit

LEMMA PairedBoolean == \A c : Paired(c) \in BOOLEAN
  BY SMTT(60) DEF Paired

LEMMA IdleTypes ==
  /\ NoRow \in RowType /\ Unused \in ClType /\ IdleQr \in QrType
  /\ IdleDial \in DialType /\ IdleReq \in ReqType
<1>1. NoClient \in Ids
  BY Zenon, IdFacts
<1>2. "create" \in OpKinds
  BY Zenon DEF OpKinds
<1> QED
  BY Zenon, <1>1, <1>2, EmptyFacts
     DEF NoRow, Unused, IdleQr, IdleDial, IdleReq, RowType, ClType, QrType, DialType, ReqType, Places

LEMMA GoTypes ==
  ASSUME TypeOK, NEW r \in Requests, NEW pc0 \in Places, Go(r, pc0) \/ Done(r)
  PROVE  req' \in [Requests -> ReqType]
  BY SMTT(60), IdleTypes DEF TypeOK, Go, Done, ReqType

LEMMA SessionInit == Init => SessionInv
<1> SUFFICES ASSUME Init PROVE SessionInv
  BY Zenon
<1>1. TypeOK
  BY Zenon, IdleTypes, IdFacts DEF Init, TypeOK
<1>2. Owned
  BY Zenon DEF Init, Owned, ClientsOwned, DialsOwned, HandlersOwned, MapOwned, Unused, IdleQr, IdleDial, IdleReq
<1>3. RowInv
  BY Zenon DEF Init, RowInv, HistoryKept, NoRow
<1>4. StaleInv
  BY Zenon DEF Init, StaleInv
<1> QED
  BY Zenon, <1>1, <1>2, <1>3, <1>4 DEF SessionInv

(* What every write to the row does, but its deletion.                     *)
RowStep ==
  /\ row' \in RowType
  /\ row.status # "none" => row'.status # "none"
  /\ row.jid # NoClient => row'.jid # NoClient
  /\ row'.status = "none" => row' = row

LEMMA RowWrites ==
  ASSUME TypeOK, RowInv, NEW status \in Live, NEW code \in Codes, NEW phone \in Phones, NEW jid \in Ids
  PROVE  /\ UpdateSession(status, code, phone) => RowStep
         /\ PutSession(status, phone, jid) => RowStep
         /\ SetSessionQRExpiry => RowStep
         /\ SetSessionIdentity(jid) /\ jid # NoClient => RowStep
         /\ UNCHANGED row => RowStep
<1>1. row \in RowType /\ NoRow \in RowType /\ status # "none" /\ (row.status = "none" => row.jid = NoClient)
  BY Zenon, IdleTypes DEF TypeOK, RowInv, Live
<1> USE <1>1 DEF RowStep, RowType
<1>2. UpdateSession(status, code, phone) => RowStep
  BY ZenonT(60) DEF UpdateSession
<1>3. PutSession(status, phone, jid) => RowStep
  BY ZenonT(60), EmptyFacts DEF PutSession, NoRow
<1>4. SetSessionQRExpiry => RowStep
  BY ZenonT(60) DEF SetSessionQRExpiry
<1>5. SetSessionIdentity(jid) /\ jid # NoClient => RowStep
  BY ZenonT(120), EmptyFacts DEF SetSessionIdentity
<1> QED
  BY Zenon, <1>2, <1>3, <1>4, <1>5

LEMMA RowStepKeeps ==
  ASSUME RowInv, RowStep, UNCHANGED history
  PROVE  RowInv'
  BY Zenon DEF RowInv, RowStep, HistoryKept

----------------------------------------------------------------------------
(* Types, action by action; row' is typed by RowStep.                      *)

Types == up \in BOOLEAN /\ history \in BOOLEAN /\ devices \in SUBSET Clients /\ current \in Ids
  /\ cl \in [Clients -> ClType] /\ qr \in [Clients -> QrType]
  /\ ev \in [Clients -> SUBSET EvType] /\ dial \in [Dialers -> DialType]
  /\ req \in [Requests -> ReqType] /\ stale \in [Clients -> Nat]

LEMMA TypesNext == TypeOK /\ Owned /\ [Next]_vars => Types'
<1> SUFFICES ASSUME TypeOK, Owned, [Next]_vars PROVE Types'
  BY Zenon
<1> USE IdFacts, IdleTypes, EmptyFacts DEF TypeOK, Types, disk, mgr, http, obs
<1>1. ASSUME NEW c \in Clients, EmitCode(c) PROVE Types'
  BY SMTT(60), <1>1 DEF EmitCode, QrType, ClType
<1>2. ASSUME NEW c \in Clients, EmitTimeout(c) PROVE Types'
  BY SMTT(60), <1>2 DEF EmitTimeout, QrType, ClType
<1>3. ASSUME NEW c \in Clients, PairDevice(c) PROVE Types'
  <2>1. ev' \in [Clients -> SUBSET EvType]
    BY Zenon, <1>3, EmitTypes DEF PairDevice
  <2> QED
    <3>1. cl[c].device \in Clients
      BY Zenon, <1>3 DEF PairDevice, Owned, ClientsOwned
    <3> QED
      BY ZenonT(60), <1>3, <2>1, <3>1 DEF PairDevice, QrType
<1>4. ASSUME NEW c \in Clients, LogIn(c) PROVE Types'
  <2>1. ev' \in [Clients -> SUBSET EvType]
    BY Zenon, <1>4, EmitTypes DEF LogIn
  <2> QED
    BY ZenonT(60), <1>4, <2>1 DEF LogIn, ClType
<1>5. ASSUME NEW c \in Clients, Drop(c) PROVE Types'
  <2>1. ev' \in [Clients -> SUBSET EvType]
    BY Zenon, <1>5, EmitTypes DEF Drop
  <2> QED
    <3>1. PICK b \in {FALSE, cl[c].loggedIn} :
            cl' = [cl EXCEPT ![c].sock = "off", ![c].loggedIn = b, ![c].auto = Paired(c)]
      BY Zenon, <1>5 DEF Drop
    <3>2. b \in BOOLEAN /\ Paired(c) \in BOOLEAN
      <4>1. cl[c].loggedIn \in BOOLEAN
        BY Zenon DEF ClType
      <4>2. Paired(c) \in BOOLEAN
        BY Zenon, PairedBoolean
      <4> QED
        BY Zenon, <4>1, <4>2
    <3>3. cl' \in [Clients -> ClType]
      BY ZenonT(120), <3>1, <3>2 DEF ClType
    <3> QED
      BY Zenon, <1>5, <2>1, <3>3 DEF Drop
<1>6. ASSUME NEW c \in Clients, AutoReconnect(c) PROVE Types'
  BY ZenonT(60), <1>6 DEF AutoReconnect, ClType
<1>7. ASSUME NEW c \in Clients, RemoteLogout(c) PROVE Types'
  <2>1. ev' \in [Clients -> SUBSET EvType]
    BY Zenon, <1>7, EmitTypes DEF RemoteLogout
  <2> QED
    BY ZenonT(120), <1>7, <2>1 DEF RemoteLogout, ClType
<1>8. ASSUME NEW c \in Clients, NEW e \in ev[c], OnPairSuccess(c, e), UNCHANGED <<up, history, devices, current, cl, qr, dial, http, obs>> PROVE Types'
  BY SMTT(60), <1>8 DEF OnPairSuccess, Handled, EvType, ClType, RowType
<1>9. ASSUME NEW c \in Clients, NEW e \in ev[c], OnIdentified(c, e), UNCHANGED <<up, history, devices, current, cl, qr, dial, http, obs>> PROVE Types'
  BY Zenon, <1>9 DEF OnIdentified, Handled, EvType, ClType, RowType
<1>10. ASSUME NEW c \in Clients, NEW e \in ev[c], OnConnected(c, e), UNCHANGED <<up, history, devices, current, cl, qr, dial, http, obs>> PROVE Types'
  BY SMTT(60), <1>10 DEF OnConnected, Handled, EvType, ClType, RowType
<1>11. ASSUME NEW c \in Clients, NEW e \in ev[c], OnLoggedIn(c, e), UNCHANGED <<up, history, devices, current, cl, qr, dial, http, obs>> PROVE Types'
  BY Zenon, <1>11 DEF OnLoggedIn, Handled, EvType, ClType, RowType
<1>12. ASSUME NEW c \in Clients, NEW e \in ev[c], OnDisconnected(c, e), UNCHANGED <<up, history, devices, current, cl, qr, dial, http, obs>> PROVE Types'
  BY Zenon, <1>12 DEF OnDisconnected, Handled, EvType, ClType, RowType
<1>13. ASSUME NEW c \in Clients, NEW e \in ev[c], OnLoggedOut(c, e), UNCHANGED <<up, history, devices, current, cl, qr, dial, http, obs>> PROVE Types'
  BY Zenon, <1>13 DEF OnLoggedOut, Handled, EvType, ClType, RowType
<1>14. ASSUME NEW c \in Clients, QrItem(c) PROVE Types'
  BY SMTT(60), <1>14 DEF QrItem, QrGoto, QrType
<1>15. ASSUME NEW c \in Clients, QrClosed(c) PROVE Types'
  BY ZenonT(60), <1>15 DEF QrClosed, QrType
<1>16. ASSUME NEW c \in Clients, QrCode(c) PROVE Types'
  <2>1. \E p \in {"write", "fail", "idle"} : qr' = [qr EXCEPT ![c].pc = p]
    BY Zenon, <1>16 DEF QrCode
  <2>2. qr' \in [Clients -> QrType]
    BY SMTT(60), <2>1 DEF QrType
  <2> QED
    BY Zenon, <1>16, <2>2 DEF QrCode
<1>17. ASSUME NEW c \in Clients, QrWrite(c) PROVE Types'
  BY SMTT(60), <1>17 DEF QrWrite, Stale, QrType
<1>18. ASSUME NEW c \in Clients, QrExpiry(c) PROVE Types'
  BY SMTT(60), <1>18 DEF QrExpiry, Stale, QrType
<1>19. ASSUME NEW c \in Clients, QrFail(c) PROVE Types'
  BY SMTT(60), <1>19 DEF QrFail, Stale, QrType
<1>20. ASSUME NEW d \in Dialers, Connect(d) PROVE Types'
  <2>1. cl' \in [Clients -> ClType]
    BY SMTT(60), <1>20 DEF Connect, ClType
  <2>2. dial' \in [Dialers -> DialType]
    BY SMTT(60), <1>20 DEF Connect, DialType
  <2> QED
    BY Zenon, <1>20, <2>1, <2>2 DEF Connect
<1>21. ASSUME NEW d \in Dialers, DialFail(d) PROVE Types'
  BY Zenon, <1>21 DEF DialFail
<1>22. ASSUME NEW r \in Requests, CreateSession(r) PROVE Types'
  BY Zenon, <1>22 DEF CreateSession, ReqType, Places, IdleReq, OpKinds
<1>23. ASSUME NEW r \in Requests, InsertSession(r) PROVE Types'
  BY ZenonT(60), <1>23 DEF InsertSession, Go, ReqType, Places
<1>24. ASSUME NEW r \in Requests, RegisterClient(r) PROVE Types'
  <2>1. CASE HasClient
    BY SMTT(60), <1>24, <2>1 DEF RegisterClient, Done
  <2>2. CASE ~HasClient
    <3>1. PICK c \in Clients :
            /\ current' = c
            /\ cl' = [cl EXCEPT ![c] = [Unused EXCEPT !.used = TRUE, !.device = c, !.phone = req[r].phone]]
            /\ req' = [req EXCEPT ![r].pc = "start", ![r].client = c]
      BY Zenon, <1>24, <2>2 DEF RegisterClient
    <3>2. req[r].phone \in Phones
      BY Zenon DEF ReqType
    <3>3. [Unused EXCEPT !.used = TRUE, !.device = c, !.phone = req[r].phone] \in ClType
      BY Zenon, <3>2 DEF Unused, ClType
    <3>4. req' \in [Requests -> ReqType]
      BY ZenonT(60), <3>1 DEF ReqType, Places
    <3> QED
      BY Zenon, <1>24, <3>1, <3>3, <3>4 DEF RegisterClient
  <2> QED
    BY Zenon, <2>1, <2>2
<1>25. ASSUME NEW r \in Requests, StartClient(r) PROVE Types'
  <2>1. req' \in [Requests -> ReqType]
    BY Zenon, <1>25, GoTypes DEF StartClient, Places
  <2>2. qr' \in [Clients -> QrType]
    <3>1. [pc |-> "loop", item |-> Empty, open |-> TRUE] \in QrType
      BY Zenon DEF QrType
    <3> QED
      BY Zenon, <1>25, <3>1 DEF StartClient
  <2>3. req[r].client \in Ids /\ cl[req[r].client].phone \in Phones
    BY Zenon, <1>25 DEF StartClient, At, Owned, HandlersOwned, ReqType, Places, ClType
  <2>4. dial' \in [Dialers -> DialType]
    BY SMTT(60), <1>25, <2>3 DEF StartClient, Spawn, DialType
  <2> QED
    BY Zenon, <1>25, <2>1, <2>2, <2>4 DEF StartClient
<1>26. ASSUME NEW r \in Requests, CreateFailed(r) PROVE Types'
  BY Zenon, <1>26 DEF CreateFailed, Done
<1>27. ASSUME NEW r \in Requests, SessionAction(r) PROVE Types'
  BY SMTT(60), <1>27 DEF SessionAction, ReqType, Places, RowType, OpKinds
<1>28. ASSUME NEW r \in Requests, PutAction(r) PROVE Types'
  BY Zenon, <1>28 DEF PutAction, Go, ReqType, Places
<1>29. ASSUME NEW r \in Requests, GetClient(r) PROVE Types'
  BY SMTT(60), <1>29 DEF GetClient, Go, Done, ReqType, Places
<1>30. ASSUME NEW r \in Requests, CheckLogin(r) PROVE Types'
  <2>1. req' \in [Requests -> ReqType]
    BY Zenon, <1>30, GoTypes DEF CheckLogin, Places
  <2>2. req[r].client \in Ids
    BY Zenon DEF ReqType
  <2>3. dial' \in [Dialers -> DialType]
    BY SMTT(60), <1>30, <2>2 DEF CheckLogin, Redial, Spawn, DialType
  <2> QED
    BY Zenon, <1>30, <2>1, <2>3 DEF CheckLogin
<1>31. ASSUME NEW r \in Requests, CloseClient(r) PROVE Types'
  <2>1. cl' \in [Clients -> ClType]
    BY ZenonT(60), <1>31 DEF CloseClient, ClType
  <2>2. req' \in [Requests -> ReqType]
    BY SMTT(60), <1>31 DEF CloseClient, Go, Done, ReqType, Places
  <2> QED
    BY Zenon, <1>31, <2>1, <2>2 DEF CloseClient
<1>32. ASSUME NEW r \in Requests, LogoutClient(r) PROVE Types'
  <2>1. cl' \in [Clients -> ClType]
    BY SMTT(60), <1>32 DEF LogoutClient, ClType
  <2>2. req' \in [Requests -> ReqType]
    BY SMTT(60), <1>32 DEF LogoutClient, Go, ReqType, Places
  <2> QED
    BY Zenon, <1>32, <2>1, <2>2 DEF LogoutClient
<1>33. ASSUME NEW r \in Requests, ForgetClient(r) PROVE Types'
  BY ZenonT(60), <1>33 DEF ForgetClient, Go, ReqType, Places
<1>34. ASSUME NEW r \in Requests, ForgetLoggedOut(r) PROVE Types'
  <2>1. req' \in [Requests -> ReqType]
    BY Zenon, <1>34, GoTypes DEF ForgetLoggedOut, Places
  <2> QED
    BY Zenon, <1>34, <2>1 DEF ForgetLoggedOut
<1>35. ASSUME NEW r \in Requests, RereadSession(r) PROVE Types'
  <2>1. row.phone \in Phones
    BY Zenon DEF RowType
  <2>2. req' \in [Requests -> ReqType]
    BY SMTT(60), <1>35, <2>1 DEF RereadSession, Done, ReqType, Places
  <2> QED
    BY Zenon, <1>35, <2>2 DEF RereadSession
<1>36. ASSUME NEW r \in Requests, PutLoggedOut(r) PROVE Types'
  BY Zenon, <1>36 DEF PutLoggedOut, Done
<1>37. ASSUME NEW r \in Requests, DeleteCheck(r) PROVE Types'
  BY Zenon, <1>37 DEF DeleteCheck, ReqType, Places, IdleReq, OpKinds
<1>38. ASSUME NEW r \in Requests, DeleteRow(r) PROVE Types'
  BY Zenon, <1>38 DEF DeleteRow, Done
<1>39. CASE StoreMessage
  BY Zenon, <1>39 DEF StoreMessage
<1>40. CASE Crash
  BY ZenonT(60), <1>40 DEF Crash, ClType
<1>41. CASE Load
  <2>1. CASE ~Restorable
    BY Zenon, <1>41, <2>1 DEF Load
  <2>2. CASE Restorable
    <3>1. row.jid \in Ids /\ row.phone \in Phones
      BY Zenon DEF RowType
    <3>2. PICK c \in Clients :
            /\ current' = c
            /\ cl' = [cl EXCEPT ![c] = [Unused EXCEPT !.used = TRUE, !.loaded = TRUE,
                         !.device = row.jid, !.phone = row.phone]]
            /\ Spawn(c, row.phone)
      BY Zenon, <1>41, <2>2 DEF Load
    <3>3. [Unused EXCEPT !.used = TRUE, !.loaded = TRUE, !.device = row.jid, !.phone = row.phone] \in ClType
      BY Zenon, <3>1 DEF Unused, ClType
    <3>4. dial' \in [Dialers -> DialType]
      BY SMTT(60), <3>1, <3>2 DEF Spawn, DialType
    <3> QED
      BY Zenon, <1>41, <3>2, <3>3, <3>4 DEF Load
  <2> QED
    BY Zenon, <2>1, <2>2
<1>42. CASE UNCHANGED vars
  BY Zenon, <1>42 DEF vars
<1> QED
  BY Zenon, <1>1, <1>2, <1>3, <1>4, <1>5, <1>6, <1>7, <1>8, <1>9, <1>10, <1>11, <1>12, <1>13, <1>14, <1>15, <1>16, <1>17, <1>18, <1>19, <1>20, <1>21, <1>22, <1>23, <1>24, <1>25, <1>26, <1>27, <1>28, <1>29, <1>30, <1>31, <1>32, <1>33, <1>34, <1>35, <1>36, <1>37, <1>38, <1>39, <1>40, <1>41, <1>42
     DEF Next, Library, HandleEvent, QrStep, HandlerStep

----------------------------------------------------------------------------
LEMMA OwnedNext == TypeOK /\ Owned /\ [Next]_vars => Owned'
<1> SUFFICES ASSUME TypeOK, Owned, [Next]_vars PROVE Owned'
  BY Zenon
<1> USE IdFacts, IdleTypes, EmptyFacts
    DEF TypeOK, Owned, ClientsOwned, DialsOwned, HandlersOwned, MapOwned, disk, mgr, http
<1>1. ASSUME NEW c \in Clients, EmitCode(c) PROVE Owned'
  BY SMTT(60), <1>1 DEF EmitCode, QrType, ClType
<1>2. ASSUME NEW c \in Clients, EmitTimeout(c) PROVE Owned'
  BY SMTT(60), <1>2 DEF EmitTimeout, QrType, ClType
<1>3. ASSUME NEW c \in Clients, PairDevice(c) PROVE Owned'
  BY SMTT(60), <1>3 DEF PairDevice, Emit, QrType
<1>4. ASSUME NEW c \in Clients, LogIn(c) PROVE Owned'
  <2>1. cl[c].used /\ cl'[c].used /\ cl'[c].device = cl[c].device
    BY SMTT(60), <1>4 DEF LogIn, ClType
  <2>2. \A b \in Clients \ {c} : cl'[b] = cl[b] /\ ev'[b] = ev[b]
    BY Zenon, <1>4 DEF LogIn, Emit
  <2>3. UNCHANGED <<up, current, qr, dial, req>>
    BY Zenon, <1>4 DEF LogIn
  <2> QED
    BY ZenonT(60), <2>1, <2>2, <2>3
<1>5. ASSUME NEW c \in Clients, Drop(c) PROVE Owned'
  <2>1. cl[c].used /\ cl'[c].used /\ cl'[c].device = cl[c].device
    BY SMTT(60), <1>5 DEF Drop, ClType
  <2>2. \A b \in Clients \ {c} : cl'[b] = cl[b] /\ ev'[b] = ev[b]
    BY Zenon, <1>5 DEF Drop, Emit
  <2>3. UNCHANGED <<up, current, qr, dial, req>>
    BY Zenon, <1>5 DEF Drop
  <2> QED
    BY ZenonT(60), <2>1, <2>2, <2>3
<1>6. ASSUME NEW c \in Clients, AutoReconnect(c) PROVE Owned'
  BY SMTT(60), <1>6 DEF AutoReconnect, ClType
<1>7. ASSUME NEW c \in Clients, RemoteLogout(c) PROVE Owned'
  <2>1. cl[c].used /\ cl'[c].used /\ cl'[c].device = cl[c].device
    BY SMTT(60), <1>7 DEF RemoteLogout, ClType
  <2>2. \A b \in Clients \ {c} : cl'[b] = cl[b] /\ ev'[b] = ev[b]
    BY Zenon, <1>7 DEF RemoteLogout, Emit
  <2>3. UNCHANGED <<up, current, qr, dial, req>>
    BY Zenon, <1>7 DEF RemoteLogout
  <2> QED
    BY Zenon, <2>1, <2>2, <2>3
<1>8. ASSUME NEW c \in Clients, HandleEvent(c) PROVE Owned'
  BY ZenonT(60), <1>8 DEF HandleEvent, OnPairSuccess, OnIdentified, OnConnected, OnLoggedIn, OnDisconnected,
       OnLoggedOut, Handled
<1>9. ASSUME NEW c \in Clients, QrItem(c) PROVE Owned'
  BY Zenon, <1>9 DEF QrItem, QrGoto, QrType
<1>10. ASSUME NEW c \in Clients, QrClosed(c) PROVE Owned'
  BY Zenon, <1>10 DEF QrClosed, QrType
<1>11. ASSUME NEW c \in Clients, QrCode(c) PROVE Owned'
  BY ZenonT(60), <1>11 DEF QrCode, QrType
<1>12. ASSUME NEW c \in Clients, QrWrite(c) PROVE Owned'
  BY Zenon, <1>12 DEF QrWrite, QrType
<1>13. ASSUME NEW c \in Clients, QrExpiry(c) PROVE Owned'
  BY Zenon, <1>13 DEF QrExpiry, QrType
<1>14. ASSUME NEW c \in Clients, QrFail(c) PROVE Owned'
  BY Zenon, <1>14 DEF QrFail, QrType
<1>15. ASSUME NEW d \in Dialers, Connect(d) PROVE Owned'
  <2>1. dial[d].client \in Clients /\ cl[dial[d].client].used
    BY Zenon, <1>15 DEF Connect
  <2>2. \A b \in Clients : /\ (cl[b].used <=> cl'[b].used) /\ cl'[b].device = cl[b].device
                           /\ b # dial[d].client => cl'[b] = cl[b]
    BY SMTT(60), <1>15, <2>1 DEF Connect, ClType
  <2>3. \A e \in Dialers : dial'[e].pc # "idle" => dial[e].pc # "idle" /\ dial'[e].client = dial[e].client
    BY SMTT(60), <1>15 DEF Connect, IdleDial, DialType
  <2> QED
    <3>1. UNCHANGED <<up, current, qr, ev, req>>
      BY Zenon, <1>15 DEF Connect
    <3>2. ClientsOwned'
      BY Zenon, <2>1, <2>2, <3>1
    <3>3. DialsOwned'
      BY Zenon, <2>2, <2>3
    <3>4. HandlersOwned' /\ MapOwned'
      BY Zenon, <2>2, <3>1
    <3> QED
      BY Zenon, <3>2, <3>3, <3>4
<1>16. ASSUME NEW d \in Dialers, DialFail(d) PROVE Owned'
  BY Zenon, <1>16 DEF DialFail, IdleDial
<1>17. ASSUME NEW r \in Requests, CreateSession(r) PROVE Owned'
  BY ZenonT(60), <1>17 DEF CreateSession, IdleReq
<1>18. ASSUME NEW r \in Requests, InsertSession(r) PROVE Owned'
  BY ZenonT(60), <1>18 DEF InsertSession, Go, At, ReqType
<1>19. ASSUME NEW r \in Requests, RegisterClient(r) PROVE Owned'
  <2>1. CASE HasClient
    BY SMTT(60), <1>19, <2>1 DEF RegisterClient, Done, At, IdleReq
  <2>2. CASE ~HasClient
    <3>1. PICK c \in Clients :
            /\ Unborn(c)
            /\ current' = c
            /\ cl' = [cl EXCEPT ![c] = [Unused EXCEPT !.used = TRUE, !.device = c, !.phone = req[r].phone]]
            /\ req' = [req EXCEPT ![r].pc = "start", ![r].client = c]
      BY Zenon, <1>19, <2>2 DEF RegisterClient
    <3>2. /\ cl'[c].used /\ cl'[c].device = c /\ cl'[c].sock = "off" /\ ~cl'[c].auto /\ ~cl[c].used
          /\ \A b \in Clients \ {c} : cl'[b] = cl[b]
      BY Zenon, <3>1 DEF Unused, Unborn
    <3>3. /\ req'[r].pc = "start" /\ req'[r].client = c /\ req[r].pc # "idle"
          /\ \A q \in Requests \ {r} : req'[q] = req[q]
      BY ZenonT(60), <1>19, <3>1 DEF RegisterClient, At, ReqType
    <3>4. UNCHANGED <<up, qr, ev, dial>>
      BY Zenon, <1>19 DEF RegisterClient
    <3> QED
      BY SMTT(60), <3>1, <3>2, <3>3, <3>4
  <2> QED
    BY Zenon, <2>1, <2>2
<1>20. ASSUME NEW r \in Requests, StartClient(r) PROVE Owned'
  <2> DEFINE c == req[r].client
  <2>1. c \in Clients /\ cl[c].used /\ up
    BY Zenon, <1>20 DEF StartClient, At
  <2>2. UNCHANGED <<up, current, cl, ev>> /\ \A b \in Clients \ {c} : qr'[b] = qr[b]
    BY Zenon, <1>20 DEF StartClient
  <2>3. \A e \in Dialers : dial'[e] = dial[e] \/ dial'[e].client = c
    BY SMTT(60), <1>20 DEF StartClient, Spawn
  <2>4. /\ req'[r].pc \in {"idle", "createFailed"} /\ \A q \in Requests \ {r} : req'[q] = req[q]
    BY SMTT(60), <1>20 DEF StartClient, Go, Done, IdleReq, ReqType
  <2> QED
    BY ZenonT(60), <2>1, <2>2, <2>3, <2>4
<1>21. ASSUME NEW r \in Requests, CreateFailed(r) PROVE Owned'
  BY Zenon, <1>21 DEF CreateFailed, Done, At, IdleReq
<1>22. ASSUME NEW r \in Requests, SessionAction(r) PROVE Owned'
  BY SMTT(60), <1>22 DEF SessionAction
<1>23. ASSUME NEW r \in Requests, PutAction(r) PROVE Owned'
  BY ZenonT(60), <1>23 DEF PutAction, Go, Done, At, ReqType, IdleReq
<1>24. ASSUME NEW r \in Requests, GetClient(r) PROVE Owned'
  <2>1. /\ req'[r].pc \in {"check", "close", "logout", "reread", "deleteRow", "idle"} /\ up
        /\ req'[r].pc = "check" => req'[r].client = current /\ current # NoClient
        /\ \A q \in Requests \ {r} : req'[q] = req[q]
    BY SMTT(60), <1>24 DEF GetClient, Go, Done, At, IdleReq, ReqType
  <2>2. UNCHANGED <<up, cl, qr, ev, dial>> /\ current' \in {current, NoClient}
    BY Zenon, <1>24 DEF GetClient
  <2> QED
    BY ZenonT(60), <2>1, <2>2
<1>25. ASSUME NEW r \in Requests, ForgetClient(r) PROVE Owned'
  BY ZenonT(60), <1>25 DEF ForgetClient, Go, Done, At, ReqType, IdleReq
<1>26. ASSUME NEW r \in Requests, ForgetLoggedOut(r) PROVE Owned'
  <2>1. /\ req'[r].pc \in {"deleteRow", "loggedOut", "idle"} /\ up
        /\ \A q \in Requests \ {r} : req'[q] = req[q]
    BY SMTT(60), <1>26 DEF ForgetLoggedOut, Go, Done, At, IdleReq, ReqType
  <2>2. UNCHANGED <<up, cl, qr, ev, dial>> /\ current' \in {current, NoClient}
    BY Zenon, <1>26 DEF ForgetLoggedOut
  <2> QED
    BY Zenon, <2>1, <2>2
<1>27. ASSUME NEW r \in Requests, RereadSession(r) PROVE Owned'
  <2>1. /\ req'[r].pc \in {"register", "idle"} /\ up
        /\ \A q \in Requests \ {r} : req'[q] = req[q]
    BY SMTT(60), <1>27 DEF RereadSession, Go, Done, At, IdleReq, ReqType
  <2>2. UNCHANGED <<up, cl, qr, ev, dial>> /\ current' \in {current, NoClient}
    BY Zenon, <1>27 DEF RereadSession
  <2> QED
    BY ZenonT(60), <2>1, <2>2
<1>28. ASSUME NEW r \in Requests, PutLoggedOut(r) PROVE Owned'
  BY Zenon, <1>28 DEF PutLoggedOut, Go, Done, At, ReqType, IdleReq
<1>29. ASSUME NEW r \in Requests, DeleteRow(r) PROVE Owned'
  BY ZenonT(60), <1>29 DEF DeleteRow, Go, Done, At, ReqType, IdleReq
<1>30. ASSUME NEW r \in Requests, CheckLogin(r) PROVE Owned'
  <2>1. UNCHANGED <<up, current, cl, qr, ev>> /\ up
    BY Zenon, <1>30 DEF CheckLogin, At
  <2>2. /\ req'[r].pc \in {"idle", "close"} /\ \A q \in Requests \ {r} : req'[q] = req[q]
    BY SMTT(60), <1>30 DEF CheckLogin, Go, Done, IdleReq, ReqType
  <2>3. \A e \in Dialers : dial'[e] = dial[e] \/ dial'[e].client = req[r].client
    BY SMTT(60), <1>30 DEF CheckLogin, Redial, Spawn
  <2>4. req[r].client \in Clients /\ cl[req[r].client].used
    BY Zenon, <1>30 DEF CheckLogin, At
  <2> QED
    BY SMTT(60), <2>1, <2>2, <2>3, <2>4
<1>31. ASSUME NEW r \in Requests, CloseClient(r) PROVE Owned'
  <2>1. \A b \in Clients : /\ (cl[b].used <=> cl'[b].used) /\ cl'[b].device = cl[b].device
                           /\ cl'[b].auto => cl[b].auto
                           /\ cl'[b].sock # "off" => cl[b].sock # "off"
    BY SMTT(60), <1>31 DEF CloseClient, ClType
  <2>2. /\ req'[r].pc \in {"idle", "forget", "forgetFailed"} /\ up
        /\ \A q \in Requests \ {r} : req'[q] = req[q]
    BY SMTT(60), <1>31 DEF CloseClient, Go, Done, At, IdleReq, ReqType
  <2>3. UNCHANGED <<up, current, qr, ev, dial>>
    BY Zenon, <1>31 DEF CloseClient
  <2>4. ClientsOwned' /\ DialsOwned'
    BY Zenon, <2>1, <2>3
  <2>5. HandlersOwned' /\ MapOwned'
    BY Zenon, <2>1, <2>2, <2>3
  <2> QED
    BY Zenon, <2>4, <2>5
<1>32. ASSUME NEW r \in Requests, LogoutClient(r) PROVE Owned'
  <2>1. \A b \in Clients : /\ (cl[b].used <=> cl'[b].used) /\ cl'[b].device = cl[b].device
                           /\ cl'[b].auto => cl[b].auto
                           /\ cl'[b].sock # "off" => cl[b].sock # "off"
    BY SMTT(60), <1>32 DEF LogoutClient, ClType
  <2>2. /\ req'[r].pc \in {"idle", "forget", "forgetFailed"} /\ up
        /\ \A q \in Requests \ {r} : req'[q] = req[q]
    BY SMTT(60), <1>32 DEF LogoutClient, Go, Done, At, IdleReq, ReqType
  <2>3. UNCHANGED <<up, current, qr, ev, dial>>
    BY Zenon, <1>32 DEF LogoutClient
  <2>4. ClientsOwned' /\ DialsOwned'
    BY Zenon, <2>1, <2>3
  <2>5. HandlersOwned' /\ MapOwned'
    BY Zenon, <2>1, <2>2, <2>3
  <2> QED
    BY Zenon, <2>4, <2>5
<1>33. ASSUME NEW r \in Requests, DeleteCheck(r) PROVE Owned'
  BY ZenonT(60), <1>33 DEF DeleteCheck, IdleReq
<1>34. CASE StoreMessage
  BY Zenon, <1>34 DEF StoreMessage
<1>35. CASE Crash
  <2>1. \A b \in Clients : /\ (cl[b].used <=> cl'[b].used) /\ cl'[b].device = cl[b].device
                           /\ ~cl'[b].auto /\ cl'[b].sock = "off"
    <3> TAKE b \in Clients
    <3>1. cl'[b] = [cl[b] EXCEPT !.sock = "off", !.auto = FALSE] /\ cl[b] \in ClType
      BY Zenon, <1>35 DEF Crash
    <3> QED
      BY Zenon, <3>1 DEF ClType
  <2>2. /\ \A b \in Clients : qr'[b].pc = "idle" /\ ev'[b] = {}
        /\ \A e \in Dialers : dial'[e].pc = "idle"
        /\ \A q \in Requests : req'[q].pc = "idle"
    BY Zenon, <1>35 DEF Crash, IdleQr, IdleDial, IdleReq
  <2>3. current' = NoClient
    BY Zenon, <1>35 DEF Crash
  <2> QED
    BY Zenon, <2>1, <2>2, <2>3
<1>36. CASE Load
  <2>1. CASE ~Restorable
    BY Zenon, <1>36, <2>1 DEF Load
  <2>2. CASE Restorable
    <3>1. row.jid \in Clients
      BY Zenon, <2>2 DEF Restorable, ListSessions
    <3>2. PICK c \in Clients :
            /\ Unborn(c)
            /\ current' = c
            /\ cl' = [cl EXCEPT ![c] = [Unused EXCEPT !.used = TRUE, !.loaded = TRUE,
                         !.device = row.jid, !.phone = row.phone]]
            /\ Spawn(c, row.phone)
      BY Zenon, <1>36, <2>2 DEF Load
    <3>3. /\ cl'[c].used /\ cl'[c].device = row.jid /\ cl'[c].sock = "off" /\ ~cl'[c].auto /\ ~cl[c].used
          /\ \A b \in Clients \ {c} : cl'[b] = cl[b]
      BY Zenon, <3>2 DEF Unused, Unborn
    <3>4. \A e \in Dialers : dial'[e] = dial[e] \/ dial'[e].client = c
      BY SMTT(60), <3>2 DEF Spawn
    <3>5. UNCHANGED <<qr, ev, req>> /\ up'
      BY Zenon, <1>36 DEF Load
    <3> QED
      BY SMTT(60), <3>1, <3>2, <3>3, <3>4, <3>5
  <2> QED
    BY Zenon, <2>1, <2>2
<1>37. CASE UNCHANGED vars
  BY Zenon, <1>37 DEF vars
<1> QED
  BY ZenonT(60), <1>1, <1>2, <1>3, <1>4, <1>5, <1>6, <1>7, <1>8, <1>9, <1>10, <1>11, <1>12, <1>13, <1>14, <1>15, <1>16, <1>17, <1>18, <1>19, <1>20, <1>21, <1>22, <1>23, <1>24, <1>25, <1>26, <1>27, <1>28, <1>29, <1>30, <1>31, <1>32, <1>33, <1>34, <1>35, <1>36, <1>37
     DEF Next, Library, QrStep, HandlerStep

----------------------------------------------------------------------------
(* What a step may do to the map, the clients and their QR loops.          *)
WritesRow ==
  \/ StoreMessage
  \/ \E c \in Clients : HandleEvent(c) \/ QrWrite(c) \/ QrExpiry(c) \/ QrFail(c)
  \/ \E d \in Dialers : DialFail(d)
  \/ \E r \in Requests : InsertSession(r) \/ CreateFailed(r) \/ PutAction(r) \/ PutLoggedOut(r) \/ DeleteRow(r)

Moves ==
  /\ \A c \in Clients : cl[c].used => cl'[c].used
  /\ \/ current' \in {current, NoClient}
     \/ current = NoClient /\ current' \in Clients /\ ~cl[current'].used
  /\ \/ /\ UNCHANGED stale
        /\ \A c \in Clients : qr'[c].pc \in Past \/ qr'[c].pc = qr[c].pc \/ current = c
     \/ \E c \in Clients : QrWrite(c) \/ QrExpiry(c) \/ QrFail(c)
  /\ UNCHANGED <<row, history>> \/ WritesRow

LEMMA MovesNext == TypeOK /\ Owned /\ [Next]_vars => Moves
<1> SUFFICES ASSUME TypeOK, Owned, [Next]_vars PROVE Moves
  BY Zenon
<1> USE DEF TypeOK, Moves, Past, disk, mgr, http, obs
<1>1. ASSUME NEW c \in Clients, EmitCode(c) PROVE Moves
  BY ZenonT(60), <1>1 DEF EmitCode, QrType, ClType
<1>2. ASSUME NEW c \in Clients, EmitTimeout(c) PROVE Moves
  BY SMTT(60), <1>2 DEF EmitTimeout, QrType, ClType
<1>3. ASSUME NEW c \in Clients, PairDevice(c) PROVE Moves
  BY Zenon, <1>3 DEF PairDevice, QrType
<1>4. ASSUME NEW c \in Clients, LogIn(c) PROVE Moves
  BY Zenon, <1>4 DEF LogIn, ClType
<1>5. ASSUME NEW c \in Clients, Drop(c) PROVE Moves
  BY SMTT(60), <1>5 DEF Drop, ClType
<1>6. ASSUME NEW c \in Clients, AutoReconnect(c) PROVE Moves
  BY Zenon, <1>6 DEF AutoReconnect, ClType
<1>7. ASSUME NEW c \in Clients, RemoteLogout(c) PROVE Moves
  BY Zenon, <1>7 DEF RemoteLogout, ClType
<1>8. ASSUME NEW c \in Clients, HandleEvent(c) PROVE Moves
  BY Zenon, <1>8 DEF HandleEvent, WritesRow
<1>9. ASSUME NEW c \in Clients, QrItem(c) PROVE Moves
  BY Zenon, <1>9 DEF QrItem, QrGoto, IsCurrentClient, QrType
<1>10. ASSUME NEW c \in Clients, QrClosed(c) PROVE Moves
  BY Zenon, <1>10 DEF QrClosed, IsCurrentClient, QrType
<1>11. ASSUME NEW c \in Clients, QrCode(c) PROVE Moves
  BY SMTT(60), <1>11 DEF QrCode, IsCurrentClient, QrType
<1>12. ASSUME NEW c \in Clients, QrWrite(c) PROVE Moves
  BY Zenon, <1>12 DEF QrWrite, QrType, WritesRow
<1>13. ASSUME NEW c \in Clients, QrExpiry(c) PROVE Moves
  BY Zenon, <1>13 DEF QrExpiry, QrType, WritesRow
<1>14. ASSUME NEW c \in Clients, QrFail(c) PROVE Moves
  BY Zenon, <1>14 DEF QrFail, QrType, WritesRow
<1>15. ASSUME NEW d \in Dialers, Connect(d) PROVE Moves
  <2>1. dial[d].client \in Clients
    BY Zenon, <1>15 DEF Connect, Owned, DialsOwned
  <2>2. \A c \in Clients : cl[c].used => cl'[c].used
    BY SMTT(60), <1>15, <2>1 DEF Connect, ClType
  <2> QED
    BY Zenon, <1>15, <2>2 DEF Connect
<1>16. ASSUME NEW d \in Dialers, DialFail(d) PROVE Moves
  BY Zenon, <1>16 DEF DialFail, WritesRow
<1>17. ASSUME NEW r \in Requests, CreateSession(r) PROVE Moves
  BY Zenon, <1>17 DEF CreateSession
<1>18. ASSUME NEW r \in Requests, RegisterClient(r) PROVE Moves
  BY Zenon, <1>18 DEF RegisterClient, HasClient, Unborn, Unused
<1>19. ASSUME NEW r \in Requests, StartClient(r) PROVE Moves
  BY SMTT(60), <1>19 DEF StartClient, QrType
<1>20. ASSUME NEW r \in Requests, InsertSession(r) PROVE Moves
  BY Zenon, <1>20 DEF InsertSession, WritesRow
<1>21. ASSUME NEW r \in Requests, CreateFailed(r) PROVE Moves
  BY Zenon, <1>21 DEF CreateFailed, WritesRow
<1>22. ASSUME NEW r \in Requests, PutAction(r) PROVE Moves
  BY Zenon, <1>22 DEF PutAction, WritesRow
<1>23. ASSUME NEW r \in Requests, PutLoggedOut(r) PROVE Moves
  BY Zenon, <1>23 DEF PutLoggedOut, WritesRow
<1>24. ASSUME NEW r \in Requests, DeleteRow(r) PROVE Moves
  BY Zenon, <1>24 DEF DeleteRow, WritesRow
<1>25. ASSUME NEW r \in Requests, SessionAction(r) PROVE Moves
  BY Zenon, <1>25 DEF SessionAction
<1>26. ASSUME NEW r \in Requests, GetClient(r) PROVE Moves
  BY Zenon, <1>26 DEF GetClient
<1>27. ASSUME NEW r \in Requests, CheckLogin(r) PROVE Moves
  BY Zenon, <1>27 DEF CheckLogin
<1>28. ASSUME NEW r \in Requests, ForgetClient(r) PROVE Moves
  BY Zenon, <1>28 DEF ForgetClient
<1>29. ASSUME NEW r \in Requests, ForgetLoggedOut(r) PROVE Moves
  BY Zenon, <1>29 DEF ForgetLoggedOut
<1>30. ASSUME NEW r \in Requests, RereadSession(r) PROVE Moves
  BY Zenon, <1>30 DEF RereadSession
<1>31. ASSUME NEW r \in Requests, DeleteCheck(r) PROVE Moves
  BY Zenon, <1>31 DEF DeleteCheck
<1>32. ASSUME NEW r \in Requests, CloseClient(r) PROVE Moves
  BY Zenon, <1>32 DEF CloseClient, ClType
<1>33. ASSUME NEW r \in Requests, LogoutClient(r) PROVE Moves
  BY SMTT(60), <1>33 DEF LogoutClient, ClType
<1>34. CASE StoreMessage
  BY Zenon, <1>34 DEF StoreMessage, WritesRow
<1>35. CASE Crash
  BY Zenon, <1>35 DEF Crash, ClType, IdleQr
<1>36. CASE Load
  BY Zenon, <1>36 DEF Load, Unborn, Unused, Owned, MapOwned
<1>37. CASE UNCHANGED vars
  BY Zenon, <1>37 DEF vars
<1> QED
  BY ZenonT(60), <1>1, <1>2, <1>3, <1>4, <1>5, <1>6, <1>7, <1>8, <1>9, <1>10, <1>11, <1>12, <1>13, <1>14, <1>15, <1>16, <1>17, <1>18, <1>19, <1>20, <1>21, <1>22, <1>23, <1>24, <1>25, <1>26, <1>27, <1>28, <1>29, <1>30, <1>31, <1>32, <1>33, <1>34, <1>35, <1>36, <1>37
     DEF Next, Library, QrStep, HandlerStep

LEMMA StaleNext ==
  ASSUME TypeOK, Owned, StaleInv, Moves
  PROVE  StaleInv'
<1>1. CASE /\ UNCHANGED stale
           /\ \A c \in Clients : qr'[c].pc \in Past \/ qr'[c].pc = qr[c].pc \/ current = c
  BY Zenon, <1>1, IdFacts DEF StaleInv, Moves, Past
<1>2. ASSUME NEW c \in Clients, QrWrite(c) \/ QrExpiry(c) \/ QrFail(c) PROVE StaleInv'
  <2>1. UNCHANGED <<current, cl>> /\ qr[c].pc \in {"write", "expiry", "fail"}
    BY Zenon, <1>2 DEF QrWrite, QrExpiry, QrFail
  <2>2. /\ stale'[c] = IF current = c THEN stale[c] ELSE stale[c] + 1
        /\ qr'[c].pc = IF qr[c].pc = "write" THEN "expiry" ELSE "loop"
        /\ \A b \in Clients \ {c} : qr'[b] = qr[b] /\ stale'[b] = stale[b]
    BY SMTT(60), <1>2 DEF QrWrite, QrExpiry, QrFail, Stale, TypeOK, QrType
  <2>3. cl[c].used /\ (stale[c] = 0 \/ (stale[c] = 1 /\ qr[c].pc = "expiry" /\ current # c))
    BY Zenon, <2>1 DEF Owned, ClientsOwned, StaleInv, Past
  <2> QED
    BY SMTT(60), <2>1, <2>2, <2>3 DEF StaleInv, Past
<1> QED
  BY Zenon, <1>1, <1>2 DEF Moves

LEMMA RowNext ==
  ASSUME TypeOK, Owned, RowInv, WritesRow
  PROVE  \/ RowStep /\ UNCHANGED history
         \/ UNCHANGED row /\ row.status # "none" /\ history' = TRUE
         \/ /\ row' = NoRow /\ history = FALSE /\ UNCHANGED history
            /\ \E r \in Requests : DeleteRow(r)
<1> USE EmptyFacts, IdFacts
<1>1. CASE StoreMessage
  BY Zenon, <1>1 DEF StoreMessage
<1>2. ASSUME NEW c \in Clients, HandleEvent(c) PROVE RowStep /\ UNCHANGED history
  <2>1. PICK e \in ev[c] : OnPairSuccess(c, e) \/ OnIdentified(c, e) \/ OnConnected(c, e)
                           \/ OnLoggedIn(c, e) \/ OnDisconnected(c, e) \/ OnLoggedOut(c, e)
    BY Zenon, <1>2 DEF HandleEvent
  <2>2. e[2] \in Phones /\ cl[c].phone \in Phones
    BY SMTT(60) DEF TypeOK, EvType, ClType
  <2>3. cl[c].device \in Clients
    BY Zenon DEF Owned, ClientsOwned
  <2>4. OnPairSuccess(c, e) => RowStep
    BY Zenon, <2>3, RowWrites DEF OnPairSuccess, Live
  <2>5. OnConnected(c, e) => RowStep
    BY Zenon, RowWrites DEF OnConnected, Live
  <2>6. OnIdentified(c, e) \/ OnLoggedIn(c, e) \/ OnDisconnected(c, e) \/ OnLoggedOut(c, e) => RowStep
    BY Zenon, <2>2, RowWrites DEF OnIdentified, OnLoggedIn, OnDisconnected, OnLoggedOut, Live
  <2> QED
    BY Zenon, <1>2, <2>1, <2>4, <2>5, <2>6 DEF HandleEvent
<1>3. ASSUME NEW c \in Clients, QrWrite(c) \/ QrExpiry(c) \/ QrFail(c) PROVE RowStep /\ UNCHANGED history
  <2>1. cl[c].phone \in Phones
    BY Zenon DEF TypeOK, ClType
  <2>2. CASE QrWrite(c)
    <3>1. (IF Pairing(c) THEN "pairing" ELSE "qr") \in Codes
      BY Zenon
    <3> QED
      BY Zenon, <2>1, <2>2, <3>1, RowWrites DEF QrWrite, Live
  <2>3. CASE QrExpiry(c) \/ QrFail(c)
    BY Zenon, <2>1, <2>3, RowWrites DEF QrExpiry, QrFail, Live
  <2> QED
    BY Zenon, <1>3, <2>2, <2>3
<1>4. ASSUME NEW d \in Dialers, DialFail(d) PROVE RowStep /\ UNCHANGED history
  <2>1. dial[d].phone \in Phones
    BY Zenon DEF TypeOK, DialType
  <2> QED
    BY Zenon, <1>4, <2>1, RowWrites DEF DialFail, Live
<1>5. ASSUME NEW r \in Requests, InsertSession(r) \/ CreateFailed(r) PROVE RowStep /\ UNCHANGED history
  BY Zenon, <1>5, RowWrites DEF InsertSession, CreateFailed, Live
<1>6. ASSUME NEW r \in Requests, PutAction(r) \/ PutLoggedOut(r) PROVE RowStep /\ UNCHANGED history
  <2>1. req[r].phone \in Phones /\ req[r].jid \in Ids
    BY Zenon DEF TypeOK, ReqType
  <2>2. CASE PutAction(r)
    <3>1. ActionStatus(req[r].op) \in Live
      BY Zenon, <2>2 DEF PutAction, At, Owned, HandlersOwned, ActionStatus, Live
    <3> QED
      BY Zenon, <2>1, <2>2, <3>1, RowWrites DEF PutAction
  <2>3. CASE PutLoggedOut(r)
    BY Zenon, <2>1, <2>3, RowWrites DEF PutLoggedOut, Live
  <2> QED
    BY Zenon, <1>6, <2>2, <2>3
<1>7. ASSUME NEW r \in Requests, DeleteRow(r)
      PROVE  \/ RowStep /\ UNCHANGED history
             \/ row' = NoRow /\ history = FALSE /\ UNCHANGED history
  <2>1. UNCHANGED row => RowStep
    BY Zenon, RowWrites DEF Live
  <2> QED
    BY Zenon, <1>7, <2>1 DEF DeleteRow, DeleteSession, TypeOK
<1> QED
  BY Zenon, <1>1, <1>2, <1>3, <1>4, <1>5, <1>6, <1>7 DEF WritesRow

LEMMA SessionNext == SessionInv /\ [Next]_vars => SessionInv'
<1> SUFFICES ASSUME SessionInv, [Next]_vars PROVE SessionInv'
  BY Zenon
<1> USE DEF SessionInv
<1>1. Moves /\ Types' /\ Owned'
  BY Zenon, MovesNext, TypesNext, OwnedNext
<1>2. StaleInv'
  BY Zenon, <1>1, StaleNext
<1>3. RowInv' /\ row' \in RowType
  <2>1. CASE UNCHANGED <<row, history>>
    BY Zenon, <2>1 DEF RowInv, HistoryKept, TypeOK
  <2>2. CASE WritesRow
    <3>1. CASE RowStep /\ UNCHANGED history
      BY Zenon, <3>1, RowStepKeeps DEF RowStep
    <3>2. CASE UNCHANGED row /\ row.status # "none" /\ history' = TRUE
      BY Zenon, <3>2 DEF RowInv, HistoryKept, TypeOK
    <3>3. CASE row' = NoRow /\ history = FALSE /\ UNCHANGED history
      BY Zenon, <3>3, IdleTypes DEF RowInv, HistoryKept, NoRow
    <3> QED
      BY Zenon, <2>2, <3>1, <3>2, <3>3, RowNext
  <2> QED
    BY Zenon, <1>1, <2>1, <2>2 DEF Moves
<1> QED
  BY Zenon, <1>1, <1>2, <1>3 DEF Types, TypeOK

LEMMA SessionInvariant == Spec => []SessionInv
  BY SessionInit, SessionNext, PTL DEF Spec

(* For any number of handlers and clients, whatever deletes race with the  *)
(* sends of its messages: a session with messages keeps its row.           *)
THEOREM HistoryAlwaysKept == Spec => []HistoryKept
  BY SessionInvariant, PTL DEF SessionInv, RowInv

(* The QR loop of a replaced client writes at most the one item that it    *)
(* had in hand, a code and its expiry, to the row of its successor.        *)
THEOREM StaleQRAlwaysOneItem == Spec => []StaleQRWritesOneItem
<1>1. SessionInv => StaleQRWritesOneItem
  BY SMTT(60) DEF SessionInv, StaleInv, StaleQRWritesOneItem
<1> QED
  BY <1>1, SessionInvariant, PTL

(* Only the deletion of its row takes an identity from a session: what     *)
(* sessionAction writes back never clears wa_jid.                          *)
THEOREM IdentityAlwaysKept == Spec => IdentityKept
<1>1. SessionInv /\ [Next]_vars => [row.jid # NoClient /\ row'.jid = NoClient => row'.status = "none"]_vars
  <2> SUFFICES ASSUME SessionInv, [Next]_vars, row.jid # NoClient, row'.jid = NoClient
               PROVE  row'.status = "none"
    BY Zenon
  <2>1. WritesRow
    BY Zenon, MovesNext DEF SessionInv, Moves
  <2>2. row' = NoRow
    BY Zenon, <2>1, RowNext DEF SessionInv, RowStep
  <2> QED
    BY SMTT(60), <2>2 DEF NoRow
<1> QED
  BY <1>1, SessionInvariant, PTL DEF Spec, IdentityKept

----------------------------------------------------------------------------
(* OnlyCreateInserts.  PutSession of sessionAction would insert a row that *)
(* was deleted after it was read; with one request at a time nothing can   *)
(* delete it in between.                                                   *)

OneRequest == \A r, s \in Requests : r = s

Acts(v) == v.pc # "idle" /\ v.op \in {"reconnect", "disconnect", "logout"}

ActsOnRow ==
  \A r \in Requests :
    /\ Acts(req[r]) => row.status # "none"
    /\ req[r].pc = "loggedOut" => req[r].op = "logout"

\* A handler keeps its operation until it answers; a new action has read a row.
Proceeds(r) ==
  \/ req'[r] = req[r] \/ req'[r].pc = "idle"
  \/ /\ req[r].pc # "idle" /\ req'[r].op = req[r].op
     /\ req'[r].pc = "loggedOut" => req[r].op = "logout"
  \/ req'[r].op \in {"create", "delete"} /\ req'[r].pc # "loggedOut"
  \/ row.status # "none" /\ UNCHANGED row /\ req'[r].pc = "action"

LEMMA GoProceeds ==
  ASSUME TypeOK, NEW r \in Requests, req[r].pc # "idle", NEW pc0,
         \/ req' = [req EXCEPT ![r] = IdleReq]
         \/ req' = [req EXCEPT ![r].pc = pc0] /\ (pc0 # "loggedOut" \/ req[r].op = "logout")
  PROVE  \A s \in Requests : Proceeds(s)
<1>1. CASE req' = [req EXCEPT ![r] = IdleReq]
  BY SMTT(60), <1>1 DEF TypeOK, IdleReq, Proceeds
<1>2. CASE req' = [req EXCEPT ![r].pc = pc0] /\ (pc0 # "loggedOut" \/ req[r].op = "logout")
  <2>1. \A s \in Requests : s # r => req'[s] = req[s]
    BY Zenon, <1>2 DEF TypeOK
  <2>2. req'[r].pc = pc0 /\ req'[r].op = req[r].op
    BY SMTT(60), <1>2 DEF TypeOK, ReqType
  <2> QED
    BY Zenon, <1>2, <2>1, <2>2 DEF Proceeds
<1> QED
  BY Zenon, <1>1, <1>2

LEMMA HandlersProceed ==
  ASSUME TypeOK, [Next]_vars
  PROVE  \A r \in Requests : Proceeds(r)
<1>1. CASE UNCHANGED req
  BY Zenon, <1>1 DEF Proceeds
<1>2. ASSUME NEW r \in Requests, CreateSession(r) \/ DeleteCheck(r) PROVE \A s \in Requests : Proceeds(s)
  <2>1. \A s \in Requests : s # r => req'[s] = req[s]
    BY Zenon, <1>2 DEF CreateSession, DeleteCheck, TypeOK
  <2>2. req'[r].op \in {"create", "delete"} /\ req'[r].pc # "loggedOut"
    BY ZenonT(60), <1>2 DEF CreateSession, DeleteCheck, IdleReq, TypeOK
  <2> QED
    BY Zenon, <2>1, <2>2 DEF Proceeds
<1>3. ASSUME NEW r \in Requests, SessionAction(r) PROVE \A s \in Requests : Proceeds(s)
  BY SMTT(60), <1>3 DEF SessionAction, GetSession, disk, TypeOK, Proceeds
<1>4. ASSUME NEW r \in Requests, HandlerStep(r) PROVE \A s \in Requests : Proceeds(s)
  <2>0. req[r].pc # "idle"
    BY Zenon, <1>4 DEF HandlerStep, At, InsertSession, RegisterClient, StartClient, CreateFailed, PutAction,
       GetClient, CheckLogin, CloseClient, LogoutClient, ForgetClient, ForgetLoggedOut, RereadSession,
       PutLoggedOut, DeleteRow
  <2>1. ASSUME NEW p, Go(r, p), p # "loggedOut" \/ req[r].op = "logout"
        PROVE  \A s \in Requests : Proceeds(s)
    BY Zenon, <1>4, <2>0, <2>1, GoProceeds DEF Go
  <2>2. ASSUME Done(r) PROVE \A s \in Requests : Proceeds(s)
    BY Zenon, <1>4, <2>0, <2>2, GoProceeds DEF Done
  <2>3. CASE InsertSession(r) \/ CreateFailed(r) \/ PutAction(r) \/ PutLoggedOut(r) \/ DeleteRow(r)
    BY Zenon, <2>3, <2>1, <2>2 DEF InsertSession, CreateFailed, PutAction, PutLoggedOut, DeleteRow
  <2>4. CASE StartClient(r) \/ CheckLogin(r) \/ CloseClient(r) \/ LogoutClient(r)
    BY Zenon, <2>4, <2>1, <2>2 DEF StartClient, CheckLogin, CloseClient, LogoutClient
  <2>5. CASE ForgetClient(r) \/ ForgetLoggedOut(r)
    BY Zenon, <2>5, <2>1, <2>2 DEF ForgetClient, ForgetLoggedOut
  <2>6. CASE RegisterClient(r) \/ GetClient(r) \/ RereadSession(r)
    <3>1. CASE Done(r) \/ Go(r, "reread") \/ Go(r, "deleteRow")
      BY Zenon, <3>1, <2>1, <2>2
    <3>2. CASE \E c : req' = [req EXCEPT ![r].pc = "start", ![r].client = c]
      BY SMTT(60), <2>0, <3>2 DEF TypeOK, ReqType, Proceeds
    <3>3. CASE \E c : req' = [req EXCEPT ![r].pc = "register", ![r].phone = c]
      BY SMTT(60), <2>0, <3>3 DEF TypeOK, ReqType, Proceeds
    <3>4. CASE \E c : \E p \in {"check", "close", "logout"} :
                 req' = [req EXCEPT ![r].client = c, ![r].pc = p]
      BY SMTT(60), <2>0, <3>4 DEF TypeOK, ReqType, Proceeds
    <3>5. RegisterClient(r) => Done(r) \/ \E c : req' = [req EXCEPT ![r].pc = "start", ![r].client = c]
      BY Zenon DEF RegisterClient
    <3>6. RereadSession(r) => Done(r) \/ \E c : req' = [req EXCEPT ![r].pc = "register", ![r].phone = c]
      BY Zenon DEF RereadSession
    <3>7. GetClient(r) =>
            \/ Done(r) \/ Go(r, "reread") \/ Go(r, "deleteRow")
            \/ \E c : \E p \in {"check", "close", "logout"} :
                 req' = [req EXCEPT ![r].client = c, ![r].pc = p]
      BY Zenon DEF GetClient
    <3> QED
      BY Zenon, <2>6, <3>1, <3>2, <3>3, <3>4, <3>5, <3>6, <3>7
  <2> QED
    BY Zenon, <1>4, <2>3, <2>4, <2>5, <2>6 DEF HandlerStep
<1>5. CASE Crash
  BY Zenon, <1>5 DEF Crash, IdleReq, Proceeds
<1> QED
  BY ZenonT(60), <1>1, <1>2, <1>3, <1>4, <1>5
  DEF Next, vars, http, Library, EmitCode, EmitTimeout, PairDevice, LogIn, AutoReconnect, Drop, RemoteLogout,
      HandleEvent, QrStep, QrItem, QrClosed, QrCode, QrWrite, QrExpiry, QrFail, Connect, DialFail,
      StoreMessage, Load

\* Who writes a row where there was none, and who deletes one.
LEMMA RowAppears ==
  ASSUME SessionInv, [Next]_vars, row.status = "none", row'.status # "none"
  PROVE  \E r \in Requests : req[r].pc \in {"insert", "action", "loggedOut"}
<1>1. WritesRow
  BY Zenon, MovesNext DEF SessionInv, Moves
<1>2. \A s, k, p : ~UpdateSession(s, k, p) /\ ~SetSessionQRExpiry /\ ~SetSessionIdentity(s)
  BY Zenon DEF UpdateSession, SetSessionQRExpiry, SetSessionIdentity
<1>3. ~DeleteSession
  BY SMTT(60) DEF DeleteSession, NoRow
<1> QED
  BY Zenon, <1>1, <1>2, <1>3 DEF WritesRow, HandleEvent, OnPairSuccess, OnIdentified, OnConnected, OnLoggedIn,
     OnDisconnected, OnLoggedOut, QrWrite, QrExpiry, QrFail, DialFail, InsertSession, CreateFailed, PutAction,
     PutLoggedOut, DeleteRow, StoreMessage, At

LEMMA RowDisappears ==
  ASSUME SessionInv, [Next]_vars, row.status # "none", row'.status = "none"
  PROVE  \E r \in Requests : req'[r].pc = "idle"
<1>1. WritesRow
  BY Zenon, MovesNext DEF SessionInv, Moves
<1>2. ~RowStep
  BY Zenon DEF RowStep
<1>3. \E r \in Requests : DeleteRow(r)
  BY Zenon, <1>1, <1>2, RowNext DEF SessionInv
<1> QED
  BY SMTT(60), <1>3 DEF SessionInv, TypeOK, DeleteRow, Done, IdleReq

LEMMA ActsOnRowNext ==
  ASSUME OneRequest, SessionInv, ActsOnRow, [Next]_vars
  PROVE  ActsOnRow'
<1>1. \A r \in Requests : Proceeds(r)
  BY Zenon, HandlersProceed DEF SessionInv
<1>2. CASE row.status # "none" /\ row'.status = "none"
  BY Zenon, <1>2, RowDisappears DEF OneRequest, ActsOnRow, Acts
<1>3. CASE ~(row.status # "none" /\ row'.status = "none")
  BY Zenon, <1>1, <1>3 DEF Proceeds, ActsOnRow, Acts
<1> QED
  BY Zenon, <1>2, <1>3

(* With one request at a time, a deleted session is there again only when  *)
(* createSession inserts it: the upserts of sessionAction find the row     *)
(* that it read, and late events, QR items and dials insert nothing.       *)
THEOREM OnlyCreateInsertsAlone ==
  ASSUME OneRequest
  PROVE  Spec => OnlyCreateInserts
<1>1. Init => ActsOnRow
  BY SMTT(60) DEF Init, ActsOnRow, Acts, IdleReq
<1>2. SessionInv /\ ActsOnRow /\ [Next]_vars => ActsOnRow'
  BY Zenon, ActsOnRowNext
<1>3. SessionInv /\ ActsOnRow /\ [Next]_vars =>
        [row.status = "none" /\ row'.status # "none" => \E r \in Requests : At(r, "insert")]_vars
  <2> SUFFICES ASSUME SessionInv, ActsOnRow, [Next]_vars, row.status = "none", row'.status # "none"
               PROVE  \E r \in Requests : req[r].pc = "insert"
    BY Zenon DEF At
  <2>1. PICK r \in Requests : req[r].pc \in {"insert", "action", "loggedOut"}
    BY Zenon, RowAppears
  <2> QED
    BY Zenon, <2>1 DEF ActsOnRow, Acts, SessionInv, Owned, HandlersOwned
<1> QED
  BY <1>1, <1>2, <1>3, SessionInvariant, PTL DEF Spec, OnlyCreateInserts

----------------------------------------------------------------------------
(* ReconnectInHand.  A row that says reconnecting has something on its way *)
(* for the client in the map.  Two things are excluded, and break it: a    *)
(* Create without a QR channel, which leaves a client in the map that was  *)
(* not started, and a disconnect that closes the client of a reconnect     *)
(* under way.                                                              *)

\* What may still open the socket of a client
Active(c) ==
  \/ current = c \/ cl[c].sock # "off" \/ cl[c].auto
  \/ \E d \in Dialers : dial[d].pc = "dial" /\ dial[d].client = c
  \/ \E r \in Requests : req[r].pc \in {"start", "check"} /\ req[r].client = c

\* Two of them never share a device, and a process that is down has none.
OneLife ==
  /\ \A b, c \in Clients : Active(b) /\ Active(c) /\ cl[b].device = cl[c].device => b = c
  /\ ~up => \A c \in Clients : ~Active(c)

\* Every device is that of a client that was created.
Known(i) == i = NoClient \/ (i \in Clients /\ cl[i].used)

DevicesKnown ==
  /\ Known(row.jid) /\ \A r \in Requests : Known(req[r].jid)
  /\ \A c \in Clients : cl[c].used => Known(cl[c].device)

\* Only clients of Create are paired, so that their identity is written.
HasPaired(c) == \E e \in ev[c] : e[1] = "PairSuccess"

PairsOnce ==
  /\ \A c \in Clients : qr[c].open \/ HasPaired(c) => cl[c].used /\ ~cl[c].loaded
  /\ \A r \in Requests : req[r].pc = "start" => ~cl[req[r].client].loaded

\* While a request disconnects, no reconnect is under way.
Handlers ==
  \A r \in Requests :
    /\ req[r].op = "disconnect" => "disconnect" \in Ops
    /\ req[r].op = "disconnect" /\ req[r].pc \notin {"idle", "action"} => row.status # "reconnecting"
    /\ req[r].pc = "check" => req[r].op = "reconnect"
    /\ req[r].pc = "close" => req[r].op \in {"reconnect", "disconnect"}
    /\ req[r].pc = "logout" => req[r].client \in Clients

\* The QR loop of the current client runs as long as its channel is open.
LoopRuns == \A c \in Clients : qr[c].open /\ current = c => qr[c].pc # "idle"

\* A client whose device was removed while it was logged in leaves the map.
Forgets == \E r \in Requests : req[r].pc = "forget"

LoggedOutLeaves == \A c \in Clients : current = c /\ cl[c].loggedIn /\ ~Paired(c) => Forgets

\* A handler will dial or start c, or take the client there is from the map.
HandlerOf(v, c) ==
  \/ v.pc \in {"get", "close", "logout", "forget", "forgetFailed"}
  \/ v.pc \in {"check", "start"} /\ v.client = c

HandlerHas(c) == \E r \in Requests : HandlerOf(req[r], c)

EventComes == \E c \in Clients : ev[c] # {}

\* A loop that wrote its code is past its part in the reconnect.
ExpiryInHand ==
  \A c \in Clients : row.status = "reconnecting" /\ current = c /\ qr[c].pc = "expiry" =>
    HandlerHas(c) \/ EventComes \/ cl[c].loggedIn

\* whatsmeow will log c in or show a code once its socket is open.
Reachable(c) == Paired(c) \/ qr[c].open

Dialed(c) == \E d \in Dialers : dial[d].pc = "dial" /\ dial[d].client = c
DialFails == \E d \in Dialers : dial[d].pc = "fail"
LoopBusy(c) == qr[c].pc \in {"code", "write", "fail"} \/ (qr[c].pc = "loop" /\ qr[c].item # Empty)

InHand(c) ==
  \/ HandlerHas(c) \/ EventComes \/ DialFails \/ LoopBusy(c)
  \/ Dialed(c) /\ (cl[c].sock # "off" \/ Reachable(c))
  \/ cl[c].sock = "open" /\ Reachable(c)

CurrentInHand == \A c \in Clients : row.status = "reconnecting" /\ current = c => InHand(c)

HandInv ==
  /\ OneLife /\ DevicesKnown /\ PairsOnce /\ Handlers
  /\ LoopRuns /\ LoggedOutLeaves /\ ExpiryInHand /\ CurrentInHand

\* No disconnect while another request is handled
DisconnectsAlone == "disconnect" \notin Ops \/ OneRequest

----------------------------------------------------------------------------
(* What a step that brings no new client does, variable by variable.       *)

NoBirth == current' \in {current, NoClient}

ClStep(c) ==
  /\ cl'[c].used = cl[c].used /\ cl'[c].device = cl[c].device /\ cl'[c].loaded = cl[c].loaded
  /\ cl'[c].sock # "off" \/ cl'[c].auto => Active(c)
  /\ cl'[c].loggedIn => cl[c].loggedIn \/ (Paired(c) /\ UNCHANGED devices)
  /\ cl[c].loggedIn => cl'[c].loggedIn \/ EventComes'
  /\ \/ cl'[c].sock = cl[c].sock \/ (cl[c].sock = "off" /\ cl'[c].sock = "open")
     \/ EventComes' \/ Forgets' \/ EmitTimeout(c)
     \/ current' = NoClient \/ row'.status # "reconnecting"

DevStep ==
  \/ devices \subseteq devices'
  \/ \E b \in Clients :
       /\ cl[b].sock = "auth" /\ devices' = devices \ {cl[b].device}
       /\ Forgets' \/ (EventComes' /\ ~cl'[b].loggedIn)

EvStep(c) ==
  /\ HasPaired(c)' => HasPaired(c) \/ qr[c].open
  /\ ev[c] # {} => ev'[c] # {} \/ row'.status # "reconnecting" \/ current' = NoClient

\* StartClient and the dial of Reconnect
Starts(c) == Dialed(c)' /\ qr'[c].open /\ qr'[c].pc = "loop"
Redials(c) == Dialed(c)' /\ cl[c].loggedIn /\ UNCHANGED <<cl, devices>>

ReqStep(r) ==
  /\ req'[r].jid \in {req[r].jid, NoClient, row.jid}
  /\ req'[r].op = req[r].op \/ req'[r].op \in Ops \cup {"create"}
  /\ \/ req'[r].op # "disconnect" \/ req'[r].pc \in {"idle", "action"}
     \/ (req[r].op = "disconnect" /\ req[r].pc \notin {"idle", "action"}) \/ row'.status # "reconnecting"
  /\ req'[r].pc = "check" => req'[r].op = "reconnect"
  /\ req'[r].pc = "close" => req'[r].op \in {"reconnect", "disconnect"}
  /\ req'[r].pc = "logout" => req'[r].client \in Clients
  /\ req'[r].pc \in {"start", "check"} =>
       \/ req[r].pc = req'[r].pc /\ req[r].client = req'[r].client
       \/ req'[r].pc = "check" /\ req'[r].client = current
  /\ req[r].pc = "forget" => req'[r].pc = "forget" \/ current' = NoClient
  /\ \A c \in Clients : HandlerOf(req[r], c) /\ current = c /\ current' = c =>
       HandlerOf(req'[r], c) \/ Starts(c) \/ Redials(c) \/ row'.status # "reconnecting"

DialStep(d) ==
  /\ dial'[d].pc = "dial" =>
       \/ dial[d].pc = "dial" /\ dial'[d].client = dial[d].client
       \/ \E r \in Requests : req[r].pc \in {"start", "check"} /\ req[r].client = dial'[d].client
  /\ dial[d].pc = "fail" => dial'[d].pc = "fail" \/ row'.status # "reconnecting" \/ current' = NoClient
  /\ dial[d].pc = "dial" /\ dial[d].client = current =>
       \/ dial'[d] = dial[d] \/ dial'[d].pc = "fail" \/ current' = NoClient
       \/ cl[current].sock = "off" /\ cl'[current].sock = "open"

LoopStep(c) ==
  /\ qr'[c].open => qr[c].open \/ \E r \in Requests : req[r].pc = "start" /\ req[r].client = c
  /\ qr[c].open => qr'[c].open \/ EventComes' \/ EmitTimeout(c) \/ current' = NoClient
  /\ qr'[c].open /\ qr'[c].pc = "idle" => (qr[c].open /\ (qr[c].pc = "idle" \/ current # c))
  /\ qr'[c].pc = "expiry" => qr[c].pc = "expiry" \/ row'.status # "reconnecting"
  /\ LoopBusy(c) /\ current = c =>
       LoopBusy(c)' \/ row'.status # "reconnecting" \/ current' = NoClient \/ Starts(c)

RowMoves ==
  /\ row'.status = "reconnecting" =>
       \/ row.status = "reconnecting"
       \/ \E r \in Requests : req'[r].pc = "get" /\ req'[r].op = "reconnect"
  /\ \/ row'.jid \in {row.jid, NoClient} \/ \E r \in Requests : row'.jid = req[r].jid
     \/ \E c \in Clients : cl[c].used /\ row'.jid = cl[c].device

Steps ==
  /\ NoBirth
  /\ \A c \in Clients : ClStep(c) /\ EvStep(c) /\ LoopStep(c)
  /\ \A r \in Requests : ReqStep(r)
  /\ \A d \in Dialers : DialStep(d)
  /\ DevStep /\ RowMoves
  /\ up' \/ UNCHANGED up \/ \A c \in Clients : ~Active(c)'

----------------------------------------------------------------------------
(* HandInv is kept by such a step.                                         *)

LEMMA ActiveStays ==
  ASSUME TypeOK, Steps, NEW c \in Clients, Active(c)'
  PROVE  Active(c)
<1>1. CASE current' = c \/ cl'[c].sock # "off" \/ cl'[c].auto
  BY Zenon, <1>1, IdFacts DEF Steps, NoBirth, ClStep, Active
<1>2. ASSUME NEW d \in Dialers, dial'[d].pc = "dial", dial'[d].client = c PROVE Active(c)
  BY Zenon, <1>2 DEF Steps, DialStep, Active
<1>3. ASSUME NEW r \in Requests, req'[r].pc \in {"start", "check"}, req'[r].client = c PROVE Active(c)
  BY Zenon, <1>3 DEF Steps, ReqStep, Active
<1> QED
  BY Zenon, <1>1, <1>2, <1>3 DEF Active

LEMMA OneLifeKept ==
  ASSUME TypeOK, Steps, OneLife
  PROVE  OneLife'
<1>1. \A c \in Clients : Active(c)' => Active(c)
  BY Zenon, ActiveStays
<1>2. \A c \in Clients : cl'[c].device = cl[c].device
  BY Zenon DEF Steps, ClStep
<1>3. ~up' => \A c \in Clients : ~Active(c)'
  BY Zenon, <1>1 DEF Steps, OneLife
<1> QED
  BY Zenon, <1>1, <1>2, <1>3 DEF OneLife

LEMMA DevicesKnownKept ==
  ASSUME TypeOK, Steps, DevicesKnown
  PROVE  DevicesKnown'
<1>1. \A i : Known(i) => Known(i)'
  BY Zenon DEF Steps, ClStep, Known
<1>2. Known(row'.jid)
  BY Zenon DEF Steps, RowMoves, DevicesKnown, Known
<1>3. \A r \in Requests : Known(req'[r].jid)
  BY Zenon DEF Steps, ReqStep, DevicesKnown, Known
<1>4. \A c \in Clients : cl'[c].used => Known(cl'[c].device)
  BY Zenon DEF Steps, ClStep, DevicesKnown
<1> QED
  BY Zenon, <1>1, <1>2, <1>3, <1>4 DEF DevicesKnown, Known

LEMMA PairsOnceKept ==
  ASSUME TypeOK, Owned, Steps, PairsOnce
  PROVE  PairsOnce'
<1>1. \A c \in Clients : qr'[c].open \/ HasPaired(c)' => cl'[c].used /\ ~cl'[c].loaded
  BY Zenon DEF Steps, ClStep, EvStep, LoopStep, PairsOnce, Owned, HandlersOwned
<1>2. \A r \in Requests : req'[r].pc = "start" => ~cl'[req'[r].client].loaded
  <2> SUFFICES ASSUME NEW r \in Requests, req'[r].pc = "start" PROVE ~cl'[req'[r].client].loaded
    BY Zenon
  <2>1. req[r].pc = "start" /\ req'[r].client = req[r].client
    BY Zenon DEF Steps, ReqStep
  <2> QED
    BY Zenon, <2>1 DEF Steps, ClStep, PairsOnce, Owned, HandlersOwned
<1> QED
  BY Zenon, <1>1, <1>2 DEF PairsOnce

LEMMA HandlersKept ==
  ASSUME DisconnectsAlone, Steps, Handlers
  PROVE  Handlers'
<1> SUFFICES ASSUME NEW r \in Requests
             PROVE  /\ req'[r].op = "disconnect" => "disconnect" \in Ops
                    /\ req'[r].op = "disconnect" /\ req'[r].pc \notin {"idle", "action"}
                         => row'.status # "reconnecting"
                    /\ req'[r].pc = "check" => req'[r].op = "reconnect"
                    /\ req'[r].pc = "close" => req'[r].op \in {"reconnect", "disconnect"}
                    /\ req'[r].pc = "logout" => req'[r].client \in Clients
  BY Zenon DEF Handlers
<1>1. req'[r].op = "disconnect" => "disconnect" \in Ops
  BY Zenon DEF Handlers, Steps, ReqStep
<1>2. ASSUME req'[r].op = "disconnect", req'[r].pc \notin {"idle", "action"}, row'.status = "reconnecting"
      PROVE  FALSE
  <2>1. row.status # "reconnecting"
    BY Zenon, <1>2 DEF Handlers, Steps, ReqStep
  <2>2. PICK s \in Requests : req'[s].op = "reconnect"
    BY Zenon, <1>2, <2>1 DEF Steps, RowMoves
  <2> QED
    BY Zenon, <1>1, <1>2, <2>2 DEF DisconnectsAlone, OneRequest
<1> QED
  BY Zenon, <1>1, <1>2 DEF Steps, ReqStep

LEMMA ForgetsStays ==
  ASSUME Steps, Forgets, current' # NoClient
  PROVE  Forgets'
  BY Zenon DEF Steps, ReqStep, Forgets

LEMMA EventStays ==
  ASSUME Steps, EventComes, current' # NoClient, row'.status = "reconnecting"
  PROVE  EventComes'
  BY Zenon DEF Steps, EvStep, EventComes

LEMMA LoopRunsKept ==
  ASSUME Steps, LoopRuns
  PROVE  LoopRuns'
<1> SUFFICES ASSUME NEW c \in Clients, qr'[c].open, current' = c, qr'[c].pc = "idle" PROVE FALSE
  BY Zenon DEF LoopRuns
<1>1. current = c
  BY Zenon, IdFacts DEF Steps, NoBirth
<1>2. qr[c].open /\ qr[c].pc = "idle"
  BY Zenon, <1>1 DEF Steps, LoopStep
<1> QED
  BY Zenon, <1>1, <1>2 DEF LoopRuns

\* The device of an active client is removed by its own logout only.
LEMMA DeviceLost ==
  ASSUME TypeOK, Steps, OneLife, NEW c \in Clients, Active(c), Paired(c), ~Paired(c)'
  PROVE  Forgets' \/ (EventComes' /\ ~cl'[c].loggedIn)
<1>1. cl'[c].device = cl[c].device
  BY Zenon DEF Steps, ClStep
<1>2. PICK b \in Clients : /\ cl[b].sock = "auth" /\ devices' = devices \ {cl[b].device}
                           /\ Forgets' \/ (EventComes' /\ ~cl'[b].loggedIn)
  BY Zenon, <1>1 DEF Steps, DevStep, Paired
<1>3. cl[b].device = cl[c].device
  BY Zenon, <1>1, <1>2 DEF Paired
<1>4. Active(b)
  BY Zenon, <1>2 DEF Active
<1>5. b = c
  BY Zenon, <1>3, <1>4 DEF OneLife
<1> QED
  BY Zenon, <1>2, <1>5

LEMMA LoggedOutLeavesKept ==
  ASSUME TypeOK, Steps, OneLife, LoggedOutLeaves
  PROVE  LoggedOutLeaves'
<1> SUFFICES ASSUME NEW c \in Clients, current' = c, cl'[c].loggedIn, ~Paired(c)'
             PROVE  Forgets'
  BY Zenon DEF LoggedOutLeaves
<1>1. current = c /\ Active(c) /\ current' # NoClient
  BY Zenon, IdFacts DEF Steps, NoBirth, Active
<1>2. cl[c].loggedIn
  BY Zenon DEF Steps, ClStep, Paired
<1>3. CASE Paired(c)
  BY Zenon, <1>1, <1>3, DeviceLost
<1>4. CASE ~Paired(c)
  BY Zenon, <1>1, <1>2, <1>4, ForgetsStays DEF LoggedOutLeaves
<1> QED
  BY Zenon, <1>3, <1>4

LEMMA HandlerStays ==
  ASSUME Steps, NEW c \in Clients, current = c, current' = c, row'.status = "reconnecting", HandlerHas(c)
  PROVE  HandlerHas(c)' \/ Starts(c) \/ Redials(c)
  BY Zenon DEF Steps, ReqStep, HandlerHas, HandlerOf

LEMMA NewReconnect ==
  ASSUME Steps, row'.status = "reconnecting", row.status # "reconnecting", NEW c
  PROVE  HandlerHas(c)'
  BY Zenon DEF Steps, RowMoves, HandlerHas, HandlerOf

LEMMA ExpiryInHandKept ==
  ASSUME Steps, ExpiryInHand
  PROVE  ExpiryInHand'
<1> SUFFICES ASSUME NEW c \in Clients, row'.status = "reconnecting", current' = c, qr'[c].pc = "expiry"
             PROVE  HandlerHas(c)' \/ EventComes' \/ cl'[c].loggedIn
  BY Zenon DEF ExpiryInHand
<1>1. current = c /\ current' # NoClient
  BY Zenon, IdFacts DEF Steps, NoBirth
<1>2. qr[c].pc = "expiry"
  BY Zenon DEF Steps, LoopStep
<1>3. CASE row.status # "reconnecting"
  BY Zenon, <1>3, NewReconnect
<1>4. CASE row.status = "reconnecting"
  <2>1. HandlerHas(c) \/ EventComes \/ cl[c].loggedIn
    BY Zenon, <1>1, <1>2, <1>4 DEF ExpiryInHand
  <2>2. CASE HandlerHas(c)
    BY Zenon, <1>1, <2>2, HandlerStays DEF Starts, Redials
  <2>3. CASE EventComes
    BY Zenon, <1>1, <2>3, EventStays
  <2>4. CASE cl[c].loggedIn
    BY Zenon, <2>4 DEF Steps, ClStep
  <2> QED
    BY Zenon, <2>1, <2>2, <2>3, <2>4
<1> QED
  BY Zenon, <1>3, <1>4

\* The codes of the current client run out: its loop sees it, or a handler
\* has the reconnect.
LEMMA TimeoutInHand ==
  ASSUME TypeOK, LoopRuns, LoggedOutLeaves, ExpiryInHand,
         NEW c \in Clients, EmitTimeout(c), current = c, row.status = "reconnecting"
  PROVE  InHand(c)'
<1>1. ~Paired(c) /\ qr[c].open /\ UNCHANGED <<req, ev>>
  BY Zenon DEF EmitTimeout, http
<1>2. qr'[c].pc = qr[c].pc /\ qr'[c].item = "timeout" /\ qr[c].pc # "idle"
  BY Zenon, <1>1 DEF EmitTimeout, TypeOK, QrType, LoopRuns
<1>3. CASE qr[c].pc = "expiry"
  <2>1. HandlerHas(c) \/ EventComes
    BY Zenon, <1>1, <1>3 DEF ExpiryInHand, LoggedOutLeaves, Forgets, HandlerHas, HandlerOf
  <2> QED
    BY Zenon, <1>1, <2>1 DEF InHand, HandlerHas, EventComes
<1>4. CASE qr[c].pc # "expiry"
  <2>1. qr[c].pc \in {"loop", "code", "write", "fail"}
    BY Zenon, <1>2, <1>4 DEF TypeOK, QrType
  <2> QED
    BY Zenon, <1>2, <2>1, EmptyFacts DEF InHand, LoopBusy
<1> QED
  BY Zenon, <1>3, <1>4

\* A step that leaves no event, no logout and no timeout behind takes nothing
\* from a client.
LEMMA ReachStays ==
  ASSUME TypeOK, Steps, OneLife, NEW c \in Clients, current = c, current' = c, row'.status = "reconnecting",
         ~EventComes', ~Forgets', ~EmitTimeout(c)
  PROVE  /\ Reachable(c) => Reachable(c)'
         /\ cl'[c].sock = cl[c].sock \/ (cl[c].sock = "off" /\ cl'[c].sock = "open")
<1>1. current' # NoClient /\ Active(c)
  BY Zenon, IdFacts DEF Active
<1>2. Paired(c) => Paired(c)'
  BY Zenon, <1>1, DeviceLost
<1>3. qr[c].open => qr'[c].open
  BY Zenon, <1>1 DEF Steps, LoopStep
<1> QED
  BY Zenon, <1>1, <1>2, <1>3 DEF Reachable, Steps, ClStep

LEMMA CurrentInHandKept ==
  ASSUME TypeOK, Steps, HandInv
  PROVE  CurrentInHand'
<1> SUFFICES ASSUME NEW c \in Clients, row'.status = "reconnecting", current' = c
             PROVE  InHand(c)'
  BY Zenon DEF CurrentInHand
<1>1. current = c /\ current' # NoClient
  BY Zenon, IdFacts DEF Steps, NoBirth
<1>2. CASE row.status # "reconnecting"
  BY Zenon, <1>2, NewReconnect DEF InHand
<1>3. CASE row.status = "reconnecting" /\ EmitTimeout(c)
  BY Zenon, <1>1, <1>3, TimeoutInHand DEF HandInv
<1>4. CASE EventComes' \/ Forgets'
  BY Zenon, <1>4 DEF InHand, Forgets, HandlerHas, HandlerOf
<1>5. CASE row.status = "reconnecting" /\ ~EmitTimeout(c) /\ ~EventComes' /\ ~Forgets'
  <2>1. /\ Reachable(c) => Reachable(c)'
        /\ cl'[c].sock = cl[c].sock \/ (cl[c].sock = "off" /\ cl'[c].sock = "open")
    BY Zenon, <1>1, <1>5, ReachStays DEF HandInv
  <2>2. CASE HandlerHas(c)
    <3>1. CASE Starts(c)
      BY Zenon, <3>1 DEF Starts, InHand, Reachable
    <3>2. CASE Redials(c)
      <4>1. Paired(c)
        BY Zenon, <1>1, <1>5, <3>2, ForgetsStays DEF Redials, HandInv, LoggedOutLeaves
      <4> QED
        BY Zenon, <2>1, <3>2, <4>1 DEF Redials, InHand, Reachable
    <3> QED
      BY Zenon, <1>1, <2>2, <3>1, <3>2, HandlerStays DEF InHand
  <2>3. CASE EventComes
    BY Zenon, <1>1, <1>5, <2>3, EventStays
  <2>4. CASE DialFails
    BY Zenon, <1>1, <2>4 DEF DialFails, Steps, DialStep, InHand
  <2>5. CASE LoopBusy(c)
    <3>1. CASE Starts(c)
      BY Zenon, <3>1 DEF Starts, InHand, Reachable
    <3> QED
      BY Zenon, <1>1, <2>5, <3>1 DEF Steps, LoopStep, InHand
  <2>6. CASE Dialed(c) /\ (cl[c].sock # "off" \/ Reachable(c))
    <3>1. PICK d \in Dialers : dial[d].pc = "dial" /\ dial[d].client = c
      BY Zenon, <2>6 DEF Dialed
    <3>2. \/ dial'[d] = dial[d] \/ dial'[d].pc = "fail"
          \/ cl[c].sock = "off" /\ cl'[c].sock = "open"
      BY Zenon, <1>1, <3>1 DEF Steps, DialStep
    <3>3. CASE dial'[d] = dial[d]
      BY Zenon, <2>1, <2>6, <3>1, <3>3 DEF InHand, Dialed
    <3>4. CASE dial'[d].pc = "fail"
      BY Zenon, <3>4 DEF InHand, DialFails
    <3>5. CASE cl[c].sock = "off" /\ cl'[c].sock = "open"
      BY Zenon, <2>1, <2>6, <3>5 DEF InHand
    <3> QED
      BY Zenon, <3>2, <3>3, <3>4, <3>5
  <2>7. CASE cl[c].sock = "open" /\ Reachable(c)
    BY SMTT(60), <2>1, <2>7 DEF InHand
  <2> QED
    BY Zenon, <1>1, <1>5, <2>2, <2>3, <2>4, <2>5, <2>6, <2>7 DEF HandInv, CurrentInHand, InHand
<1> QED
  BY Zenon, <1>2, <1>3, <1>4, <1>5

----------------------------------------------------------------------------
(* Every step without a new client is one of Steps.                        *)

LEMMA UpdateEnds ==
  ASSUME TypeOK, NEW s, s # "reconnecting", NEW k, NEW p, UpdateSession(s, k, p)
  PROVE  row'.status # "reconnecting"
  BY SMTT(60) DEF UpdateSession, TypeOK, RowType

LEMMA ClSame ==
  ASSUME NEW c \in Clients, cl'[c] = cl[c]
  PROVE  ClStep(c)
  BY Zenon DEF ClStep, Active

LEMMA ClSteps ==
  ASSUME SessionInv, Handlers, [Next]_vars, NoBirth
  PROVE  \A c \in Clients : ClStep(c)
<1> SUFFICES ASSUME NEW c \in Clients PROVE ClStep(c)
  BY Zenon
<1>0. /\ cl \in [Clients -> ClType] /\ cl[c] \in ClType /\ Owned /\ TypeOK
  BY Zenon DEF SessionInv, TypeOK
<1>1. CASE UNCHANGED cl
  BY Zenon, <1>1, ClSame
<1>2. ASSUME NEW b \in Clients, EmitTimeout(b) PROVE ClStep(c)
  <2>1. cl' = [cl EXCEPT ![b].sock = "off"]
    BY Zenon, <1>2 DEF EmitTimeout
  <2>2. CASE c = b
    BY SMTT(60), <1>0, <1>2, <2>1, <2>2 DEF ClType, ClStep, Active
  <2> QED
    BY Zenon, <1>0, <2>1, <2>2, ClSame
<1>3. ASSUME NEW b \in Clients, LogIn(b) PROVE ClStep(c)
  <2>1. /\ cl' = [cl EXCEPT ![b].sock = "auth", ![b].loggedIn = TRUE]
        /\ cl[b].sock = "open" /\ Paired(b) /\ UNCHANGED devices
    BY Zenon, <1>3 DEF LogIn, disk
  <2>2. EventComes'
    BY Zenon, <1>0, <1>3 DEF LogIn, Emit, EventComes, TypeOK
  <2>3. CASE c = b
    BY SMTT(60), <1>0, <2>1, <2>2, <2>3 DEF ClType, ClStep, Active
  <2> QED
    BY Zenon, <1>0, <2>1, <2>3, ClSame
<1>4. ASSUME NEW b \in Clients, Drop(b) PROVE ClStep(c)
  <2>1. PICK l \in {FALSE, cl[b].loggedIn} :
          cl' = [cl EXCEPT ![b].sock = "off", ![b].loggedIn = l, ![b].auto = Paired(b)]
    BY Zenon, <1>4 DEF Drop
  <2>2. EventComes' /\ cl[b].sock # "off"
    BY Zenon, <1>0, <1>4 DEF Drop, Emit, EventComes, TypeOK
  <2>3. CASE c = b
    BY SMTT(60), <1>0, <2>1, <2>2, <2>3 DEF ClType, ClStep, Active
  <2> QED
    BY Zenon, <1>0, <2>1, <2>3, ClSame
<1>5. ASSUME NEW b \in Clients, AutoReconnect(b) PROVE ClStep(c)
  <2>1. cl' = [cl EXCEPT ![b].sock = "open", ![b].auto = FALSE] /\ cl[b].sock = "off" /\ cl[b].auto
    BY Zenon, <1>5 DEF AutoReconnect
  <2>2. CASE c = b
    BY SMTT(60), <1>0, <2>1, <2>2 DEF ClType, ClStep, Active
  <2> QED
    BY Zenon, <1>0, <2>1, <2>2, ClSame
<1>6. ASSUME NEW b \in Clients, RemoteLogout(b) PROVE ClStep(c)
  <2>1. cl' = [cl EXCEPT ![b].sock = "off", ![b].loggedIn = FALSE, ![b].auto = FALSE]
    BY Zenon, <1>6 DEF RemoteLogout
  <2>2. EventComes'
    BY Zenon, <1>0, <1>6 DEF RemoteLogout, Emit, EventComes, TypeOK
  <2>3. CASE c = b
    BY SMTT(60), <1>0, <2>1, <2>2, <2>3 DEF ClType, ClStep
  <2> QED
    BY Zenon, <1>0, <2>1, <2>3, ClSame
<1>7. ASSUME NEW d \in Dialers, Connect(d) PROVE ClStep(c)
  <2>1. CASE UNCHANGED cl
    BY Zenon, <2>1, ClSame
  <2>2. CASE /\ cl[dial[d].client].sock = "off"
             /\ cl' = [cl EXCEPT ![dial[d].client].sock = "open", ![dial[d].client].auto = FALSE]
    <3>1. dial[d].pc = "dial"
      BY Zenon, <1>7 DEF Connect
    <3>2. CASE c = dial[d].client
      <4>1. Active(c)
        BY Zenon, <3>1, <3>2 DEF Active
      <4> QED
        BY SMTT(60), <1>0, <2>2, <3>2, <4>1 DEF ClType, ClStep
    <3>3. CASE c # dial[d].client
      BY Zenon, <1>0, <2>2, <3>3, ClSame
    <3> QED
      BY Zenon, <3>2, <3>3
  <2> QED
    BY Zenon, <1>7, <2>1, <2>2 DEF Connect
<1>8. ASSUME NEW r \in Requests, CloseClient(r) PROVE ClStep(c)
  <2> DEFINE b == req[r].client
  <2>1. cl' = [cl EXCEPT ![b].sock = "off", ![b].auto = FALSE] /\ UNCHANGED row
    BY Zenon, <1>8 DEF CloseClient, disk
  <2>2. CASE req[r].op = "reconnect"
    <3>1. Forgets'
      BY Zenon, <1>0, <1>8, <2>2 DEF CloseClient, Go, Forgets, TypeOK, ReqType
    <3> QED
      BY SMTT(60), <1>0, <2>1, <3>1 DEF ClType, ClStep, Active
  <2>3. CASE req[r].op # "reconnect"
    <3>1. row'.status # "reconnecting"
      BY Zenon, <1>8, <2>1, <2>3 DEF CloseClient, At, Handlers
    <3> QED
      BY SMTT(60), <1>0, <2>1, <3>1 DEF ClType, ClStep, Active
  <2> QED
    BY Zenon, <2>2, <2>3
<1>9. ASSUME NEW r \in Requests, LogoutClient(r) PROVE ClStep(c)
  <2> DEFINE b == req[r].client
  <2>1. CASE UNCHANGED cl
    BY Zenon, <2>1, ClSame
  <2>2. CASE cl' = [cl EXCEPT ![b].sock = "off", ![b].auto = FALSE] /\ Go(r, "forget")
    <3>1. Forgets'
      BY Zenon, <1>0, <2>2 DEF Go, Forgets, TypeOK, ReqType
    <3> QED
      BY SMTT(60), <1>0, <2>2, <3>1 DEF ClType, ClStep, Active
  <2> QED
    BY Zenon, <1>9, <2>1, <2>2 DEF LogoutClient
<1>10. CASE Crash
  <2>1. cl'[c] = [cl[c] EXCEPT !.sock = "off", !.auto = FALSE] /\ current' = NoClient
    BY Zenon, <1>10 DEF Crash
  <2> QED
    BY SMTT(60), <1>0, <2>1 DEF ClType, ClStep
<1>11. CASE Load \/ \E r \in Requests : RegisterClient(r)
  <2>1. current = NoClient => current' = NoClient
    BY Zenon DEF NoBirth
  <2>2. UNCHANGED cl
    BY Zenon, <1>0, <1>11, <2>1, IdFacts DEF Load, RegisterClient, HasClient, Owned, MapOwned
  <2> QED
    BY Zenon, <2>2, ClSame
<1> QED
  BY ZenonT(60), <1>1, <1>2, <1>3, <1>4, <1>5, <1>6, <1>7, <1>8, <1>9, <1>10, <1>11
  DEF Next, vars, mgr, Library, EmitCode, PairDevice, HandleEvent, QrStep, QrItem, QrClosed, QrCode, QrWrite,
      QrExpiry, QrFail, DialFail, CreateSession, SessionAction, DeleteCheck, HandlerStep, InsertSession,
      StartClient, CreateFailed, PutAction, GetClient, CheckLogin, ForgetClient, ForgetLoggedOut,
      RereadSession, PutLoggedOut, DeleteRow, StoreMessage

LEMMA DevSteps ==
  ASSUME SessionInv, Handlers, [Next]_vars
  PROVE  DevStep
<1>0. TypeOK /\ Owned
  BY Zenon DEF SessionInv
<1>1. CASE UNCHANGED devices
  BY Zenon, <1>1 DEF DevStep
<1>2. ASSUME NEW b \in Clients, PairDevice(b) PROVE DevStep
  BY Zenon, <1>2 DEF DevStep, PairDevice
<1>3. ASSUME NEW b \in Clients, RemoteLogout(b) PROVE DevStep
  <2>1. EventComes'
    BY Zenon, <1>0, <1>3 DEF RemoteLogout, Emit, EventComes, TypeOK
  <2>2. ~cl'[b].loggedIn
    BY SMTT(60), <1>0, <1>3 DEF RemoteLogout, TypeOK, ClType
  <2> QED
    BY Zenon, <1>3, <2>1, <2>2 DEF RemoteLogout, DevStep
<1>4. ASSUME NEW r \in Requests, LogoutClient(r) PROVE DevStep
  <2>1. CASE UNCHANGED devices
    BY Zenon, <2>1 DEF DevStep
  <2>2. CASE /\ cl[req[r].client].sock = "auth" /\ Go(r, "forget")
             /\ devices' = devices \ {cl[req[r].client].device}
    <3>1. Forgets'
      BY Zenon, <1>0, <2>2 DEF Go, Forgets, TypeOK, ReqType
    <3>2. req[r].client \in Clients
      BY Zenon, <1>4 DEF LogoutClient, At, Handlers
    <3> QED
      BY Zenon, <2>2, <3>1, <3>2 DEF DevStep
  <2> QED
    BY Zenon, <1>4, <2>1, <2>2 DEF LogoutClient
<1> QED
  BY ZenonT(60), <1>1, <1>2, <1>3, <1>4
  DEF Next, vars, disk, Library, EmitCode, EmitTimeout, LogIn, AutoReconnect, Drop, HandleEvent, QrStep, QrItem,
      QrClosed, QrCode, QrWrite, QrExpiry, QrFail, Connect, DialFail, CreateSession, SessionAction, DeleteCheck,
      HandlerStep, InsertSession, RegisterClient, StartClient, CreateFailed, PutAction, GetClient, CheckLogin,
      CloseClient, ForgetClient, ForgetLoggedOut, RereadSession, PutLoggedOut, DeleteRow, StoreMessage, Crash, Load

LEMMA EvSteps ==
  ASSUME SessionInv, PairsOnce, [Next]_vars
  PROVE  \A c \in Clients : EvStep(c)
<1> SUFFICES ASSUME NEW c \in Clients PROVE EvStep(c)
  BY Zenon
<1>0. TypeOK /\ Owned
  BY Zenon DEF SessionInv
<1>1. CASE ev'[c] = ev[c]
  BY Zenon, <1>1 DEF EvStep, HasPaired
<1>2. ASSUME NEW b \in Clients, PairDevice(b) PROVE EvStep(c)
  <2>1. CASE b = c
    BY Zenon, <1>0, <1>2, <2>1 DEF PairDevice, Emit, EvStep, TypeOK
  <2> QED
    BY Zenon, <1>0, <1>1, <1>2, <2>1 DEF PairDevice, Emit, TypeOK
<1>3. ASSUME NEW b \in Clients, LogIn(b) \/ Drop(b) \/ RemoteLogout(b) PROVE EvStep(c)
  <2>1. PICK name \in {"Connected", "Disconnected", "LoggedOut"} : Emit(b, name)
    BY Zenon, <1>3 DEF LogIn, Drop, RemoteLogout
  <2>2. <<name, Empty>>[1] # "PairSuccess"
    BY SMTT(60), <2>1
  <2>3. CASE b = c
    BY Zenon, <1>0, <2>1, <2>2, <2>3 DEF Emit, EvStep, HasPaired, TypeOK
  <2> QED
    BY Zenon, <1>0, <1>1, <2>1, <2>3 DEF Emit, TypeOK
<1>4. ASSUME NEW b \in Clients, HandleEvent(b) PROVE EvStep(c)
  <2>1. PICK e \in ev[b] : OnPairSuccess(b, e) \/ OnIdentified(b, e) \/ OnConnected(b, e)
                           \/ OnLoggedIn(b, e) \/ OnDisconnected(b, e) \/ OnLoggedOut(b, e)
    BY Zenon, <1>4 DEF HandleEvent
  <2>3. PICK next : Handled(b, e, next) /\ (\A x \in next : x[1] # "PairSuccess")
                    /\ (next # {} \/ row'.status # "reconnecting")
    <3>1. CASE OnPairSuccess(b, e)
      <4>1. ~cl[b].loaded
        BY Zenon, <3>1 DEF OnPairSuccess, PairsOnce, HasPaired
      <4>2. Handled(b, e, {<<"Identified", "phone">>})
        BY Zenon, <3>1, <4>1 DEF OnPairSuccess
      <4>3. <<"Identified", "phone">>[1] # "PairSuccess"
        BY SMTT(60)
      <4> QED
        BY Zenon, <4>2, <4>3
    <3>2. CASE OnConnected(b, e)
      <4>1. PICK p : Handled(b, e, {<<"LoggedIn", p>>})
        BY Zenon, <3>2 DEF OnConnected
      <4>2. <<"LoggedIn", p>>[1] # "PairSuccess"
        BY SMTT(60)
      <4> QED
        BY Zenon, <4>1, <4>2
    <3>3. CASE OnIdentified(b, e) \/ OnLoggedIn(b, e) \/ OnDisconnected(b, e) \/ OnLoggedOut(b, e)
      <4>1. Handled(b, e, {}) /\ row'.status # "reconnecting"
        BY Zenon, <1>0, <3>3, UpdateEnds DEF OnIdentified, OnLoggedIn, OnDisconnected, OnLoggedOut
      <4>2. \A x \in {} : x[1] # "PairSuccess"
        BY Zenon
      <4> QED
        BY SMTT(60), <4>1, <4>2
    <3> QED
      BY Zenon, <2>1, <3>1, <3>2, <3>3
  <2>4. CASE b = c
    <3>1. ev'[c] = (ev[c] \ {e}) \cup next
      BY Zenon, <1>0, <2>3, <2>4 DEF Handled, TypeOK
    <3> QED
      BY Zenon, <2>3, <3>1 DEF EvStep, HasPaired
  <2> QED
    BY Zenon, <1>0, <1>1, <2>3, <2>4 DEF Handled, TypeOK
<1>5. CASE Crash
  BY Zenon, <1>5 DEF Crash, EvStep, HasPaired
<1> QED
  BY ZenonT(60), <1>1, <1>2, <1>3, <1>4, <1>5
  DEF Next, vars, mgr, Library, EmitCode, EmitTimeout, AutoReconnect, QrStep, QrItem, QrClosed, QrCode, QrWrite,
      QrExpiry, QrFail, Connect, DialFail, CreateSession, SessionAction, DeleteCheck, HandlerStep, InsertSession,
      RegisterClient, StartClient, CreateFailed, PutAction, GetClient, CheckLogin, CloseClient, LogoutClient,
      ForgetClient, ForgetLoggedOut, RereadSession, PutLoggedOut, DeleteRow, StoreMessage, Load

LEMMA RowMovesNext ==
  ASSUME SessionInv, [Next]_vars
  PROVE  RowMoves
<1>0. TypeOK /\ Owned /\ row \in RowType
  BY Zenon DEF SessionInv, TypeOK
<1>1. CASE UNCHANGED row
  BY Zenon, <1>1 DEF RowMoves
<1>2. ASSUME NEW s, NEW k, NEW p, UpdateSession(s, k, p), s # "reconnecting" PROVE RowMoves
  BY SMTT(60), <1>0, <1>2 DEF UpdateSession, RowType, RowMoves
<1>3. CASE SetSessionQRExpiry
  BY SMTT(60), <1>0, <1>3 DEF SetSessionQRExpiry, RowType, RowMoves
<1>4. CASE DeleteSession
  BY SMTT(60), <1>0, <1>4 DEF DeleteSession, NoRow, RowMoves
<1>5. ASSUME NEW c \in Clients, HandleEvent(c) PROVE RowMoves
  <2>1. ASSUME NEW e \in ev[c], OnPairSuccess(c, e) PROVE RowMoves
    <3>1. cl[c].used
      BY Zenon, <1>0 DEF Owned, ClientsOwned
    <3> QED
      BY SMTT(60), <1>0, <2>1, <3>1 DEF OnPairSuccess, SetSessionIdentity, RowType, RowMoves
  <2> QED
    BY Zenon, <1>1, <1>2, <1>5, <2>1
       DEF HandleEvent, OnIdentified, OnConnected, OnLoggedIn, OnDisconnected, OnLoggedOut
<1>6. ASSUME NEW r \in Requests, InsertSession(r) PROVE RowMoves
  BY SMTT(60), <1>0, <1>6 DEF InsertSession, PutSession, RowType, NoRow, RowMoves
<1>7. ASSUME NEW r \in Requests, PutLoggedOut(r) PROVE RowMoves
  BY SMTT(60), <1>0, <1>7 DEF PutLoggedOut, PutSession, RowType, NoRow, RowMoves
<1>8. ASSUME NEW r \in Requests, PutAction(r) PROVE RowMoves
  <2>1. row'.jid \in {row.jid, req[r].jid} /\ row'.status = ActionStatus(req[r].op)
    BY SMTT(60), <1>0, <1>8 DEF PutAction, PutSession, RowType, NoRow
  <2>2. req'[r].pc = "get" /\ req'[r].op = req[r].op
    BY SMTT(60), <1>0, <1>8 DEF PutAction, Go, TypeOK, ReqType
  <2>3. req[r].op \in {"reconnect", "disconnect", "logout"}
    BY Zenon, <1>0, <1>8 DEF PutAction, At, Owned, HandlersOwned
  <2>4. row'.status = "reconnecting" => req[r].op = "reconnect"
    BY Zenon, <2>1, <2>3 DEF ActionStatus
  <2> QED
    BY Zenon, <2>1, <2>2, <2>4 DEF RowMoves
<1>9. ASSUME NEW c \in Clients, QrWrite(c) \/ QrFail(c) \/ QrExpiry(c) PROVE RowMoves
  BY Zenon, <1>2, <1>3, <1>9 DEF QrWrite, QrFail, QrExpiry
<1>10. ASSUME NEW d \in Dialers, DialFail(d) PROVE RowMoves
  BY Zenon, <1>2, <1>10 DEF DialFail
<1>11. ASSUME NEW r \in Requests, CreateFailed(r) \/ DeleteRow(r) PROVE RowMoves
  BY Zenon, <1>2, <1>4, <1>11 DEF CreateFailed, DeleteRow
<1>12. CASE WritesRow
  BY Zenon, <1>1, <1>5, <1>6, <1>7, <1>8, <1>9, <1>10, <1>11, <1>12 DEF WritesRow, StoreMessage
<1> QED
  BY Zenon, <1>0, <1>1, <1>12, MovesNext DEF Moves

LEMMA LoopSame ==
  ASSUME NEW c \in Clients, qr'[c] = qr[c]
  PROVE  LoopStep(c)
  BY Zenon DEF LoopStep, LoopBusy

LEMMA LoopSteps ==
  ASSUME SessionInv, [Next]_vars, "qr" \notin Faults
  PROVE  \A c \in Clients : LoopStep(c)
<1> SUFFICES ASSUME NEW c \in Clients PROVE LoopStep(c)
  BY Zenon
<1>0. TypeOK /\ Owned /\ qr \in [Clients -> QrType] /\ qr[c] \in QrType
  BY Zenon DEF SessionInv, TypeOK
<1>1. ASSUME NEW b \in Clients, EmitCode(b) PROVE LoopStep(c)
  <2>1. qr' = [qr EXCEPT ![b].item = "code"] /\ qr[b].item = Empty
    BY Zenon, <1>1 DEF EmitCode
  <2>2. CASE b = c
    BY SMTT(60), <1>0, <2>1, <2>2, EmptyFacts DEF QrType, LoopStep, LoopBusy
  <2> QED
    BY Zenon, <1>0, <2>1, <2>2, LoopSame
<1>2. ASSUME NEW b \in Clients, EmitTimeout(b) PROVE LoopStep(c)
  <2>1. qr' = [qr EXCEPT ![b].item = "timeout", ![b].open = FALSE] /\ qr[b].item = Empty
    BY Zenon, <1>2 DEF EmitTimeout
  <2>2. CASE b = c
    BY SMTT(60), <1>0, <1>2, <2>1, <2>2, EmptyFacts DEF QrType, LoopStep, LoopBusy
  <2> QED
    BY Zenon, <1>0, <2>1, <2>2, LoopSame
<1>3. ASSUME NEW b \in Clients, PairDevice(b) PROVE LoopStep(c)
  <2>1. qr' = [qr EXCEPT ![b].open = FALSE]
    BY Zenon, <1>3 DEF PairDevice
  <2>2. EventComes'
    BY Zenon, <1>0, <1>3 DEF PairDevice, Emit, EventComes, TypeOK
  <2>3. CASE b = c
    BY SMTT(60), <1>0, <2>1, <2>2, <2>3 DEF QrType, LoopStep, LoopBusy
  <2> QED
    BY Zenon, <1>0, <2>1, <2>3, LoopSame
<1>4. ASSUME NEW b \in Clients, QrItem(b) PROVE LoopStep(c)
  <2>1. PICK p \in {"idle", "fail", "code"} : qr' = [qr EXCEPT ![b].pc = p, ![b].item = Empty]
                                              /\ (p = "idle" => current # b)
    BY Zenon, <1>4 DEF QrItem, QrGoto, IsCurrentClient
  <2>2. CASE b = c
    <3>1. qr[c].pc = "loop"
      BY Zenon, <1>4, <2>2 DEF QrItem
    <3> QED
      BY SMTT(60), <1>0, <2>1, <2>2, <3>1 DEF QrType, LoopStep, LoopBusy
  <2> QED
    BY Zenon, <1>0, <2>1, <2>2, LoopSame
<1>5. ASSUME NEW b \in Clients, QrClosed(b) PROVE LoopStep(c)
  <2>1. qr' = [qr EXCEPT ![b].pc = "idle"] /\ qr[b].pc = "loop" /\ qr[b].item = Empty /\ ~qr[b].open
    BY Zenon, <1>5 DEF QrClosed
  <2>2. CASE b = c
    BY SMTT(60), <1>0, <2>1, <2>2 DEF QrType, LoopStep, LoopBusy
  <2> QED
    BY Zenon, <1>0, <2>1, <2>2, LoopSame
<1>6. ASSUME NEW b \in Clients, QrCode(b) PROVE LoopStep(c)
  <2>1. PICK p \in {"write", "fail", "idle"} : qr' = [qr EXCEPT ![b].pc = p] /\ (p = "idle" => current # b)
    BY Zenon, <1>6 DEF QrCode, IsCurrentClient
  <2>2. CASE b = c
    BY SMTT(60), <1>0, <2>1, <2>2 DEF QrType, LoopStep, LoopBusy
  <2> QED
    BY Zenon, <1>0, <2>1, <2>2, LoopSame
<1>7. ASSUME NEW b \in Clients, QrWrite(b) \/ QrFail(b) PROVE LoopStep(c)
  <2>1. PICK p \in {"expiry", "loop"} : qr' = [qr EXCEPT ![b].pc = p]
    BY Zenon, <1>7 DEF QrWrite, QrFail
  <2>2. row'.status # "reconnecting"
    BY Zenon, <1>0, <1>7, UpdateEnds DEF QrWrite, QrFail
  <2>3. CASE b = c
    BY SMTT(60), <1>0, <2>1, <2>2, <2>3 DEF QrType, LoopStep, LoopBusy
  <2> QED
    BY Zenon, <1>0, <2>1, <2>3, LoopSame
<1>8. ASSUME NEW b \in Clients, QrExpiry(b) PROVE LoopStep(c)
  <2>1. qr' = [qr EXCEPT ![b].pc = "loop"] /\ qr[b].pc = "expiry"
    BY Zenon, <1>8 DEF QrExpiry
  <2>2. CASE b = c
    BY SMTT(60), <1>0, <2>1, <2>2 DEF QrType, LoopStep, LoopBusy
  <2> QED
    BY Zenon, <1>0, <2>1, <2>2, LoopSame
<1>9. ASSUME NEW r \in Requests, StartClient(r) PROVE LoopStep(c)
  <2> DEFINE b == req[r].client
  <2>1. qr' = [qr EXCEPT ![b] = [pc |-> "loop", item |-> Empty, open |-> TRUE]]
    BY Zenon, <1>9 DEF StartClient
  <2>2. CASE b = c
    <3>1. req[r].pc = "start"
      BY Zenon, <1>9 DEF StartClient, At
    <3>2. PICK d \in Dialers :
            dial' = [dial EXCEPT ![d] = [pc |-> "dial", client |-> c, phone |-> cl[c].phone]]
      BY Zenon, <1>9, <2>2 DEF StartClient, Spawn
    <3>3. Dialed(c)'
      BY Zenon, <1>0, <3>2 DEF Dialed, TypeOK
    <3>4. qr'[c].pc = "loop" /\ qr'[c].open = TRUE
      BY Zenon, <1>0, <2>1, <2>2
    <3> QED
      BY Zenon, <2>2, <3>1, <3>3, <3>4 DEF LoopStep, Starts
  <2> QED
    BY Zenon, <1>0, <2>1, <2>2, LoopSame
<1>10. CASE Crash
  <2>1. qr'[c].pc = "idle" /\ qr'[c].open = FALSE /\ current' = NoClient
    BY Zenon, <1>10 DEF Crash, IdleQr
  <2> QED
    BY Zenon, <2>1 DEF LoopStep
<1>11. CASE UNCHANGED qr
  BY Zenon, <1>11, LoopSame
<1> QED
  BY ZenonT(60), <1>1, <1>2, <1>3, <1>4, <1>5, <1>6, <1>7, <1>8, <1>9, <1>10, <1>11
  DEF Next, vars, mgr, Library, LogIn, AutoReconnect, Drop, RemoteLogout, HandleEvent, QrStep, Connect, DialFail,
      CreateSession, SessionAction, DeleteCheck, HandlerStep, InsertSession, RegisterClient, CreateFailed,
      PutAction, GetClient, CheckLogin, CloseClient, LogoutClient, ForgetClient, ForgetLoggedOut, RereadSession,
      PutLoggedOut, DeleteRow, StoreMessage, Load

LEMMA DialSame ==
  ASSUME NEW d \in Dialers, dial'[d] = dial[d]
  PROVE  DialStep(d)
  BY Zenon DEF DialStep

LEMMA DialSteps ==
  ASSUME SessionInv, [Next]_vars, NoBirth, "qr" \notin Faults
  PROVE  \A d \in Dialers : DialStep(d)
<1> SUFFICES ASSUME NEW d \in Dialers PROVE DialStep(d)
  BY Zenon
<1>0. TypeOK /\ Owned /\ dial \in [Dialers -> DialType] /\ cl \in [Clients -> ClType] /\ row \in RowType
  BY Zenon DEF SessionInv, TypeOK
<1>1. ASSUME NEW e \in Dialers, Connect(e) PROVE DialStep(d)
  <2>1. dial[e].pc = "dial" /\ dial[e].client \in Clients
    BY Zenon, <1>0, <1>1 DEF Connect, Owned, DialsOwned
  <2>2. CASE e = d
    <3>1. CASE /\ cl[dial[d].client].sock = "off"
               /\ cl' = [cl EXCEPT ![dial[d].client].sock = "open", ![dial[d].client].auto = FALSE]
               /\ dial' = [dial EXCEPT ![d] = IdleDial]
      <4>1. dial'[d].pc = "idle" /\ UNCHANGED <<devices, qr>>
        BY Zenon, <1>0, <1>1, <3>1 DEF IdleDial, Connect, disk
      <4>2. cl'[dial[d].client].sock = "open" /\ cl'[dial[d].client].device = cl[dial[d].client].device
        BY SMTT(60), <1>0, <2>1, <2>2, <3>1 DEF ClType
      <4> QED
        BY Zenon, <2>1, <2>2, <3>1, <4>1, <4>2 DEF DialStep
    <3>2. CASE dial' = [dial EXCEPT ![d] = IF IsCurrentClient(dial[d].client) THEN [@ EXCEPT !.pc = "fail"]
                                           ELSE IdleDial]
      <4>1. CASE current = dial[d].client
        <5>1. dial'[d].pc = "fail"
          BY SMTT(60), <1>0, <3>2, <4>1 DEF IsCurrentClient, DialType
        <5> QED
          BY Zenon, <2>1, <2>2, <5>1 DEF DialStep
      <4>2. CASE current # dial[d].client
        <5>1. dial'[d].pc = "idle"
          BY SMTT(60), <1>0, <3>2, <4>2 DEF IsCurrentClient, IdleDial
        <5> QED
          BY Zenon, <2>1, <2>2, <4>2, <5>1 DEF DialStep
      <4> QED
        BY Zenon, <4>1, <4>2
    <3> QED
      BY Zenon, <1>1, <2>2, <3>1, <3>2 DEF Connect
  <2>3. CASE e # d
    <3>1. dial'[d] = dial[d]
      BY Zenon, <1>0, <1>1, <2>3 DEF Connect
    <3> QED
      BY Zenon, <3>1, DialSame
  <2> QED
    BY Zenon, <2>2, <2>3
<1>2. ASSUME NEW e \in Dialers, DialFail(e) PROVE DialStep(d)
  <2>1. CASE e = d
    <3>1. dial[d].pc = "fail" /\ dial'[d].pc = "idle"
      BY Zenon, <1>0, <1>2, <2>1 DEF DialFail, IdleDial
    <3>2. row'.status # "reconnecting"
      BY Zenon, <1>0, <1>2, UpdateEnds DEF DialFail
    <3> QED
      BY Zenon, <3>1, <3>2 DEF DialStep
  <2> QED
    BY Zenon, <1>0, <1>2, <2>1, DialSame DEF DialFail
<1>3. ASSUME NEW r \in Requests, StartClient(r) \/ CheckLogin(r), ~UNCHANGED dial PROVE DialStep(d)
  <2>1. req[r].pc \in {"start", "check"}
    BY Zenon, <1>3 DEF StartClient, CheckLogin, At
  <2>2. PICK p : Spawn(req[r].client, p)
    BY Zenon, <1>3 DEF StartClient, CheckLogin, Redial
  <2>3. PICK e \in Dialers : /\ dial[e].pc = "idle"
                             /\ dial' = [dial EXCEPT ![e] = [pc |-> "dial", client |-> req[r].client, phone |-> p]]
    BY Zenon, <2>2 DEF Spawn
  <2>4. CASE e = d
    <3>1. dial'[d].pc = "dial" /\ dial'[d].client = req[r].client
      BY Zenon, <1>0, <2>3, <2>4
    <3> QED
      BY Zenon, <2>1, <2>3, <2>4, <3>1 DEF DialStep
  <2> QED
    BY Zenon, <1>0, <2>3, <2>4, DialSame
<1>4. CASE Crash
  <2>1. dial'[d].pc = "idle" /\ current' = NoClient
    BY Zenon, <1>4 DEF Crash, IdleDial
  <2> QED
    BY Zenon, <2>1 DEF DialStep
<1>5. CASE Load
  <2>1. UNCHANGED dial
    BY Zenon, <1>0, <1>5, IdFacts DEF Load, NoBirth, Owned, MapOwned
  <2> QED
    BY Zenon, <2>1, DialSame
<1>6. CASE UNCHANGED dial
  BY Zenon, <1>6, DialSame
<1> QED
  BY ZenonT(60), <1>1, <1>2, <1>3, <1>4, <1>5, <1>6
  DEF Next, vars, mgr, Library, EmitCode, EmitTimeout, PairDevice, LogIn, AutoReconnect, Drop, RemoteLogout,
      HandleEvent, QrStep, QrItem, QrClosed, QrCode, QrWrite, QrExpiry, QrFail, CreateSession, SessionAction,
      DeleteCheck, HandlerStep, InsertSession, RegisterClient, CreateFailed, PutAction, GetClient, CloseClient,
      LogoutClient, ForgetClient, ForgetLoggedOut, RereadSession, PutLoggedOut, DeleteRow, StoreMessage

LEMMA ReqSame ==
  ASSUME Handlers, NEW r \in Requests, req'[r] = req[r]
  PROVE  ReqStep(r)
  BY Zenon DEF ReqStep, Handlers

\* A handler that answers has done its part.
LEMMA ReqDone ==
  ASSUME NEW r \in Requests, req'[r] = IdleReq, req[r].pc = "forget" => current' = NoClient,
         \A c \in Clients : HandlerOf(req[r], c) /\ current = c /\ current' = c =>
           Starts(c) \/ Redials(c) \/ row'.status # "reconnecting"
  PROVE  ReqStep(r)
<1>1. req'[r].pc = "idle" /\ req'[r].op = "create" /\ req'[r].jid = NoClient
  BY SMTT(60) DEF IdleReq
<1> QED
  BY Zenon, <1>1 DEF ReqStep

\* A handler that goes on from where no reconnect needs it, or to a place
\* where one can rely on it
LEMMA ReqGoes ==
  ASSUME NEW r \in Requests, NEW p, p \notin {"start", "check", "close", "logout"},
         req'[r].pc = p, req'[r].op = req[r].op, req'[r].jid = req[r].jid,
         req[r].pc \notin {"idle", "action"} \/ row'.status # "reconnecting" \/ req[r].op # "disconnect",
         req[r].pc = "forget" => current' = NoClient,
         \A c \in Clients : HandlerOf(req[r], c) /\ current = c /\ current' = c => HandlerOf(req'[r], c)
  PROVE  ReqStep(r)
  BY Zenon DEF ReqStep

LEMMA ReqSteps ==
  ASSUME SessionInv, Handlers, [Next]_vars, NoBirth, "qr" \notin Faults
  PROVE  \A r \in Requests : ReqStep(r)
<1>0. TypeOK /\ Owned /\ req \in [Requests -> ReqType]
  BY Zenon DEF SessionInv, TypeOK
<1>1. CASE UNCHANGED req
  BY Zenon, <1>1, ReqSame
<1>2. ASSUME NEW r \in Requests, ReqStep(r), \A s \in Requests \ {r} : req'[s] = req[s]
      PROVE  \A s \in Requests : ReqStep(s)
  BY Zenon, <1>2, ReqSame
<1>3. ASSUME NEW r \in Requests, CreateSession(r) \/ DeleteCheck(r) PROVE \A s \in Requests : ReqStep(s)
  <2>1. req[r].pc = "idle" /\ \A s \in Requests \ {r} : req'[s] = req[s]
    BY Zenon, <1>0, <1>3 DEF CreateSession, DeleteCheck, At
  <2>2. /\ req'[r].jid = NoClient /\ req'[r].pc \in {"insert", "get"}
        /\ req'[r].op = "create" \/ (req'[r].op = "delete" /\ "delete" \in Ops)
    <3>1. CASE CreateSession(r)
      BY SMTT(60), <1>0, <3>1 DEF CreateSession, IdleReq
    <3>2. CASE DeleteCheck(r)
      BY SMTT(60), <1>0, <3>2 DEF DeleteCheck, IdleReq
    <3> QED
      BY Zenon, <1>3, <3>1, <3>2
  <2>3. ReqStep(r)
    BY Zenon, <2>1, <2>2 DEF ReqStep, HandlerOf
  <2> QED
    BY Zenon, <1>2, <2>1, <2>3
<1>4. ASSUME NEW r \in Requests, SessionAction(r) PROVE \A s \in Requests : ReqStep(s)
  <2>1. req[r].pc = "idle" /\ \A s \in Requests \ {r} : req'[s] = req[s]
    BY Zenon, <1>0, <1>4 DEF SessionAction, At
  <2>2. req'[r].jid = row.jid /\ req'[r].pc = "action" /\ req'[r].op \in Ops
    BY SMTT(60), <1>0, <1>4 DEF SessionAction
  <2>3. ReqStep(r)
    BY Zenon, <2>1, <2>2 DEF ReqStep, HandlerOf
  <2> QED
    BY Zenon, <1>2, <2>1, <2>3
<1>5. ASSUME NEW r \in Requests, NEW p, Go(r, p)
      PROVE  /\ req'[r].pc = p /\ req'[r].op = req[r].op /\ req'[r].jid = req[r].jid
             /\ req'[r].client = req[r].client /\ \A s \in Requests \ {r} : req'[s] = req[s]
  BY SMTT(60), <1>0, <1>5 DEF Go, ReqType
<1>6. ASSUME NEW r \in Requests, Done(r)
      PROVE  req'[r] = IdleReq /\ \A s \in Requests \ {r} : req'[s] = req[s]
  BY Zenon, <1>0, <1>6 DEF Done
<1>7. ASSUME NEW r \in Requests, InsertSession(r) PROVE \A s \in Requests : ReqStep(s)
  <2>1. Go(r, "register") /\ req[r].pc = "insert"
    BY Zenon, <1>7 DEF InsertSession, At
  <2>2. ReqStep(r)
    BY Zenon, <2>1, <1>5, ReqGoes DEF HandlerOf
  <2> QED
    BY Zenon, <1>2, <1>5, <2>1, <2>2
<1>8. ASSUME NEW r \in Requests, RegisterClient(r) PROVE \A s \in Requests : ReqStep(s)
  <2>1. Done(r) /\ req[r].pc = "register"
    BY Zenon, <1>8, IdFacts DEF RegisterClient, At, HasClient, NoBirth
  <2>2. ReqStep(r)
    BY Zenon, <2>1, <1>6, ReqDone DEF HandlerOf
  <2> QED
    BY Zenon, <1>2, <1>6, <2>1, <2>2
<1>9. ASSUME NEW r \in Requests, StartClient(r) PROVE \A s \in Requests : ReqStep(s)
  <2> DEFINE b == req[r].client
  <2>1. Done(r) /\ req[r].pc = "start" /\ qr' = [qr EXCEPT ![b] = [pc |-> "loop", item |-> Empty, open |-> TRUE]]
    BY Zenon, <1>9 DEF StartClient, At
  <2>2. PICK d \in Dialers :
          dial' = [dial EXCEPT ![d] = [pc |-> "dial", client |-> b, phone |-> cl[b].phone]]
    BY Zenon, <1>9 DEF StartClient, Spawn
  <2>3. ASSUME NEW c \in Clients, b = c PROVE Starts(c)
    <3>1. Dialed(c)'
      BY Zenon, <1>0, <2>2, <2>3 DEF Dialed, TypeOK
    <3>2. qr'[c].pc = "loop" /\ qr'[c].open
      BY Zenon, <1>0, <2>1, <2>3 DEF TypeOK
    <3> QED
      BY Zenon, <3>1, <3>2 DEF Starts
  <2>4. ReqStep(r)
    BY Zenon, <2>1, <2>3, <1>6, ReqDone DEF HandlerOf
  <2> QED
    BY Zenon, <1>2, <1>6, <2>1, <2>4
<1>10. ASSUME NEW r \in Requests, CreateFailed(r) \/ PutLoggedOut(r) \/ DeleteRow(r)
       PROVE  \A s \in Requests : ReqStep(s)
  <2>1. Done(r) /\ req[r].pc \in {"createFailed", "loggedOut", "deleteRow"}
    BY Zenon, <1>10 DEF CreateFailed, PutLoggedOut, DeleteRow, At
  <2>2. ReqStep(r)
    BY Zenon, <2>1, <1>6, ReqDone DEF HandlerOf
  <2> QED
    BY Zenon, <1>2, <1>6, <2>1, <2>2
<1>11. ASSUME NEW r \in Requests, PutAction(r) PROVE \A s \in Requests : ReqStep(s)
  <2>1. Go(r, "get") /\ req[r].pc = "action"
    BY Zenon, <1>11 DEF PutAction, At
  <2>2. req[r].op # "disconnect" \/ row'.status # "reconnecting"
    <3> SUFFICES ASSUME req[r].op = "disconnect" PROVE row'.status # "reconnecting"
      BY Zenon
    <3>1. ActionStatus(req[r].op) = "disconnected"
      BY SMTT(60) DEF ActionStatus
    <3> QED
      BY SMTT(60), <1>0, <1>11, <3>1 DEF PutAction, PutSession, TypeOK, RowType, NoRow
  <2>3. ReqStep(r)
    BY Zenon, <2>1, <2>2, <1>5, ReqGoes DEF HandlerOf
  <2> QED
    BY Zenon, <1>2, <1>5, <2>1, <2>3
<1>12. ASSUME NEW r \in Requests, GetClient(r) PROVE \A s \in Requests : ReqStep(s)
  <2>1. req[r].pc = "get" /\ current' = current
    BY Zenon, <1>12 DEF GetClient, At, mgr
  <2>2. CASE current # NoClient
    <3>1. PICK p : /\ req' = [req EXCEPT ![r].client = current, ![r].pc = p]
                   /\ \/ p = "check" /\ req[r].op = "reconnect"
                      \/ p = "close" /\ req[r].op = "disconnect"
                      \/ p = "logout"
      <4> DEFINE p == CASE req[r].op = "reconnect" -> "check" [] req[r].op = "disconnect" -> "close"
                        [] OTHER -> "logout"
      <4>1. req' = [req EXCEPT ![r].client = current, ![r].pc = p]
        BY Zenon, <1>12, <2>2 DEF GetClient
      <4>2. \/ p = "check" /\ req[r].op = "reconnect"
            \/ p = "close" /\ req[r].op = "disconnect"
            \/ p = "logout"
        BY SMTT(60)
      <4> QED
        BY Zenon, <4>1, <4>2
    <3>2. /\ req'[r].pc = p /\ req'[r].client = current /\ req'[r].op = req[r].op /\ req'[r].jid = req[r].jid
          /\ \A s \in Requests \ {r} : req'[s] = req[s]
      BY SMTT(60), <1>0, <3>1 DEF ReqType
    <3>3. current \in Clients
      BY Zenon, <1>0, <2>2 DEF TypeOK, Ids
    <3>4. ReqStep(r)
      BY Zenon, <2>1, <3>1, <3>2, <3>3 DEF ReqStep, HandlerOf
    <3> QED
      BY Zenon, <1>2, <3>2, <3>4
  <2>3. CASE current = NoClient
    <3>1. \A c \in Clients : current # c
      BY Zenon, <2>3, IdFacts
    <3>2. CASE Done(r)
      <4>1. ReqStep(r)
        BY Zenon, <2>1, <3>1, <3>2, <1>6, ReqDone
      <4> QED
        BY Zenon, <1>2, <1>6, <3>2, <4>1
    <3>3. ASSUME NEW p \in {"reread", "deleteRow"}, Go(r, p) PROVE \A s \in Requests : ReqStep(s)
      <4>1. ReqStep(r)
        BY Zenon, <2>1, <3>1, <3>3, <1>5, ReqGoes
      <4> QED
        BY Zenon, <1>2, <1>5, <3>3, <4>1
    <3> QED
      BY Zenon, <1>12, <2>3, <3>2, <3>3 DEF GetClient
  <2> QED
    BY Zenon, <2>2, <2>3
<1>13. ASSUME NEW r \in Requests, CheckLogin(r) PROVE \A s \in Requests : ReqStep(s)
  <2> DEFINE b == req[r].client
  <2>1. req[r].pc = "check" /\ req[r].op = "reconnect" /\ UNCHANGED <<cl, devices>>
    BY Zenon, <1>13 DEF CheckLogin, At, Handlers, disk
  <2>2. CASE cl[b].loggedIn /\ Redial(r) /\ Done(r)
    <3>1. PICK d \in Dialers : dial' = [dial EXCEPT ![d] = [pc |-> "dial", client |-> b, phone |-> Empty]]
      BY Zenon, <2>2 DEF Redial, Spawn
    <3>2. ASSUME NEW c \in Clients, b = c PROVE Redials(c)
      <4>1. Dialed(c)'
        BY Zenon, <1>0, <3>1, <3>2 DEF Dialed, TypeOK
      <4> QED
        BY Zenon, <2>1, <2>2, <3>2, <4>1 DEF Redials
    <3>3. ReqStep(r)
      BY Zenon, <2>1, <2>2, <3>2, <1>6, ReqDone DEF HandlerOf
    <3> QED
      BY Zenon, <1>2, <1>6, <2>2, <3>3
  <2>3. CASE Go(r, "close")
    <3>1. ReqStep(r)
      BY Zenon, <2>1, <2>3, <1>5 DEF ReqStep, HandlerOf
    <3> QED
      BY Zenon, <1>2, <1>5, <2>3, <3>1
  <2> QED
    BY Zenon, <1>13, <2>2, <2>3 DEF CheckLogin, LoggedIn
<1>14. ASSUME NEW r \in Requests, CloseClient(r) PROVE \A s \in Requests : ReqStep(s)
  <2>1. req[r].pc = "close" /\ req[r].op \in {"reconnect", "disconnect"} /\ UNCHANGED row
    BY Zenon, <1>14 DEF CloseClient, At, Handlers, disk
  <2>2. CASE req[r].op = "reconnect"
    <3>1. Go(r, "forget")
      BY Zenon, <1>14, <2>2 DEF CloseClient
    <3>2. ReqStep(r)
      <4>1. req'[r].pc = "forget" /\ \A c \in Clients : HandlerOf(req'[r], c)
        BY Zenon, <3>1, <1>5 DEF HandlerOf
      <4> QED
        BY Zenon, <2>1, <3>1, <4>1, <1>5, ReqGoes
    <3> QED
      BY Zenon, <1>2, <1>5, <3>1, <3>2
  <2>3. CASE req[r].op = "disconnect"
    <3>1. Done(r) /\ row'.status # "reconnecting"
      BY Zenon, <1>14, <2>1, <2>3 DEF CloseClient, Handlers
    <3>2. ReqStep(r)
      BY Zenon, <2>1, <3>1, <1>6, ReqDone
    <3> QED
      BY Zenon, <1>2, <1>6, <3>1, <3>2
  <2> QED
    BY Zenon, <2>1, <2>2, <2>3
<1>15. ASSUME NEW r \in Requests, LogoutClient(r) PROVE \A s \in Requests : ReqStep(s)
  <2>1. req[r].pc = "logout" /\ (Go(r, "forget") \/ Go(r, "forgetFailed"))
    BY Zenon, <1>15 DEF LogoutClient, At
  <2>2. ASSUME NEW p \in {"forget", "forgetFailed"}, Go(r, p) PROVE ReqStep(r)
    <3>1. req'[r].pc = p /\ \A c \in Clients : HandlerOf(req'[r], c)
      BY Zenon, <2>2, <1>5 DEF HandlerOf
    <3> QED
      BY Zenon, <2>1, <2>2, <3>1, <1>5, ReqGoes
  <2> QED
    BY Zenon, <1>2, <1>5, <2>1, <2>2
<1>16. ASSUME NEW r \in Requests, ForgetClient(r) \/ ForgetLoggedOut(r) PROVE \A s \in Requests : ReqStep(s)
  <2>1. /\ req[r].pc \in {"forget", "forgetFailed"} /\ current' = NoClient
        /\ Go(r, "reread") \/ Go(r, "deleteRow") \/ Go(r, "loggedOut") \/ Done(r)
    BY Zenon, <1>16 DEF ForgetClient, ForgetLoggedOut, At
  <2>2. \A c \in Clients : current' # c
    BY Zenon, <2>1, IdFacts
  <2>3. CASE Done(r)
    <3>1. ReqStep(r)
      BY Zenon, <2>1, <2>2, <2>3, <1>6, ReqDone
    <3> QED
      BY Zenon, <1>2, <1>6, <2>3, <3>1
  <2>4. ASSUME NEW p \in {"reread", "deleteRow", "loggedOut"}, Go(r, p) PROVE \A s \in Requests : ReqStep(s)
    <3>1. ReqStep(r)
      BY Zenon, <2>1, <2>2, <2>4, <1>5, ReqGoes
    <3> QED
      BY Zenon, <1>2, <1>5, <2>4, <3>1
  <2> QED
    BY Zenon, <2>1, <2>3, <2>4
<1>17. ASSUME NEW r \in Requests, RereadSession(r) PROVE \A s \in Requests : ReqStep(s)
  <2>1. req[r].pc = "reread"
    BY Zenon, <1>17 DEF RereadSession, At
  <2>2. CASE Done(r)
    <3>1. ReqStep(r)
      BY Zenon, <2>1, <2>2, <1>6, ReqDone DEF HandlerOf
    <3> QED
      BY Zenon, <1>2, <1>6, <2>2, <3>1
  <2>3. CASE req' = [req EXCEPT ![r].pc = "register", ![r].phone = row.phone]
    <3>1. /\ req'[r].pc = "register" /\ req'[r].op = req[r].op /\ req'[r].jid = req[r].jid
          /\ \A s \in Requests \ {r} : req'[s] = req[s]
      BY SMTT(60), <1>0, <2>3 DEF ReqType
    <3>2. ReqStep(r)
      BY Zenon, <2>1, <3>1, ReqGoes DEF HandlerOf
    <3> QED
      BY Zenon, <1>2, <3>1, <3>2
  <2> QED
    BY Zenon, <1>17, <2>2, <2>3 DEF RereadSession
<1>18. CASE Crash
  <2> SUFFICES ASSUME NEW r \in Requests PROVE ReqStep(r)
    BY Zenon
  <2>1. req'[r] = IdleReq /\ current' = NoClient
    BY Zenon, <1>18 DEF Crash
  <2>2. \A c \in Clients : current' # c
    BY Zenon, <2>1, IdFacts
  <2> QED
    BY Zenon, <2>1, <2>2, ReqDone
<1> QED
  BY ZenonT(60), <1>1, <1>3, <1>4, <1>7, <1>8, <1>9, <1>10, <1>11, <1>12, <1>13, <1>14, <1>15, <1>16, <1>17, <1>18
  DEF Next, vars, http, Library, EmitCode, EmitTimeout, PairDevice, LogIn, AutoReconnect, Drop, RemoteLogout,
      HandleEvent, QrStep, QrItem, QrClosed, QrCode, QrWrite, QrExpiry, QrFail, Connect, DialFail, HandlerStep,
      StoreMessage, Load

LEMMA StepsNext ==
  ASSUME SessionInv, HandInv, [Next]_vars, NoBirth, "qr" \notin Faults
  PROVE  Steps
<1>1. up' \/ UNCHANGED up \/ \A c \in Clients : ~Active(c)'
  <2>1. ASSUME Crash, NEW c \in Clients PROVE ~Active(c)'
    <3>1. cl'[c].sock = "off" /\ ~cl'[c].auto
      <4>1. cl'[c] = [cl[c] EXCEPT !.sock = "off", !.auto = FALSE] /\ cl[c] \in ClType
        BY Zenon, <2>1 DEF Crash, SessionInv, TypeOK
      <4> QED
        BY Zenon, <4>1 DEF ClType
    <3>2. /\ current' = NoClient /\ \A d \in Dialers : dial'[d].pc = "idle"
          /\ \A r \in Requests : req'[r].pc = "idle"
      BY Zenon, <2>1 DEF Crash, IdleDial, IdleReq
    <3> QED
      BY Zenon, <3>1, <3>2, IdFacts DEF Active
  <2>2. CASE up' \/ UNCHANGED up
    BY Zenon, <2>2
  <2> QED
    BY ZenonT(60), <2>1, <2>2
    DEF Next, vars, Library, EmitCode, EmitTimeout, PairDevice, LogIn, AutoReconnect, Drop, RemoteLogout,
        HandleEvent, QrStep, QrItem, QrClosed, QrCode, QrWrite, QrExpiry, QrFail, Connect, DialFail,
        CreateSession, SessionAction, DeleteCheck, HandlerStep, InsertSession, RegisterClient, StartClient,
        CreateFailed, PutAction, GetClient, CheckLogin, CloseClient, LogoutClient, ForgetClient,
        ForgetLoggedOut, RereadSession, PutLoggedOut, DeleteRow, StoreMessage, Load
<1> QED
  BY Zenon, <1>1, ClSteps, DevSteps, EvSteps, RowMovesNext, LoopSteps, DialSteps, ReqSteps DEF Steps, HandInv

----------------------------------------------------------------------------
(* A step that brings a client: Create registers it, or Load restores it.  *)

Registers(r, c) ==
  /\ current = NoClient /\ current' = c /\ ~cl[c].used /\ req[r].pc = "register" /\ up
  /\ cl'[c].used /\ cl'[c].device = c /\ ~cl'[c].loaded /\ ~cl'[c].loggedIn
  /\ cl'[c].sock = "off" /\ ~cl'[c].auto /\ \A b \in Clients \ {c} : cl'[b] = cl[b]
  /\ req'[r].pc = "start" /\ req'[r].client = c /\ req'[r].op = req[r].op /\ req'[r].jid = req[r].jid
  /\ \A s \in Requests \ {r} : req'[s] = req[s]
  /\ UNCHANGED <<up, row, devices, qr, ev, dial>>

Restores(d, c) ==
  /\ current = NoClient /\ current' = c /\ ~cl[c].used /\ ~up /\ up'
  /\ cl'[c].used /\ cl'[c].device = row.jid /\ row.jid \in devices /\ cl'[c].loaded /\ ~cl'[c].loggedIn
  /\ cl'[c].sock = "off" /\ ~cl'[c].auto /\ \A b \in Clients \ {c} : cl'[b] = cl[b]
  /\ dial'[d].pc = "dial" /\ dial'[d].client = c /\ \A e \in Dialers \ {d} : dial'[e] = dial[e]
  /\ UNCHANGED <<row, devices, qr, ev, req>>

LEMMA Births ==
  ASSUME SessionInv, [Next]_vars, ~NoBirth
  PROVE  \E c \in Clients : \/ \E r \in Requests : Registers(r, c)
                            \/ \E d \in Dialers : Restores(d, c)
<1>0. TypeOK /\ Owned
  BY Zenon DEF SessionInv
<1>1. ASSUME NEW r \in Requests, RegisterClient(r)
      PROVE  \E c \in Clients : Registers(r, c)
  <2>1. ~HasClient /\ req[r].pc = "register" /\ UNCHANGED <<up, row, devices, qr, ev, dial>>
    BY Zenon, <1>1 DEF RegisterClient, At, NoBirth, disk
  <2>2. PICK c \in Clients :
          /\ Unborn(c)
          /\ current' = c
          /\ cl' = [cl EXCEPT ![c] = [Unused EXCEPT !.used = TRUE, !.device = c, !.phone = req[r].phone]]
          /\ req' = [req EXCEPT ![r].pc = "start", ![r].client = c]
    BY Zenon, <1>1, <2>1 DEF RegisterClient
  <2>3. /\ cl'[c].used /\ cl'[c].device = c /\ ~cl'[c].loaded /\ ~cl'[c].loggedIn
        /\ cl'[c].sock = "off" /\ ~cl'[c].auto /\ \A b \in Clients \ {c} : cl'[b] = cl[b]
    BY Zenon, <1>0, <2>2 DEF TypeOK, Unused
  <2>4. /\ req'[r].pc = "start" /\ req'[r].client = c /\ req'[r].op = req[r].op /\ req'[r].jid = req[r].jid
        /\ \A s \in Requests \ {r} : req'[s] = req[s]
    BY SMTT(60), <1>0, <2>2 DEF TypeOK, ReqType
  <2>5. up
    BY Zenon, <1>0, <2>1 DEF Owned, MapOwned
  <2> QED
    BY Zenon, <2>1, <2>2, <2>3, <2>4, <2>5 DEF Registers, HasClient, Unborn
<1>2. ASSUME Load
      PROVE  \E c \in Clients : \E d \in Dialers : Restores(d, c)
  <2>1. Restorable /\ ~up /\ up' /\ current = NoClient /\ UNCHANGED <<row, devices, qr, ev, req>>
    BY Zenon, <1>0, <1>2 DEF Load, NoBirth, disk, http, Owned, MapOwned
  <2>2. row.jid \in devices
    BY Zenon, <2>1 DEF Restorable, ListSessions
  <2>3. PICK c \in Clients :
          /\ Unborn(c)
          /\ current' = c
          /\ cl' = [cl EXCEPT ![c] = [Unused EXCEPT !.used = TRUE, !.loaded = TRUE,
                       !.device = row.jid, !.phone = row.phone]]
          /\ Spawn(c, row.phone)
    BY Zenon, <1>2, <2>1 DEF Load
  <2>4. /\ cl'[c].used /\ cl'[c].device = row.jid /\ cl'[c].loaded /\ ~cl'[c].loggedIn
        /\ cl'[c].sock = "off" /\ ~cl'[c].auto /\ \A b \in Clients \ {c} : cl'[b] = cl[b]
    BY Zenon, <1>0, <2>3 DEF TypeOK, Unused
  <2>5. PICK d \in Dialers : dial' = [dial EXCEPT ![d] = [pc |-> "dial", client |-> c, phone |-> row.phone]]
    BY Zenon, <2>3 DEF Spawn
  <2>6. dial'[d].pc = "dial" /\ dial'[d].client = c /\ \A e \in Dialers \ {d} : dial'[e] = dial[e]
    BY Zenon, <1>0, <2>5 DEF TypeOK
  <2> QED
    BY Zenon, <2>1, <2>2, <2>3, <2>4, <2>6 DEF Restores, Unborn
<1>3. ~UNCHANGED current /\ current' # NoClient
  BY Zenon DEF NoBirth
<1> QED
  BY ZenonT(60), <1>1, <1>2, <1>3
  DEF Next, vars, mgr, Library, EmitCode, EmitTimeout, PairDevice, LogIn, AutoReconnect, Drop, RemoteLogout,
      HandleEvent, QrStep, QrItem, QrClosed, QrCode, QrWrite, QrExpiry, QrFail, Connect, DialFail,
      CreateSession, SessionAction, DeleteCheck, HandlerStep, InsertSession, StartClient,
      CreateFailed, PutAction, GetClient, CheckLogin, CloseClient, LogoutClient, ForgetClient,
      ForgetLoggedOut, RereadSession, PutLoggedOut, DeleteRow, StoreMessage, Crash

\* Only a client that was created is active.
LEMMA ActiveUsed ==
  ASSUME SessionInv, NEW c \in Clients, Active(c)
  PROVE  cl[c].used
  BY Zenon, IdFacts DEF SessionInv, Owned, ClientsOwned, DialsOwned, HandlersOwned, MapOwned, Active

LEMMA RegistersKeeps ==
  ASSUME SessionInv, HandInv, NEW r \in Requests, NEW c \in Clients, Registers(r, c)
  PROVE  HandInv'
<1> USE DEF HandInv
<1>0. \A b \in Clients : (cl[b].used => b # c /\ cl'[b] = cl[b]) /\ (current' = b => b = c) /\ (b # c => cl'[b] = cl[b])
  BY Zenon DEF Registers
<1>1. OneLife'
  <2>1. \A b \in Clients : Active(b)' /\ b # c => Active(b)
    <3> SUFFICES ASSUME NEW b \in Clients, Active(b)', b # c PROVE Active(b)
      BY Zenon
    <3>1. cl'[b] = cl[b] /\ dial' = dial /\ current' # b
      BY Zenon, <1>0 DEF Registers
    <3>2. \A s \in Requests : req'[s].pc \in {"start", "check"} /\ req'[s].client = b => req'[s] = req[s]
      BY Zenon DEF Registers
    <3> QED
      BY Zenon, <3>1, <3>2 DEF Active
  <2>2. ASSUME NEW b \in Clients, Active(b)', b # c, cl'[b].device = cl'[c].device PROVE FALSE
    <3>1. cl[b].used /\ cl[b].device = c
      BY Zenon, <1>0, <2>1, <2>2, ActiveUsed DEF Registers
    <3> QED
      BY Zenon, <3>1, IdFacts DEF DevicesKnown, Known, Registers
  <2>3. \A a, b \in Clients : Active(a)' /\ Active(b)' /\ cl'[a].device = cl'[b].device => a = b
    BY Zenon, <1>0, <2>1, <2>2 DEF OneLife
  <2> QED
    BY Zenon, <2>3 DEF OneLife, Registers
<1>2. DevicesKnown'
  <2>1. \A i : Known(i) => Known(i)'
    BY Zenon, <1>0 DEF Known
  <2>2. Known(c)'
    BY Zenon DEF Known, Registers
  <2>3. Known(row.jid)' /\ \A s \in Requests : Known(req[s].jid)'
    BY Zenon, <2>1 DEF DevicesKnown, Registers
  <2>4. \A b \in Clients : cl'[b].used => Known(cl[b].device)'
    BY Zenon, <2>1, <2>2 DEF DevicesKnown, Registers
  <2> QED
    BY Zenon, <2>3, <2>4 DEF DevicesKnown, Known
<1>3. PairsOnce'
  <2>1. \A b \in Clients : qr'[b].open \/ HasPaired(b)' => cl'[b].used /\ ~cl'[b].loaded
    BY Zenon, <1>0 DEF PairsOnce, HasPaired, Registers
  <2>2. ASSUME NEW s \in Requests, req'[s].pc = "start" PROVE ~cl'[req'[s].client].loaded
    <3>1. CASE s = r
      BY Zenon, <3>1 DEF Registers
    <3>2. CASE s # r
      <4>1. req'[s] = req[s]
        BY Zenon, <3>2 DEF Registers
      <4>2. req[s].client \in Clients /\ cl[req[s].client].used /\ ~cl[req[s].client].loaded
        BY Zenon, <2>2, <4>1 DEF PairsOnce, SessionInv, Owned, HandlersOwned
      <4> QED
        BY Zenon, <1>0, <4>1, <4>2
    <3> QED
      BY Zenon, <3>1, <3>2
  <2> QED
    BY Zenon, <2>1, <2>2 DEF PairsOnce
<1>4. Handlers'
  <2> SUFFICES ASSUME NEW s \in Requests
               PROVE  /\ req'[s].op = "disconnect" => "disconnect" \in Ops
                      /\ req'[s].op = "disconnect" /\ req'[s].pc \notin {"idle", "action"}
                           => row'.status # "reconnecting"
                      /\ req'[s].pc = "check" => req'[s].op = "reconnect"
                      /\ req'[s].pc = "close" => req'[s].op \in {"reconnect", "disconnect"}
                      /\ req'[s].pc = "logout" => req'[s].client \in Clients
    BY Zenon DEF Handlers
  <2>1. CASE s = r
    <3>1. req[s].pc = "register" /\ req'[s].pc = "start" /\ req'[s].op = req[s].op /\ row' = row
      BY Zenon, <2>1 DEF Registers
    <3> QED
      BY Zenon, <3>1 DEF Handlers
  <2>2. CASE s # r
    <3>1. req'[s] = req[s] /\ row' = row
      BY Zenon, <2>2 DEF Registers
    <3> QED
      BY Zenon, <3>1 DEF Handlers
  <2> QED
    BY Zenon, <2>1, <2>2
<1>5. ~qr'[c].open /\ qr'[c].pc = "idle"
  BY Zenon DEF Registers, PairsOnce, SessionInv, Owned, ClientsOwned
<1>6. LoopRuns' /\ LoggedOutLeaves' /\ ExpiryInHand'
  BY Zenon, <1>0, <1>5 DEF LoopRuns, LoggedOutLeaves, ExpiryInHand, Registers
<1>7. CurrentInHand'
  BY Zenon, <1>0 DEF CurrentInHand, InHand, HandlerHas, HandlerOf, Registers
<1> QED
  BY Zenon, <1>1, <1>2, <1>3, <1>4, <1>6, <1>7

LEMMA RestoresKeeps ==
  ASSUME SessionInv, HandInv, NEW d \in Dialers, NEW c \in Clients, Restores(d, c)
  PROVE  HandInv'
<1> USE DEF HandInv
<1>0. \A b \in Clients : (cl[b].used => b # c /\ cl'[b] = cl[b]) /\ (current' = b => b = c) /\ (b # c => cl'[b] = cl[b])
  BY Zenon DEF Restores
<1>1. OneLife'
  <2>1. \A b \in Clients : Active(b)' => b = c
    <3> SUFFICES ASSUME NEW b \in Clients, Active(b)', b # c PROVE FALSE
      BY Zenon
    <3>1. cl'[b] = cl[b] /\ req' = req /\ current' # b /\ ~Active(b)
      BY Zenon, <1>0 DEF Restores, OneLife
    <3>2. \A e \in Dialers : dial'[e].pc = "dial" /\ dial'[e].client = b => dial'[e] = dial[e]
      BY Zenon DEF Restores
    <3> QED
      BY Zenon, <3>1, <3>2 DEF Active
  <2> QED
    BY Zenon, <2>1 DEF OneLife, Restores
<1>2. DevicesKnown'
  <2>1. \A i : Known(i) => Known(i)'
    BY Zenon, <1>0 DEF Known
  <2>2. Known(row.jid)' /\ \A s \in Requests : Known(req[s].jid)'
    BY Zenon, <2>1 DEF DevicesKnown, Restores
  <2>3. \A b \in Clients : cl'[b].used => Known(cl[b].device)'
    BY Zenon, <2>1, <2>2 DEF DevicesKnown, Restores
  <2> QED
    BY Zenon, <2>2, <2>3 DEF DevicesKnown, Known
<1>3. \A s \in Requests : req'[s].pc = "idle" /\ req'[s] = req[s]
  BY Zenon DEF Restores, SessionInv, Owned, MapOwned
<1>4. PairsOnce'
  <2>1. \A b \in Clients : qr'[b].open \/ HasPaired(b)' => cl'[b].used /\ ~cl'[b].loaded
    BY Zenon, <1>0 DEF PairsOnce, HasPaired, Restores
  <2> QED
    BY Zenon, <1>3, <2>1 DEF PairsOnce
<1>5. Handlers'
  BY Zenon, <1>3 DEF Handlers
<1>6. ~qr'[c].open /\ qr'[c].pc = "idle"
  BY Zenon DEF Restores, PairsOnce, SessionInv, Owned, ClientsOwned
<1>7. LoopRuns' /\ LoggedOutLeaves' /\ ExpiryInHand'
  BY Zenon, <1>0, <1>6 DEF LoopRuns, LoggedOutLeaves, ExpiryInHand, Restores
<1>8. CurrentInHand'
  <2>1. Dialed(c)' /\ Reachable(c)'
    BY Zenon DEF Dialed, Reachable, Paired, Restores
  <2> QED
    BY Zenon, <1>0, <2>1 DEF CurrentInHand, InHand
<1> QED
  BY Zenon, <1>1, <1>2, <1>4, <1>5, <1>7, <1>8

LEMMA HandInit == Init => HandInv
<1> SUFFICES ASSUME Init PROVE HandInv
  BY Zenon
<1>1. /\ \A c \in Clients : /\ ~cl[c].used /\ cl[c].sock = "off" /\ ~cl[c].auto /\ ev[c] = {}
                            /\ ~qr[c].open /\ current # c
      /\ \A d \in Dialers : dial[d].pc = "idle"
      /\ \A r \in Requests : req[r].pc = "idle" /\ req[r].op = "create" /\ req[r].jid = NoClient
      /\ row.status = "none" /\ row.jid = NoClient /\ up
  BY Zenon, IdFacts DEF Init, Unused, IdleQr, IdleDial, IdleReq, NoRow
<1>2. OneLife /\ DevicesKnown /\ PairsOnce /\ Handlers
  BY Zenon, <1>1 DEF OneLife, Active, DevicesKnown, Known, PairsOnce, HasPaired, Handlers
<1>3. LoopRuns /\ LoggedOutLeaves /\ ExpiryInHand /\ CurrentInHand
  BY Zenon, <1>1 DEF LoopRuns, LoggedOutLeaves, ExpiryInHand, CurrentInHand
<1> QED
  BY Zenon, <1>2, <1>3 DEF HandInv

LEMMA HandNext ==
  ASSUME DisconnectsAlone, "qr" \notin Faults, SessionInv, HandInv, [Next]_vars
  PROVE  HandInv'
<1>1. CASE NoBirth
  <2>1. Steps /\ TypeOK /\ Owned
    BY Zenon, <1>1, StepsNext DEF SessionInv
  <2>2. OneLife' /\ DevicesKnown' /\ PairsOnce' /\ Handlers'
    BY Zenon, <2>1, OneLifeKept, DevicesKnownKept, PairsOnceKept, HandlersKept DEF HandInv
  <2>3. LoopRuns' /\ LoggedOutLeaves' /\ ExpiryInHand'
    BY Zenon, <2>1, LoopRunsKept, LoggedOutLeavesKept, ExpiryInHandKept DEF HandInv
  <2>4. CurrentInHand'
    BY Zenon, <2>1, CurrentInHandKept
  <2> QED
    BY Zenon, <2>2, <2>3, <2>4 DEF HandInv
<1>2. CASE ~NoBirth
  BY Zenon, <1>2, Births, RegistersKeeps, RestoresKeeps
<1> QED
  BY Zenon, <1>1, <1>2

----------------------------------------------------------------------------
(* A reconnect without a client: its handler is about to make one, or the  *)
(* client was taken away.                                                  *)

Waits(v) == v.op = "reconnect" /\ v.pc \in {"get", "reread", "register"}

TakenInv ==
  row.status = "reconnecting" /\ current = NoClient /\ ~taken => \E r \in Requests : Waits(req[r])

TakenStep ==
  \/ taken' \/ current' # NoClient \/ row'.status # "reconnecting"
  \/ \E r \in Requests : Waits(req'[r])
  \/ /\ taken => taken'
     /\ UNCHANGED current
     /\ \A r \in Requests : Waits(req[r]) => Waits(req'[r])

LEMMA TakenSteps ==
  ASSUME SessionInv, [Next]_vars
  PROVE  TakenStep
<1>0. TypeOK /\ Owned /\ req \in [Requests -> ReqType]
  BY Zenon DEF SessionInv, TypeOK
<1>1. CASE UNCHANGED <<req, current, taken>>
  BY Zenon, <1>1 DEF TakenStep
<1>2. ASSUME NEW r \in Requests, NEW p, Go(r, p)
      PROVE  req'[r].pc = p /\ req'[r].op = req[r].op /\ \A s \in Requests \ {r} : req'[s] = req[s]
  BY SMTT(60), <1>0, <1>2 DEF Go, ReqType
<1>3. ASSUME NEW r \in Requests, ~Waits(req[r]), \A s \in Requests \ {r} : req'[s] = req[s],
             taken => taken', UNCHANGED current
      PROVE  TakenStep
  BY Zenon, <1>3 DEF TakenStep
<1>4. ASSUME NEW r \in Requests, CreateSession(r) \/ SessionAction(r) \/ DeleteCheck(r) PROVE TakenStep
  <2>1. req[r].pc = "idle" /\ \A s \in Requests \ {r} : req'[s] = req[s]
    BY Zenon, <1>0, <1>4 DEF CreateSession, SessionAction, DeleteCheck, At
  <2>2. UNCHANGED <<current, taken>>
    BY Zenon, <1>4 DEF CreateSession, SessionAction, DeleteCheck, mgr, obs
  <2> QED
    BY Zenon, <1>3, <2>1, <2>2 DEF Waits
<1>5. ASSUME NEW r \in Requests,
             \/ InsertSession(r) \/ StartClient(r) \/ CreateFailed(r) \/ CheckLogin(r)
             \/ CloseClient(r) \/ LogoutClient(r) \/ PutLoggedOut(r) \/ DeleteRow(r)
      PROVE  TakenStep
  <2>1. req[r].pc \notin {"get", "reread", "register"} /\ UNCHANGED <<current, taken>>
    BY Zenon, <1>5 DEF InsertSession, StartClient, CreateFailed, CheckLogin, CloseClient, LogoutClient,
       PutLoggedOut, DeleteRow, At, mgr, obs
  <2>2. Done(r) \/ \E p : Go(r, p)
    BY Zenon, <1>5 DEF InsertSession, StartClient, CreateFailed, CheckLogin, CloseClient, LogoutClient,
       PutLoggedOut, DeleteRow
  <2>3. \A s \in Requests \ {r} : req'[s] = req[s]
    BY Zenon, <1>0, <1>2, <2>2 DEF Done
  <2> QED
    BY Zenon, <1>3, <2>1, <2>3 DEF Waits
<1>6. ASSUME NEW r \in Requests, PutAction(r) PROVE TakenStep
  <2>1. req'[r].pc = "get" /\ req'[r].op = req[r].op /\ \A s \in Requests \ {r} : req'[s] = req[s]
    BY Zenon, <1>2, <1>6 DEF PutAction
  <2>2. CASE req[r].op = "reconnect"
    BY Zenon, <2>1, <2>2 DEF TakenStep, Waits
  <2>3. CASE req[r].op # "reconnect"
    <3>1. (taken => taken') /\ UNCHANGED current
      BY Zenon, <1>6, <2>3 DEF PutAction, mgr
    <3> QED
      BY Zenon, <1>3, <2>1, <2>3, <3>1 DEF Waits
  <2> QED
    BY Zenon, <2>2, <2>3
<1>7. ASSUME NEW r \in Requests, GetClient(r) PROVE TakenStep
  <2>1. UNCHANGED <<current, taken>>
    BY Zenon, <1>7 DEF GetClient, mgr, obs
  <2>2. CASE current # NoClient
    BY Zenon, <2>1, <2>2 DEF TakenStep
  <2>3. CASE req[r].op = "reconnect" /\ Go(r, "reread")
    BY Zenon, <1>2, <2>3 DEF TakenStep, Waits
  <2>4. CASE req[r].op # "reconnect" /\ (Go(r, "deleteRow") \/ Done(r))
    <3>1. \A s \in Requests \ {r} : req'[s] = req[s]
      BY Zenon, <1>0, <1>2, <2>4 DEF Done
    <3> QED
      BY Zenon, <1>3, <2>1, <2>4, <3>1 DEF Waits
  <2> QED
    BY Zenon, <1>7, <2>2, <2>3, <2>4 DEF GetClient
<1>8. ASSUME NEW r \in Requests, RegisterClient(r) PROVE TakenStep
  BY Zenon, <1>8, IdFacts DEF RegisterClient, HasClient, TakenStep
<1>9. ASSUME NEW r \in Requests, ForgetClient(r) PROVE TakenStep
  BY Zenon, <1>2, <1>9 DEF ForgetClient, TakenStep, Waits
<1>10. ASSUME NEW r \in Requests, ForgetLoggedOut(r) PROVE TakenStep
  <2>1. CASE current # NoClient
    BY Zenon, <1>10, <2>1 DEF ForgetLoggedOut, TakenStep
  <2>2. CASE current = NoClient
    <3>1. req[r].pc \in {"forget", "forgetFailed"} /\ (taken => taken') /\ UNCHANGED current
      BY Zenon, <1>10, <2>2 DEF ForgetLoggedOut, At
    <3>2. \A s \in Requests \ {r} : req'[s] = req[s]
      BY Zenon, <1>0, <1>2, <1>10 DEF ForgetLoggedOut, Done
    <3> QED
      BY Zenon, <1>3, <3>1, <3>2 DEF Waits
  <2> QED
    BY Zenon, <2>1, <2>2
<1>11. ASSUME NEW r \in Requests, RereadSession(r) PROVE TakenStep
  <2>1. CASE GetSession
    <3>1. req'[r].pc = "register" /\ req'[r].op = req[r].op /\ \A s \in Requests \ {r} : req'[s] = req[s]
      BY SMTT(60), <1>0, <1>11, <2>1 DEF RereadSession, ReqType
    <3> QED
      BY Zenon, <1>11, <3>1 DEF RereadSession, TakenStep, Waits, mgr, obs
  <2>2. CASE ~GetSession
    <3>1. row'.status = "none"
      BY Zenon, <1>11, <2>2 DEF RereadSession, GetSession, disk
    <3> QED
      BY Zenon, <3>1 DEF TakenStep
  <2> QED
    BY Zenon, <2>1, <2>2
<1>12. CASE Crash
  BY Zenon, <1>12 DEF Crash, TakenStep
<1>13. CASE Load
  BY Zenon, <1>13, IdFacts DEF Load, TakenStep, http, obs
<1> QED
  BY ZenonT(60), <1>1, <1>4, <1>5, <1>6, <1>7, <1>8, <1>9, <1>10, <1>11, <1>12, <1>13
  DEF Next, vars, http, mgr, obs, Library, EmitCode, EmitTimeout, PairDevice, LogIn, AutoReconnect, Drop,
      RemoteLogout, HandleEvent, QrStep, QrItem, QrClosed, QrCode, QrWrite, QrExpiry, QrFail, Connect, DialFail,
      HandlerStep, StoreMessage

LEMMA TakenNext ==
  ASSUME SessionInv, TakenInv, [Next]_vars
  PROVE  TakenInv'
<1>1. TakenStep /\ RowMoves
  BY Zenon, TakenSteps, RowMovesNext
<1> SUFFICES ASSUME row'.status = "reconnecting", current' = NoClient, ~taken'
             PROVE  \E r \in Requests : Waits(req'[r])
  BY Zenon DEF TakenInv
<1>2. CASE row.status = "reconnecting"
  BY Zenon, <1>1, <1>2 DEF TakenStep, TakenInv
<1>3. CASE row.status # "reconnecting"
  BY Zenon, <1>1, <1>3 DEF RowMoves, Waits
<1> QED
  BY Zenon, <1>2, <1>3

(* A row that says reconnecting is being worked on, or its client was      *)
(* taken away by a logout, a delete or the end of the process: for any     *)
(* number of clients, handlers and dials, with every fault but a missing   *)
(* QR channel, when no disconnect runs beside another request.             *)
THEOREM ReconnectAlwaysInHand ==
  ASSUME DisconnectsAlone, "qr" \notin Faults
  PROVE  Spec => []ReconnectInHand
<1>1. SessionInv /\ HandInv /\ TakenInv /\ [Next]_vars => HandInv' /\ TakenInv'
  BY Zenon, HandNext, TakenNext
<1>2. Init => TakenInv
  BY SMTT(60) DEF Init, TakenInv, NoRow
<1>3. SessionInv /\ HandInv /\ TakenInv => ReconnectInHand
  <2> SUFFICES ASSUME SessionInv, HandInv, TakenInv, row.status = "reconnecting",
                      ~(current = NoClient /\ taken)
               PROVE  \/ \E r \in Requests : ~At(r, "idle")
                      \/ \E d \in Dialers : dial[d].pc # "idle"
                      \/ \E c \in Clients :
                           \/ ev[c] # {} \/ cl[c].auto
                           \/ cl[c].sock = "open" /\ (Paired(c) \/ qr[c].open)
                           \/ /\ qr[c].pc \in {"loop", "code", "write", "fail"}
                              /\ qr[c].pc = "loop" => qr[c].item # Empty
    BY Zenon DEF ReconnectInHand
  <2>1. CASE current = NoClient
    BY Zenon, <2>1 DEF TakenInv, Waits, At
  <2>2. CASE current # NoClient
    <3>1. current \in Clients /\ InHand(current)
      BY Zenon, <2>2 DEF SessionInv, Owned, MapOwned, HandInv, CurrentInHand
    <3> QED
      BY ZenonT(60), <3>1 DEF InHand, HandlerHas, HandlerOf, EventComes, DialFails, Dialed, LoopBusy, Reachable, At
  <2> QED
    BY Zenon, <2>1, <2>2
<1> QED
  BY <1>1, <1>2, <1>3, HandInit, SessionInvariant, PTL DEF Spec
===========================================================================
