-------------------------- MODULE SessionLifecycle --------------------------
(***************************************************************************)
(* One WhatsApp session: its row in sessions, the client that the          *)
(* SessionManager keeps for it in m.clients, and the goroutines that work  *)
(* on both: HTTP handlers, the QR loop and the Connect calls of each       *)
(* client, the event handlers whatsmeow calls, and restarts with Load.     *)
(* Sessions share nothing but locks that are held without blocking.        *)
(***************************************************************************)
EXTENDS Integers, FiniteSets

CONSTANTS
  MaxClients,  \* bound: client objects created in a behaviour
  Requests,  \* HTTP handler goroutines
  Dialers,   \* goroutines that call Connect
  Ops,       \* what is requested: subset of OpKinds
  Method,    \* "qr" or "pairing"
  Faults,    \* subset of FaultKinds
  MaxFaults,    \* bound: drops, remote logouts and crashes in a behaviour
  MaxRequests   \* bound: requests in a behaviour

\* Client objects in the order of their creation; the device made with a
\* client has its number.
Clients == 1..MaxClients
NoClient == 0
Empty == ""

OpKinds == {"create", "reconnect", "disconnect", "logout", "delete", "message"}

(***************************************************************************)
(* connect: a dial fails; logout: WhatsApp does not confirm a logout; qr:  *)
(* no QR channel; pair: PairPhone fails; drop: the socket is lost; remote: *)
(* the phone unlinks the device; crash of the process.                     *)
(***************************************************************************)
FaultKinds == {"connect", "logout", "qr", "pair", "drop", "remote", "crash"}

ASSUME SessionAssumption ==
  /\ MaxClients \in Nat
  /\ Ops \subseteq OpKinds /\ Faults \subseteq FaultKinds
  /\ Method \in {"qr", "pairing"}
  /\ MaxFaults \in Nat /\ MaxRequests \in Nat

VARIABLES
  up,       \* the process runs
  faults,   \* drops, remote logouts and crashes so far
  row,      \* the row; status "none" when there is none
  history,  \* messages refer to the row
  devices,  \* devices in whatsmeow's store
  current,  \* m.clients[sessionID]
  cl,       \* client objects
  qr,       \* the QR loop of each client
  ev,       \* events a client emitted and its handler has still to process
  dial,     \* Connect goroutines
  req,      \* HTTP handlers
  asked,    \* requests so far
  stale,    \* observation: UPDATEs by the QR loop of each client once replaced
  taken     \* observation: since a reconnect last wrote the row, a logout or a
            \* delete took the client from the map or the process stopped

mgr == <<current, cl, qr, ev, dial>>
disk == <<row, history, devices>>
http == <<req, asked>>
obs == <<stale, taken>>
vars == <<up, faults, disk, mgr, http, obs>>

NoRow == [status |-> "none", phone |-> Empty, jid |-> NoClient, code |-> Empty, expiry |-> FALSE]
Unused == [used |-> FALSE, device |-> NoClient, sock |-> "off", loggedIn |-> FALSE,
           auto |-> FALSE, phone |-> Empty, loaded |-> FALSE]
IdleQr == [pc |-> "idle", item |-> Empty, open |-> FALSE]
IdleDial == [pc |-> "idle", client |-> NoClient, phone |-> Empty]
IdleReq == [pc |-> "idle", op |-> "create", phone |-> Empty, jid |-> NoClient, client |-> NoClient]

Init ==
  /\ up = TRUE /\ faults = 0
  /\ row = NoRow /\ history = FALSE /\ devices = {}
  /\ current = NoClient
  /\ cl = [c \in Clients |-> Unused]
  /\ qr = [c \in Clients |-> IdleQr]
  /\ ev = [c \in Clients |-> {}]
  /\ dial = [d \in Dialers |-> IdleDial]
  /\ req = [r \in Requests |-> IdleReq]
  /\ asked = 0
  /\ stale = [c \in Clients |-> 0] /\ taken = FALSE

\* The number a pairing request names; pairing tells the same one.
AskedPhone == IF Method = "pairing" THEN "phone" ELSE Empty

----------------------------------------------------------------------------
(* The sessions table.                                                     *)

GetSession == row.status # "none"

ListSessions == {s \in {row} : s.status # "none"}

\* Mutant: an upsert, as PutSession is.
UpdateSessionUpsert(status, code, phone) ==
  row' = [row EXCEPT !.status = status, !.code = code, !.phone = phone]

UpdateSession(status, code, phone) ==
  row' = IF row.status = "none" THEN row
         ELSE [row EXCEPT !.status = status, !.code = code, !.phone = phone,
                          !.expiry = IF code = "qr" THEN @ ELSE FALSE]

\* Mutant: the upsert writes all that the caller has read.
PutSessionWhole(status, phone, jid) ==
  row' = IF row.status = "none"
           THEN [NoRow EXCEPT !.status = status, !.phone = phone, !.jid = jid]
           ELSE [row EXCEPT !.status = status, !.phone = phone, !.jid = jid]

\* An upsert that leaves code, expiry and wa_jid of an existing row alone.
PutSession(status, phone, jid) ==
  row' = IF row.status = "none"
           THEN [NoRow EXCEPT !.status = status, !.phone = phone, !.jid = jid]
           ELSE [row EXCEPT !.status = status, !.phone = phone]

SetSessionQRExpiry == row' = IF row.status = "none" THEN row ELSE [row EXCEPT !.expiry = TRUE]

SetSessionIdentity(jid) ==
  row' = IF row.status = "none" THEN row ELSE [row EXCEPT !.jid = jid, !.phone = "phone"]

\* Mutant: the foreign key does not restrict.
DeleteSessionCascade == row' = NoRow

\* messages.session_id REFERENCES sessions ON DELETE RESTRICT
DeleteSession == row' = IF history THEN row ELSE NoRow

----------------------------------------------------------------------------
(* whatsmeow, as far as the code relies on it: a client opens a socket,    *)
(* shows codes until its device is paired, logs in, reconnects by itself   *)
(* after a drop, and calls the event handler in goroutines of its own.     *)

Emit(c, name) == ev' = [ev EXCEPT ![c] = @ \cup {<<name, Empty>>}]
Paired(c) == cl[c].device \in devices

EmitCode(c) ==
  /\ cl[c].sock = "open" /\ ~Paired(c)
  /\ qr[c].open /\ qr[c].item = Empty
  /\ qr' = [qr EXCEPT ![c].item = "code"]
  /\ UNCHANGED <<up, faults, disk, current, cl, ev, dial, http, obs>>

\* The codes run out: the channel closes and the client disconnects.
EmitTimeout(c) ==
  /\ cl[c].sock = "open" /\ ~Paired(c)
  /\ qr[c].open /\ qr[c].item = Empty
  /\ qr' = [qr EXCEPT ![c].item = "timeout", ![c].open = FALSE]
  /\ cl' = [cl EXCEPT ![c].sock = "off"]
  /\ UNCHANGED <<up, faults, disk, current, ev, dial, http, obs>>

PairDevice(c) ==
  /\ cl[c].sock = "open" /\ ~Paired(c) /\ qr[c].open
  /\ devices' = devices \cup {cl[c].device}
  /\ qr' = [qr EXCEPT ![c].open = FALSE]
  /\ Emit(c, "PairSuccess")
  /\ UNCHANGED <<up, faults, row, history, current, cl, dial, http, obs>>

LogIn(c) ==
  /\ cl[c].sock = "open" /\ Paired(c)
  /\ cl' = [cl EXCEPT ![c].sock = "auth", ![c].loggedIn = TRUE]
  /\ Emit(c, "Connected")
  /\ UNCHANGED <<up, faults, disk, current, qr, dial, http, obs>>

\* Some stream errors also reset IsLoggedIn.
Drop(c) ==
  /\ "drop" \in Faults /\ faults < MaxFaults /\ faults' = faults + 1
  /\ cl[c].sock # "off"
  /\ \E b \in {FALSE, cl[c].loggedIn} :
       cl' = [cl EXCEPT ![c].sock = "off", ![c].loggedIn = b, ![c].auto = Paired(c)]
  /\ Emit(c, "Disconnected")
  /\ UNCHANGED <<up, disk, current, qr, dial, http, obs>>

AutoReconnect(c) ==
  /\ cl[c].sock = "off" /\ cl[c].auto
  /\ cl' = [cl EXCEPT ![c].sock = "open", ![c].auto = FALSE]
  /\ UNCHANGED <<up, faults, disk, current, qr, ev, dial, http, obs>>

RemoteLogout(c) ==
  /\ "remote" \in Faults /\ faults < MaxFaults /\ faults' = faults + 1
  /\ cl[c].sock = "auth"
  /\ cl' = [cl EXCEPT ![c].sock = "off", ![c].loggedIn = FALSE, ![c].auto = FALSE]
  /\ devices' = devices \ {cl[c].device}
  /\ Emit(c, "LoggedOut")
  /\ UNCHANGED <<up, row, history, current, qr, dial, http, obs>>

----------------------------------------------------------------------------
(* The event handler of Create and the one of Load.  They write the row    *)
(* whether or not their client is still the current one; a handler with    *)
(* two statements leaves the second one in ev.                             *)

Handled(c, e, next) == ev' = [ev EXCEPT ![c] = (@ \ {e}) \cup next]

OnPairSuccess(c, e) ==
  /\ e[1] = "PairSuccess"
  /\ SetSessionIdentity(cl[c].device)
  /\ Handled(c, e, IF cl[c].loaded THEN {} ELSE {<<"Identified", "phone">>})

OnIdentified(c, e) ==
  /\ e[1] = "Identified"
  /\ UpdateSession("connecting", Empty, e[2])
  /\ Handled(c, e, {})

\* A QR client does not know its number and reads it from the row.
OnConnected(c, e) ==
  /\ e[1] = "Connected"
  /\ Handled(c, e, {<<"LoggedIn", IF cl[c].loaded \/ cl[c].phone # Empty THEN cl[c].phone
                                 ELSE row.phone>>})
  /\ UNCHANGED row

OnLoggedIn(c, e) ==
  /\ e[1] = "LoggedIn"
  /\ UpdateSession("connected", Empty, e[2])
  /\ Handled(c, e, {})

OnDisconnected(c, e) ==
  /\ e[1] = "Disconnected"
  /\ UpdateSession("disconnected", Empty, cl[c].phone)
  /\ Handled(c, e, {})

OnLoggedOut(c, e) ==
  /\ e[1] = "LoggedOut"
  /\ UpdateSession("logged_out", Empty, cl[c].phone)
  /\ Handled(c, e, {})

HandleEvent(c) ==
  /\ \E e \in ev[c] :
       \/ OnPairSuccess(c, e) \/ OnIdentified(c, e) \/ OnConnected(c, e)
       \/ OnLoggedIn(c, e) \/ OnDisconnected(c, e) \/ OnLoggedOut(c, e)
  /\ UNCHANGED <<up, faults, history, devices, current, cl, qr, dial, http, obs>>

----------------------------------------------------------------------------
(* The QR loop of Create.                                                  *)

\* Mutant: the loop does not look whether its client was replaced.
IsCurrentClientAlways(c) == TRUE

IsCurrentClient(c) == current = c

QrGoto(c, pc) == qr' = [qr EXCEPT ![c].pc = pc, ![c].item = Empty]

Stale(c) == stale' = [stale EXCEPT ![c] = IF current = c THEN @ ELSE @ + 1]

QrItem(c) ==
  /\ qr[c].pc = "loop" /\ qr[c].item # Empty
  /\ QrGoto(c, IF ~IsCurrentClient(c) THEN "idle"
               ELSE IF qr[c].item = "timeout" THEN "fail" ELSE "code")
  /\ UNCHANGED <<up, faults, disk, current, cl, ev, dial, http, obs>>

QrClosed(c) ==
  /\ qr[c].pc = "loop" /\ qr[c].item = Empty /\ ~qr[c].open
  /\ qr' = [qr EXCEPT ![c].pc = "idle"]
  /\ UNCHANGED <<up, faults, disk, current, cl, ev, dial, http, obs>>

Pairing(c) == Method = "pairing" /\ cl[c].phone # Empty

\* Up to five PairPhone calls, or the encoding of the QR image; then the
\* second look at the map.
QrCode(c) ==
  /\ qr[c].pc = "code"
  /\ \/ qr' = [qr EXCEPT ![c].pc = IF IsCurrentClient(c) THEN "write" ELSE "idle"]
     \/ /\ Pairing(c) /\ "pair" \in Faults
        /\ qr' = [qr EXCEPT ![c].pc = IF IsCurrentClient(c) THEN "fail" ELSE "idle"]
  /\ UNCHANGED <<up, faults, disk, current, cl, ev, dial, http, obs>>

QrWrite(c) ==
  /\ qr[c].pc = "write"
  /\ qr' = [qr EXCEPT ![c].pc = "expiry"]
  /\ UpdateSession("connecting", IF Pairing(c) THEN "pairing" ELSE "qr", cl[c].phone)
  /\ Stale(c)
  /\ UNCHANGED <<up, faults, history, devices, current, cl, ev, dial, http, taken>>

QrExpiry(c) ==
  /\ qr[c].pc = "expiry"
  /\ qr' = [qr EXCEPT ![c].pc = "loop"]
  /\ SetSessionQRExpiry
  /\ Stale(c)
  /\ UNCHANGED <<up, faults, history, devices, current, cl, ev, dial, http, taken>>

QrFail(c) ==
  /\ qr[c].pc = "fail"
  /\ qr' = [qr EXCEPT ![c].pc = "loop"]
  /\ UpdateSession("failed", Empty, cl[c].phone)
  /\ Stale(c)
  /\ UNCHANGED <<up, faults, history, devices, current, cl, ev, dial, http, taken>>

QrStep(c) ==
  QrItem(c) \/ QrClosed(c) \/ QrCode(c) \/ QrWrite(c) \/ QrExpiry(c) \/ QrFail(c)

----------------------------------------------------------------------------
(* The goroutines that call Connect.                                       *)

\* go func() { client.Connect ... }; the set of Dialers is a bound.
Spawn(c, phone) ==
  \E d \in Dialers :
    /\ dial[d].pc = "idle"
    /\ dial' = [dial EXCEPT ![d] = [pc |-> "dial", client |-> c, phone |-> phone]]

\* ErrAlreadyConnected and a failed dial end in the same branch.
Connect(d) ==
  /\ dial[d].pc = "dial"
  /\ LET c == dial[d].client IN
       \/ /\ cl[c].sock = "off"
          /\ cl' = [cl EXCEPT ![c].sock = "open", ![c].auto = FALSE]
          /\ dial' = [dial EXCEPT ![d] = IdleDial]
       \/ /\ cl[c].sock # "off" \/ "connect" \in Faults
          /\ dial' = [dial EXCEPT ![d] = IF IsCurrentClient(c) THEN [@ EXCEPT !.pc = "fail"]
                                         ELSE IdleDial]
          /\ UNCHANGED cl
  /\ UNCHANGED <<up, faults, disk, current, qr, ev, http, obs>>

DialFail(d) ==
  /\ dial[d].pc = "fail"
  /\ dial' = [dial EXCEPT ![d] = IdleDial]
  /\ UpdateSession("failed", Empty, dial[d].phone)
  /\ UNCHANGED <<up, faults, history, devices, current, cl, qr, ev, http, obs>>

----------------------------------------------------------------------------
(* HTTP handlers.  At(r, pc) is where a handler is, Go(r, pc) where it     *)
(* goes; a handler that answers is idle again.                             *)

At(r, pc) == req[r].pc = pc
Go(r, pc) == req' = [req EXCEPT ![r].pc = pc]
Done(r) == req' = [req EXCEPT ![r] = IdleReq]

\* Bound: no request once MaxRequests were made or the client objects or the
\* dialers could run out.
Room ==
  LET busy == {r \in Requests : ~At(r, "idle")} IN
    /\ asked < MaxRequests
    /\ Cardinality({c \in Clients : ~cl[c].used}) > Cardinality(busy)
    /\ Cardinality({d \in Dialers : dial[d].pc = "idle"}) > Cardinality(busy)

\* createSession: GetSession finds nothing
CreateSession(r) ==
  /\ up /\ Room /\ asked' = asked + 1 /\ At(r, "idle") /\ "create" \in Ops /\ ~GetSession
  /\ req' = [req EXCEPT ![r] = [IdleReq EXCEPT !.pc = "insert", !.op = "create",
                                               !.phone = AskedPhone]]
  /\ UNCHANGED <<up, faults, disk, mgr, obs>>

\* The new row is stored without the number.
InsertSession(r) ==
  /\ At(r, "insert") /\ Go(r, "register")
  /\ PutSession("connecting", Empty, NoClient)
  /\ UNCHANGED <<up, faults, history, devices, mgr, asked, obs>>

Unborn(c) == ~cl[c].used /\ \A b \in 1..(c - 1) : cl[b].used

HasClient == current # NoClient

\* Create, under m.mu: a client that is there is left alone.
RegisterClient(r) ==
  /\ At(r, "register")
  /\ \/ HasClient /\ Done(r) /\ UNCHANGED <<current, cl>>
     \/ /\ ~HasClient
        /\ \E c \in Clients :
             /\ Unborn(c)
             /\ current' = c
             /\ cl' = [cl EXCEPT ![c] = [Unused EXCEPT !.used = TRUE, !.device = c,
                                                       !.phone = req[r].phone]]
             /\ req' = [req EXCEPT ![r].pc = "start", ![r].client = c]
  /\ UNCHANGED <<up, faults, disk, qr, ev, dial, asked, obs>>

\* The rest of Create: event handler, QR loop and Connect.
StartClient(r) ==
  /\ At(r, "start")
  /\ LET c == req[r].client IN
       \/ /\ qr' = [qr EXCEPT ![c] = [pc |-> "loop", item |-> Empty, open |-> TRUE]]
          /\ Spawn(c, cl[c].phone)
          /\ Done(r)
       \/ /\ "qr" \in Faults
          /\ IF req[r].op = "create" THEN Go(r, "createFailed") ELSE Done(r)
          /\ UNCHANGED <<qr, dial>>
  /\ UNCHANGED <<up, faults, disk, current, cl, ev, asked, obs>>

CreateFailed(r) ==
  /\ At(r, "createFailed") /\ Done(r)
  /\ UpdateSession("failed", Empty, Empty)
  /\ UNCHANGED <<up, faults, history, devices, mgr, asked, obs>>

\* sessionAction reads the row and writes back what it read.
SessionAction(r) ==
  /\ up /\ Room /\ asked' = asked + 1 /\ At(r, "idle") /\ GetSession
  /\ \E op \in Ops \cap {"reconnect", "disconnect", "logout"} :
       req' = [req EXCEPT ![r] = [pc |-> "action", op |-> op, phone |-> row.phone,
                                  jid |-> row.jid, client |-> NoClient]]
  /\ UNCHANGED <<up, faults, disk, mgr, obs>>

ActionStatus(op) == CASE op = "reconnect" -> "reconnecting"
                      [] op = "disconnect" -> "disconnected"
                      [] op = "logout" -> "logged_out"

PutAction(r) ==
  /\ At(r, "action") /\ Go(r, "get")
  /\ PutSession(ActionStatus(req[r].op), req[r].phone, req[r].jid)
  /\ taken' = (taken /\ req[r].op # "reconnect")
  /\ UNCHANGED <<up, faults, history, devices, mgr, asked, stale>>

\* m.get of Reconnect, Disconnect and Logout: the client found is used
\* afterwards without the lock.
GetClient(r) ==
  /\ At(r, "get")
  /\ LET op == req[r].op IN
       \/ /\ current # NoClient
          /\ req' = [req EXCEPT ![r].client = current,
                ![r].pc = CASE op = "reconnect" -> "check" [] op = "disconnect" -> "close"
                            [] OTHER -> "logout"]
       \/ /\ current = NoClient
          /\ \/ op = "reconnect" /\ Go(r, "reread")
             \/ op = "delete" /\ Go(r, "deleteRow")
             \/ op \in {"disconnect", "logout"} /\ Done(r)
  /\ UNCHANGED <<up, faults, disk, mgr, asked, obs>>

\* Mutant: Reconnect dials whatever client there is.
LoggedInAny(c) == TRUE

LoggedIn(c) == cl[c].loggedIn

\* The goroutine of Reconnect, which knows no number.
Redial(r) == Spawn(req[r].client, Empty)

\* Reconnect dials a client that is logged in and replaces any other.
CheckLogin(r) ==
  /\ At(r, "check")
  /\ \/ LoggedIn(req[r].client) /\ Redial(r) /\ Done(r)
     \/ ~LoggedIn(req[r].client) /\ Go(r, "close") /\ UNCHANGED dial
  /\ UNCHANGED <<up, faults, disk, current, cl, qr, ev, asked, obs>>

\* c.Disconnect(), the end of Disconnect and the first part of Reconnect
CloseClient(r) ==
  /\ At(r, "close")
  /\ cl' = [cl EXCEPT ![req[r].client].sock = "off", ![req[r].client].auto = FALSE]
  /\ IF req[r].op = "reconnect" THEN Go(r, "forget") ELSE Done(r)
  /\ UNCHANGED <<up, faults, disk, current, qr, ev, dial, asked, obs>>

\* c.Logout: WhatsApp must confirm before the device is removed.
LogoutClient(r) ==
  /\ At(r, "logout")
  /\ LET c == req[r].client IN
       \/ /\ cl[c].sock = "auth"
          /\ cl' = [cl EXCEPT ![c].sock = "off", ![c].auto = FALSE]
          /\ devices' = devices \ {cl[c].device}
          /\ Go(r, "forget")
       \/ /\ cl[c].sock # "auth" \/ "logout" \in Faults
          /\ Go(r, "forgetFailed")
          /\ UNCHANGED <<cl, devices>>
  /\ UNCHANGED <<up, faults, row, history, current, qr, ev, dial, asked, obs>>

\* delete(m.clients, sessionID) removes whichever client is there by now, in
\* Reconnect and, whether or not the logout was confirmed, in Logout.
ForgetClient(r) ==
  /\ At(r, "forget") /\ req[r].op = "reconnect"
  /\ current' = NoClient
  /\ Go(r, "reread")
  /\ UNCHANGED <<up, faults, disk, cl, qr, ev, dial, asked, obs>>

ForgetLoggedOut(r) ==
  /\ At(r, "forget") \/ At(r, "forgetFailed")
  /\ current' = NoClient
  /\ \/ req[r].op = "delete" /\ Go(r, "deleteRow")
     \/ req[r].op = "logout" /\ IF At(r, "forget") THEN Go(r, "loggedOut") ELSE Done(r)
  /\ taken' = (taken \/ current # NoClient)
  /\ UNCHANGED <<up, faults, disk, cl, qr, ev, dial, asked, stale>>

\* Reconnect reads the number for the new client.
RereadSession(r) ==
  /\ At(r, "reread")
  /\ IF GetSession THEN req' = [req EXCEPT ![r].pc = "register", ![r].phone = row.phone]
     ELSE Done(r)
  /\ UNCHANGED <<up, faults, disk, mgr, asked, obs>>

PutLoggedOut(r) ==
  /\ At(r, "loggedOut") /\ Done(r)
  /\ PutSession("disconnected", req[r].phone, req[r].jid)
  /\ UNCHANGED <<up, faults, history, devices, mgr, asked, obs>>

\* deleteSession counts the messages, logs out, and only then deletes.
DeleteCheck(r) ==
  /\ up /\ Room /\ asked' = asked + 1 /\ At(r, "idle") /\ "delete" \in Ops /\ ~history
  /\ req' = [req EXCEPT ![r] = [IdleReq EXCEPT !.pc = "get", !.op = "delete"]]
  /\ UNCHANGED <<up, faults, disk, mgr, obs>>

DeleteRow(r) ==
  /\ At(r, "deleteRow") /\ Done(r)
  /\ DeleteSession
  /\ UNCHANGED <<up, faults, history, devices, mgr, asked, obs>>

\* sendMessage stores a message; its foreign key needs the row.
StoreMessage ==
  /\ up /\ "message" \in Ops /\ row.status # "none"
  /\ history' = TRUE
  /\ UNCHANGED <<up, faults, row, devices, mgr, http, obs>>

HandlerStep(r) ==
  \/ InsertSession(r) \/ RegisterClient(r) \/ StartClient(r) \/ CreateFailed(r)
  \/ PutAction(r) \/ GetClient(r) \/ CheckLogin(r) \/ CloseClient(r) \/ LogoutClient(r)
  \/ ForgetClient(r) \/ ForgetLoggedOut(r) \/ RereadSession(r) \/ PutLoggedOut(r) \/ DeleteRow(r)

----------------------------------------------------------------------------
(* A crash loses everything but the two stores; Load brings a paired       *)
(* session back before the server listens.                                 *)

Crash ==
  /\ "crash" \in Faults /\ faults < MaxFaults /\ faults' = faults + 1
  /\ up /\ \E c \in Clients : ~cl[c].used
  /\ up' = FALSE
  /\ current' = NoClient
  /\ cl' = [c \in Clients |-> [cl[c] EXCEPT !.sock = "off", !.auto = FALSE]]
  /\ qr' = [c \in Clients |-> IdleQr]
  /\ ev' = [c \in Clients |-> {}]
  /\ dial' = [d \in Dialers |-> IdleDial]
  /\ req' = [r \in Requests |-> IdleReq]
  /\ taken' = TRUE
  /\ UNCHANGED <<disk, asked, stale>>

\* Mutant: sessions that were not connected are not restored.
RestorableConnected == row.status = "connected" /\ row.jid \in devices

Restorable == \E s \in ListSessions : s.jid \in devices

Load ==
  /\ ~up /\ up' = TRUE
  /\ \/ /\ Restorable
        /\ \E c \in Clients :
             /\ Unborn(c)
             /\ current' = c
             /\ cl' = [cl EXCEPT ![c] = [Unused EXCEPT !.used = TRUE, !.loaded = TRUE,
                          !.device = row.jid, !.phone = row.phone]]
             /\ Spawn(c, row.phone)
     \/ ~Restorable /\ UNCHANGED <<current, cl, dial>>
  /\ UNCHANGED <<faults, disk, qr, ev, http, obs>>

----------------------------------------------------------------------------
Library(c) ==
  \/ EmitCode(c) \/ EmitTimeout(c) \/ PairDevice(c) \/ LogIn(c)
  \/ AutoReconnect(c) \/ Drop(c) \/ RemoteLogout(c)

Next ==
  \/ \E c \in Clients : Library(c) \/ HandleEvent(c) \/ QrStep(c)
  \/ \E d \in Dialers : Connect(d) \/ DialFail(d)
  \/ \E r \in Requests :
       CreateSession(r) \/ SessionAction(r) \/ DeleteCheck(r) \/ HandlerStep(r)
  \/ StoreMessage \/ Crash \/ Load

Spec == Init /\ [][Next]_vars

\* Goroutines run and handlers answer; the library logs a paired device in,
\* reconnects after a drop and lets the codes run out; the supervisor restarts.
Fairness ==
  /\ \A c \in Clients :
       /\ WF_vars(HandleEvent(c)) /\ WF_vars(QrStep(c))
       /\ WF_vars(LogIn(c)) /\ WF_vars(AutoReconnect(c)) /\ SF_vars(EmitTimeout(c))
  /\ \A d \in Dialers : WF_vars(Connect(d) \/ DialFail(d))
  /\ \A r \in Requests : WF_vars(HandlerStep(r))
  /\ WF_vars(Load)

FairSpec == Spec /\ Fairness

----------------------------------------------------------------------------
\* sessionAction writes back a row that it read earlier; a pairing that came in
\* between keeps its wa_jid, without which Load would not restore the session.
\* Only the deletion of the row takes an identity away.
IdentityKept ==
  [][row.jid # NoClient /\ row'.jid = NoClient => row'.status = "none"]_vars

\* A session with messages keeps its row, whatever deletes race with the
\* sends of its messages (docs/PRD.md:193).
HistoryKept == history => row.status # "none"

\* With one request at a time, a deleted session stays deleted until it is
\* created again: late events, QR items and dials of its client update no row.
OnlyCreateInserts ==
  [][row.status = "none" /\ row'.status # "none" => \E r \in Requests : At(r, "insert")]_vars

\* The QR loop looks at the map before it writes a code and its expiry, not
\* while it writes them: a replaced client can overwrite the row of its
\* successor, with the two UPDATEs of the one item it had in hand and no more.
StaleQRWritesOneItem == \A c \in Clients : stale[c] <= 2

\* A session whose wa_jid is stored and whose device is in the store is
\* connected again after a restart (docs/PRD.md:186), whatever the process was
\* doing when it stopped, unless the phone unlinks it, a request for it comes
\* first, or the dial of Load fails, which is not repeated.  A pairing that
\* the process did not live to store in wa_jid is not restored.
SurvivesRestart ==
  (~up /\ row.jid \in devices) ~>
    up /\ \/ row.status = "connected" \/ row.jid \notin devices
          \/ \E r \in Requests : ~At(r, "idle")
          \/ \E d \in Dialers : dial[d].pc = "fail"

\* A row that says reconnecting (the comments in Load and Reconnect) is being
\* worked on: by a handler, a dial, a login or code that whatsmeow owes, or
\* an event or QR item on its way.  A reconnect waits for something that
\* cannot happen only when its client was taken away: by a logout or delete
\* that removed it from the map, or by the end of the process.
ReconnectInHand ==
  row.status = "reconnecting" =>
    \/ \E r \in Requests : ~At(r, "idle")
    \/ \E d \in Dialers : dial[d].pc # "idle"
    \/ \E c \in Clients :
         \/ ev[c] # {} \/ cl[c].auto
         \/ cl[c].sock = "open" /\ (Paired(c) \/ qr[c].open)
         \/ qr[c].pc \in {"loop", "code", "write", "fail"} /\ (qr[c].pc = "loop" => qr[c].item # Empty)
    \/ current = NoClient /\ taken
=============================================================================
