------------------------------- MODULE SignIn -------------------------------
(***************************************************************************)
(* Signing in to the admin console: Login, Refresh, Logout and             *)
(* ChangePassword of internal/auth, the handlers that call them, and the   *)
(* refresh cookie and access token that each browser holds.                *)
(*                                                                         *)
(* There is one administrator, and one column, users.refresh_token_hash,   *)
(* for all browsers.  A refresh token is a signed set of claims whose only *)
(* varying part is the second of its issue, so that a token is that second *)
(* here and two tokens of one second are equal.  Requests that show a      *)
(* wrong password, or whose user cannot be read, are refused without a     *)
(* trace and are left out.                                                 *)
(***************************************************************************)
EXTENDS Integers

CONSTANTS
    Browsers,
    Requests,    \* HTTP requests in flight; tabs of a browser share its cookie
    AccessTTL,   \* 15 minutes
    RefreshTTL,  \* 7 days
    MaxTime,     \* bound: the clock stops
    MaxWrites    \* bound: UPDATEs of users in a behaviour

ASSUME SignInAssumption ==
    /\ AccessTTL \in Nat \ {0} /\ RefreshTTL \in Nat \ {0} /\ MaxTime \in Nat
    /\ MaxWrites \in Nat

VARIABLES
    clock,    \* seconds, from 1
    stored,   \* users.refresh_token_hash: a token with its history (below), or None
    cookie,   \* the refresh cookie of a browser
    access,   \* the access token of a browser
    req,      \* requests
    writes,   \* history: UPDATEs of users so far
    revoked   \* history: the second of the last UPDATE by a logout or a change
              \* of password

vars == <<clock, stored, cookie, access, req, writes, revoked>>

\* tok is the second of issue and all that the code can tell.  History: since
\* is the second of the sign-in that it goes back to, spared the second of the
\* last revocation that met a request of this sign-in past its comparison,
\* write the UPDATE that stored it.
None == [tok |-> 0, since |-> 0, spared |-> 0, write |-> 0]
Idle == [pc |-> "idle", op |-> "login", who |-> "nobody", read |-> 0, held |-> None]

Init ==
    /\ clock = 1 /\ stored = None
    /\ cookie = [b \in Browsers |-> None] /\ access = [b \in Browsers |-> None]
    /\ req = [r \in Requests |-> Idle]
    /\ writes = 0 /\ revoked = 0

Begin(r, pc, op, b, held) ==
    /\ req[r].pc = "idle"
    /\ req' = [req EXCEPT ![r] = [pc |-> pc, op |-> op, who |-> b, read |-> clock,
                                  held |-> held]]

Goto(r, pc, held) ==
    req' = [req EXCEPT ![r] = [pc |-> pc, op |-> @.op, who |-> @.who, read |-> clock,
                               held |-> held]]

-----------------------------------------------------------------------------
\* Mutant: the claim exp is not looked at.
AliveAlways(tok, ttl) == tok # 0

\* parse refuses a token that has expired.
Alive(tok, ttl) == tok # 0 /\ clock < tok + ttl

\* Login has read the user and found the password right.
Login(r, b) ==
    /\ Begin(r, "issue", "login", b, [None EXCEPT !.since = clock])
    /\ UNCHANGED <<clock, stored, cookie, access, writes, revoked>>

\* The browser sends the cookie that it holds now; the console refreshes once
\* per tab and life of an access token, and after a reload.
SendRefresh(r, b) ==
    /\ cookie[b].tok # 0
    /\ Begin(r, "compare", "refresh", b, cookie[b])
    /\ UNCHANGED <<clock, stored, cookie, access, writes, revoked>>

\* Refresh parses the token and compares it with the stored one.  A token that
\* equals the stored one is the stored one, whoever holds it.
Compare(r) ==
    /\ req[r].pc = "compare"
    /\ IF Alive(req[r].held.tok, RefreshTTL) /\ stored.tok = req[r].held.tok
       THEN Goto(r, "issue", stored) ELSE Goto(r, "clear", None)
    /\ UNCHANGED <<clock, stored, cookie, access, writes, revoked>>

\* Its SELECT fails: the answer is the same 401.
CompareFails(r) ==
    /\ req[r].pc = "compare"
    /\ Goto(r, "failed", None)
    /\ UNCHANGED <<clock, stored, cookie, access, writes, revoked>>

\* issue reads the clock, signs both tokens and stores the second one; the
\* UPDATE names the user and nothing else.
Issue(r) ==
    /\ req[r].pc = "issue" /\ writes < MaxWrites
    /\ \E now \in req[r].read .. clock :
          /\ stored' = [tok |-> now, since |-> req[r].held.since, spared |-> req[r].held.spared,
                        write |-> writes + 1]
          /\ Goto(r, "answer", stored')
    /\ writes' = writes + 1
    /\ UNCHANGED <<clock, cookie, access, revoked>>

\* Its UPDATE fails: the answer is a 401, which clears the cookie in refresh.
IssueFails(r) ==
    /\ req[r].pc = "issue"
    /\ IF req[r].op = "login" THEN req' = [req EXCEPT ![r] = Idle] ELSE Goto(r, "failed", None)
    /\ UNCHANGED <<clock, stored, cookie, access, writes, revoked>>

\* Mutant: only login sets the cookie.
NewCookieOfLogin(r) == IF req[r].op = "login" THEN req[r].held
                       ELSE [req[r].held EXCEPT !.tok = cookie[req[r].who].tok]

NewCookie(r) == req[r].held

\* setRefreshCookie, and the access token in the body
Answer(r) ==
    /\ req[r].pc = "answer"
    /\ cookie' = [cookie EXCEPT ![req[r].who] = NewCookie(r)]
    /\ access' = [access EXCEPT ![req[r].who] = req[r].held]
    /\ req' = [req EXCEPT ![r] = Idle]
    /\ UNCHANGED <<clock, stored, writes, revoked>>

-----------------------------------------------------------------------------
\* logout and changePassword are behind requireAuth, which looks only at the
\* access token; changePassword has also found the old password right.
SendRevoke(r, b) ==
    /\ Alive(access[b].tok, AccessTTL)
    /\ \E op \in {"logout", "change"} : Begin(r, "revoke", op, b, None)
    /\ UNCHANGED <<clock, stored, cookie, access, writes, revoked>>

\* Mutant: the refresh token stays.
RevokedKeep == stored

Revoked == None

\* The UPDATE of Logout and the one of ChangePassword.  A login or refresh
\* that has passed its comparison is spared: it stores its token afterwards.
Revoke(r) ==
    /\ req[r].pc = "revoke" /\ writes < MaxWrites
    /\ stored' = Revoked
    /\ revoked' = clock
    /\ writes' = writes + 1
    /\ req' = [o \in Requests |->
                  IF o = r THEN [req[r] EXCEPT !.pc = "clear"]
                  ELSE IF req[o].pc = "issue" THEN [req[o] EXCEPT !.held.spared = clock]
                  ELSE req[o]]
    /\ UNCHANGED <<clock, cookie, access>>

\* logout ignores an error of its UPDATE; changePassword answers 500.
RevokeFails(r) ==
    /\ req[r].pc = "revoke"
    /\ IF req[r].op = "logout" THEN Goto(r, "clear", None) ELSE req' = [req EXCEPT ![r] = Idle]
    /\ UNCHANGED <<clock, stored, cookie, access, writes, revoked>>

\* clearRefreshCookie
ClearCookie(r) ==
    /\ req[r].pc \in {"clear", "failed"}
    /\ cookie' = [cookie EXCEPT ![req[r].who] = None]
    /\ req' = [req EXCEPT ![r] = Idle]
    /\ UNCHANGED <<clock, stored, access, writes, revoked>>

-----------------------------------------------------------------------------
\* A request or its answer is lost.
Lose(r) ==
    /\ req[r].pc # "idle"
    /\ req' = [req EXCEPT ![r] = Idle]
    /\ UNCHANGED <<clock, stored, cookie, access, writes, revoked>>

\* EnsureAdmin sets the password again and leaves the refresh token alone.
Restart ==
    /\ \E r \in Requests : req[r].pc # "idle"
    /\ req' = [r \in Requests |-> Idle]
    /\ UNCHANGED <<clock, stored, cookie, access, writes, revoked>>

Tick ==
    /\ clock < MaxTime /\ clock' = clock + 1
    /\ UNCHANGED <<stored, cookie, access, req, writes, revoked>>

Next ==
    \/ \E r \in Requests :
          \/ Compare(r) \/ CompareFails(r) \/ Issue(r) \/ IssueFails(r) \/ Answer(r)
          \/ Revoke(r) \/ RevokeFails(r) \/ ClearCookie(r) \/ Lose(r)
          \/ \E b \in Browsers : Login(r, b) \/ SendRefresh(r, b) \/ SendRevoke(r, b)
    \/ Restart \/ Tick

Spec == Init /\ [][Next]_vars

-----------------------------------------------------------------------------
\* No revocation has come after the sign-in of token t, or the last one met a
\* request of that sign-in between its comparison and its UPDATE.
Stands(t) == t.since >= revoked \/ t.spared >= revoked

(***************************************************************************)
(* A logout or a change of password whose UPDATE took effect ends every    *)
(* earlier sign-in, of every browser: none is refreshed afterwards, but    *)
(* for one with a request that was past its comparison by then.  (Seconds: *)
(* a sign-in of the very second counts as later, and a token that equals   *)
(* the stored one is as good as it.)                                       *)
(***************************************************************************)
RefreshEnds ==
    \A r \in Requests : req[r].pc = "issue" => Stands(req[r].held)

(***************************************************************************)
(* ... and an access token, which VerifyAccess does not look up, outlives  *)
(* that by less than its 15 minutes, however refreshes, answers and the    *)
(* logout itself were delayed, again but for a sign-in that was spared.    *)
(***************************************************************************)
AccessEnds ==
    \A b \in Browsers :
        Alive(access[b].tok, AccessTTL) =>
            Stands(access[b]) \/ clock < revoked + AccessTTL

(***************************************************************************)
(* A comparison refuses a refresh only for a reason: its token has         *)
(* expired, or users was updated after it was issued, by a later login,    *)
(* refresh, logout or change of password.  Losing answers, restarting the  *)
(* gateway or refreshing at the same time does not void the newest token.  *)
(* (A statement that fails is answered with the same 401 and the same loss *)
(* of the cookie, though the token is still good.)                         *)
(***************************************************************************)
RefusedForAReason ==
    [][\A r \in Requests :
          req[r].pc = "compare" /\ req'[r].pc = "clear" =>
              \/ clock >= req[r].held.tok + RefreshTTL
              \/ req[r].held.write < writes]_vars
=============================================================================
