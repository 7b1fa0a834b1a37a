----------------------------- MODULE HttpProofs -----------------------------
(***************************************************************************)
(* Proofs about what the HTTP handlers do besides messages and sessions:   *)
(* SignIn, for every number of browsers and requests, every life of the    *)
(* tokens and every length of a behaviour; ApiKeyRate, for any keys,       *)
(* calls, limits and length of the window; Paging, for any rows and any    *)
(* page size.  The three share no state.                                   *)
(*                                                                         *)
(* The inductive invariant of SignIn is about tokens, wherever they are:   *)
(* in a cookie, in an answer, in a request.  A token of a sign-in that the *)
(* last revocation ended is no younger than that revocation, neither the   *)
(* stored token nor one past its comparison is of such a sign-in, and the  *)
(* newest token is the stored one unless users was updated since.          *)
(***************************************************************************)
EXTENDS SignIn, ApiKeyRate, Paging, TLAPS

Tokens == [tok : Nat, since : Nat, spared : Nat, write : Nat]
ReqType == [pc : {"idle", "compare", "issue", "answer", "revoke", "clear", "failed"},
            op : {"login", "refresh", "logout", "change"}, who : Browsers \cup {"nobody"},
            read : Nat, held : Tokens]

TokenOK(t) ==
    /\ t \in Tokens
    /\ t.tok <= clock
    /\ t.tok > revoked => Stands(t)
    /\ t.tok # 0 => t.write <= writes /\ (t.write = writes => stored.tok = t.tok)

ReqOK(q) ==
    /\ q \in ReqType /\ TokenOK(q.held)
    /\ q.pc # "idle" => q.who \in Browsers /\ q.read \in 1 .. clock
    /\ q.pc = "compare" => q.held.tok # 0
    /\ q.pc = "issue" => Stands(q.held)

TypeOK ==
    /\ clock \in Nat \ {0} /\ stored \in Tokens /\ writes \in Nat /\ revoked \in 0 .. clock
    /\ cookie \in [Browsers -> Tokens] /\ access \in [Browsers -> Tokens]
    /\ req \in [Requests -> ReqType]

Inv ==
    /\ TypeOK
    /\ TokenOK(stored) /\ (stored.tok # 0 => Stands(stored))
    /\ \A b \in Browsers : TokenOK(cookie[b]) /\ TokenOK(access[b])
    /\ \A r \in Requests : ReqOK(req[r])

-----------------------------------------------------------------------------
LEMMA InvInit == Init => Inv
  BY SMTT(60), SignInAssumption DEF Init, Inv, TypeOK, TokenOK, Stands, ReqOK, ReqType, Tokens, None, Idle

LEMMA NoneOK == ASSUME TypeOK PROVE None \in Tokens /\ TokenOK(None) /\ Idle \in ReqType /\ ReqOK(Idle)
  BY SMTT(60) DEF TypeOK, TokenOK, ReqOK, ReqType, Tokens, None, Idle

\* A step that leaves clock, stored, writes and revoked alone keeps tokens good.
LEMMA Still ==
  ASSUME UNCHANGED <<clock, stored, writes, revoked>>
  PROVE  /\ \A t : TokenOK(t)' <=> TokenOK(t)
         /\ \A q : ReqOK(q)' <=> ReqOK(q)
         /\ \A t : Stands(t)' <=> Stands(t)
  BY SMTT(60) DEF TokenOK, ReqOK, Stands

LEMMA ReqUpdate ==
  ASSUME Inv, NEW r \in Requests, NEW v, ReqOK(v), req' = [req EXCEPT ![r] = v],
         UNCHANGED <<clock, stored, cookie, access, writes, revoked>>
  PROVE  Inv'
  BY SMTT(60), Still DEF Inv, TypeOK, ReqOK

LEMMA InvNext ==
  ASSUME Inv, [Next]_vars
  PROVE  Inv'
<1> USE DEF Inv
<1>1. ASSUME NEW r \in Requests, NEW b \in Browsers, Login(r, b)
      PROVE  Inv'
  <2> DEFINE v == [pc |-> "issue", op |-> "login", who |-> b, read |-> clock,
                   held |-> [None EXCEPT !.since = clock]]
  <2>1. ReqOK(v)
    BY SMTT(60) DEF TypeOK, TokenOK, Stands, ReqOK, ReqType, Tokens, None
  <2> QED
    BY ZenonT(60), <1>1, <2>1, ReqUpdate DEF Login, Begin
<1>2. ASSUME NEW r \in Requests, NEW b \in Browsers, SendRefresh(r, b)
      PROVE  Inv'
  <2> DEFINE v == [pc |-> "compare", op |-> "refresh", who |-> b, read |-> clock, held |-> cookie[b]]
  <2>1. ReqOK(v)
    BY SMTT(60), <1>2 DEF SendRefresh, TypeOK, TokenOK, ReqOK, ReqType, Tokens
  <2> QED
    BY ZenonT(60), <1>2, <2>1, ReqUpdate DEF SendRefresh, Begin
<1>3. ASSUME NEW r \in Requests, Compare(r) \/ CompareFails(r)
      PROVE  Inv'
  <2> DEFINE v(p, held) == [pc |-> p, op |-> req[r].op, who |-> req[r].who, read |-> clock,
                            held |-> held]
  <2>1. CASE Compare(r) /\ Alive(req[r].held.tok, RefreshTTL) /\ stored.tok = req[r].held.tok
    <3>1. req[r].pc = "compare" /\ ReqOK(req[r]) /\ stored.tok # 0 /\ Stands(stored)
      BY SMTT(60), <2>1 DEF Compare, Alive, ReqOK
    <3>2. ReqOK(v("issue", stored))
      BY SMTT(60), <3>1 DEF TypeOK, ReqOK, ReqType
    <3> QED
      BY ZenonT(60), <2>1, <3>2, ReqUpdate DEF Compare, Goto
  <2>2. CASE \E p \in {"clear", "failed"} : Goto(r, p, None)
    <3>1. \A p \in {"clear", "failed"} : ReqOK(v(p, None))
      BY SMTT(60), <1>3, NoneOK DEF Compare, CompareFails, TypeOK, ReqOK, ReqType
    <3> QED
      BY ZenonT(60), <1>3, <2>2, <3>1, ReqUpdate DEF Compare, CompareFails, Goto
  <2> QED
    BY Zenon, <1>3, <2>1, <2>2 DEF Compare, CompareFails
<1>4. ASSUME NEW r \in Requests, Issue(r)
      PROVE  Inv'
  <2>1. PICK now \in req[r].read .. clock :
          /\ stored' = [tok |-> now, since |-> req[r].held.since, spared |-> req[r].held.spared,
                        write |-> writes + 1]
          /\ Goto(r, "answer", stored')
    BY Zenon, <1>4 DEF Issue
  <2> DEFINE t == stored'
             v == [pc |-> "answer", op |-> req[r].op, who |-> req[r].who, read |-> clock,
                   held |-> t]
  <2>2. /\ req[r].pc = "issue" /\ ReqOK(req[r]) /\ writes' = writes + 1
        /\ UNCHANGED <<clock, cookie, access, revoked>>
    BY Zenon, <1>4 DEF Issue
  <2>3. now \in Nat /\ 1 <= now /\ now <= clock /\ req[r].held \in Tokens
        /\ Stands(req[r].held) /\ req[r].who \in Browsers
    BY SMTT(60), <2>2 DEF ReqOK, TokenOK, TypeOK
  <2>4. req' = [req EXCEPT ![r] = v]
    BY Zenon, <2>1 DEF Goto
  <2>5. t \in Tokens /\ t.tok = now /\ t.write = writes + 1 /\ Stands(stored)'
    <3>1. writes \in Nat /\ req[r].held.since \in Nat /\ req[r].held.spared \in Nat
      BY SMTT(60), <2>3 DEF TypeOK, Tokens
    <3>2. /\ t \in Tokens /\ t.tok = now /\ t.write = writes + 1
          /\ t.since = req[r].held.since /\ t.spared = req[r].held.spared
      BY SMTT(60), <2>1, <2>3, <3>1 DEF Tokens
    <3> QED
      BY SMTT(60), <2>2, <2>3, <3>2 DEF Stands
  <2>6. TypeOK'
    <3>1. v \in ReqType
      BY SMTT(60), <2>2, <2>3, <2>5 DEF ReqOK, ReqType, TypeOK
    <3> QED
      BY SMTT(60), <2>2, <2>3, <2>4, <2>5, <3>1 DEF TypeOK
  <2>7. \A u : TokenOK(u) => TokenOK(u)'
    BY SMTT(60), <2>2 DEF TokenOK, Stands, Tokens, TypeOK
  <2>8. TokenOK(stored)'
    BY SMTT(60), <2>2, <2>3, <2>5 DEF TokenOK, TypeOK
  <2>9. \A q : ReqOK(q) => ReqOK(q)'
    BY SMTT(60), <2>2, <2>7 DEF ReqOK, Stands
  <2>10. \A q : q = v => ReqOK(q)'
    BY SMTT(60), <2>2, <2>3, <2>5, <2>8 DEF ReqOK, ReqType, TypeOK
  <2> QED
    BY SMTT(60), <2>2, <2>4, <2>5, <2>6, <2>7, <2>8, <2>9, <2>10 DEF TypeOK
<1>5. ASSUME NEW r \in Requests, IssueFails(r) \/ RevokeFails(r) \/ Lose(r)
      PROVE  Inv'
  <2> DEFINE v(p) == [pc |-> p, op |-> req[r].op, who |-> req[r].who, read |-> clock,
                      held |-> None]
  <2>1. CASE req' = [req EXCEPT ![r] = Idle]
    BY ZenonT(60), <1>5, <2>1, NoneOK, ReqUpdate DEF IssueFails, RevokeFails, Lose
  <2>2. CASE (\E p \in {"clear", "failed"} : Goto(r, p, None)) /\ req[r].pc # "idle"
    <3>1. \A p \in {"clear", "failed"} : ReqOK(v(p))
      BY SMTT(60), <2>2, NoneOK DEF TypeOK, ReqOK, ReqType, TokenOK
    <3> QED
      BY ZenonT(60), <1>5, <2>2, <3>1, ReqUpdate DEF Goto, IssueFails, RevokeFails, Lose
  <2> QED
    BY Zenon, <1>5, <2>1, <2>2 DEF IssueFails, RevokeFails, Lose
<1>6. ASSUME NEW r \in Requests, Answer(r) \/ ClearCookie(r)
      PROVE  Inv'
  <2>1. /\ req' = [req EXCEPT ![r] = Idle] /\ ReqOK(req[r]) /\ req[r].who \in Browsers
        /\ UNCHANGED <<clock, stored, writes, revoked>>
    BY <1>6 DEF Answer, ClearCookie, ReqOK
  <2>2. \E t \in {None, req[r].held} : cookie' = [cookie EXCEPT ![req[r].who] = t]
    BY <1>6 DEF Answer, NewCookie, ClearCookie
  <2>3. access' = access \/ access' = [access EXCEPT ![req[r].who] = req[r].held]
    BY SMTT(60), <1>6 DEF Answer, ClearCookie
  <2>4. req[r].held \in Tokens /\ TokenOK(req[r].held)
    BY <2>1 DEF ReqOK, TokenOK
  <2>5. TypeOK'
    BY <2>1, <2>2, <2>3, <2>4, NoneOK DEF TypeOK
  <2>6. \A b \in Browsers : TokenOK(cookie'[b]) /\ TokenOK(access'[b])
    BY <2>1, <2>2, <2>3, <2>4, NoneOK DEF TypeOK
  <2>7. \A q \in Requests : ReqOK(req'[q])
    BY <2>1, NoneOK DEF TypeOK
  <2> QED
    BY SMTT(60), <2>1, <2>5, <2>6, <2>7, Still
<1>7. ASSUME NEW r \in Requests, NEW b \in Browsers, SendRevoke(r, b)
      PROVE  Inv'
  <2> DEFINE v(op) == [pc |-> "revoke", op |-> op, who |-> b, read |-> clock, held |-> None]
  <2>1. PICK op \in {"logout", "change"} : Begin(r, "revoke", op, b, None)
    BY <1>7 DEF SendRevoke
  <2>2. ReqOK(v(op))
    BY SMTT(60), NoneOK DEF ReqOK, ReqType, TypeOK
  <2> QED
    BY ZenonT(60), <1>7, <2>1, <2>2, ReqUpdate DEF SendRevoke, Begin
<1>8. ASSUME NEW r \in Requests, Revoke(r)
      PROVE  Inv'
  <2>1. /\ req[r].pc = "revoke" /\ stored' = None /\ writes' = writes + 1
        /\ UNCHANGED <<clock, cookie, access>> /\ revoked' = clock
    BY Zenon, <1>8 DEF Revoke, Revoked
  <2>2. \A u : TokenOK(u) => TokenOK(u)'
    BY SMTT(60), <2>1 DEF TokenOK, Tokens, TypeOK
  <2>3. TokenOK(stored)' /\ stored'.tok = 0 /\ stored' \in Tokens
    BY SMTT(60), <2>1 DEF TokenOK, Tokens, TypeOK, None
  <2>4. ASSUME NEW o \in Requests PROVE ReqOK(req[o])' /\ req'[o] \in ReqType
    <3>1. ReqOK(req[o]) /\ TokenOK(req[o].held) /\ \A u : u = req[o].held => TokenOK(u)'
      BY Zenon, <2>2 DEF ReqOK
    <3>2. CASE o = r
      BY SMTT(60), <1>8, <2>1, <3>1, <3>2 DEF Revoke, ReqOK, ReqType, TypeOK
    <3>3. CASE o # r /\ req[o].pc = "issue"
      <4>1. req'[o] = [req[o] EXCEPT !.held.spared = clock]
        BY SMTT(60), <1>8, <3>3 DEF Revoke
      <4>2. TokenOK(req[o].held)' /\ Stands(req[o].held)' /\ req'[o] \in ReqType
        BY SMTT(60), <2>1, <3>1, <4>1 DEF TokenOK, Stands, Tokens, ReqOK, ReqType, TypeOK
      <4> QED
        BY SMTT(60), <2>1, <3>1, <3>3, <4>1, <4>2 DEF ReqOK, ReqType, TypeOK
    <3>4. CASE o # r /\ req[o].pc # "issue"
      <4>1. req'[o] = req[o]
        BY SMTT(60), <1>8, <3>4 DEF Revoke
      <4> QED
        BY SMTT(60), <2>1, <3>1, <3>4, <4>1 DEF ReqOK, TypeOK
    <3> QED
      BY Zenon, <3>2, <3>3, <3>4
  <2>5. TypeOK'
    <3>1. req' \in [Requests -> ReqType]
      BY SMTT(60), <1>8, <2>4 DEF Revoke
    <3> QED
      BY SMTT(60), <2>1, <2>3, <3>1 DEF TypeOK
  <2> QED
    BY SMTT(60), <2>1, <2>2, <2>3, <2>4, <2>5
<1>9. CASE Restart
  <2>1. UNCHANGED <<clock, stored, cookie, access, writes, revoked>> /\ req' = [r \in Requests |-> Idle]
    BY <1>9 DEF Restart
  <2>2. TypeOK'
    BY SMTT(60), <2>1, NoneOK DEF TypeOK
  <2> QED
    BY <2>1, <2>2, Still, NoneOK
<1>10. CASE Tick
  BY SMTT(60), <1>10 DEF Tick, TypeOK, TokenOK, Stands, ReqOK, Tokens
<1>11. CASE UNCHANGED vars
  BY <1>11, Still DEF vars, TypeOK
<1> QED
  BY <1>1, <1>2, <1>3, <1>4, <1>5, <1>6, <1>7, <1>8, <1>9, <1>10, <1>11 DEF Next

LEMMA Invariant == Spec => []Inv
  BY InvInit, InvNext, PTL DEF Spec

-----------------------------------------------------------------------------
(***************************************************************************)
(* After a logout or a change of password took effect no sign-in from      *)
(* before it is refreshed, in whatever order requests and answers went,    *)
(* unless a request of it was past its comparison by then.                 *)
(***************************************************************************)
THEOREM RefreshEndsAlways == Spec => []RefreshEnds
<1>1. Inv => RefreshEnds
  BY Zenon DEF Inv, ReqOK, RefreshEnds
<1> QED
  BY <1>1, Invariant, PTL

(***************************************************************************)
(* Access tokens of the sign-ins that a logout or a change of password     *)
(* ended outlive it by less than their own life, though VerifyAccess never *)
(* looks a token up.                                                       *)
(***************************************************************************)
THEOREM AccessEndsAlways == Spec => []AccessEnds
<1>1. Inv => AccessEnds
  BY SMTT(60), SignInAssumption DEF Inv, TypeOK, TokenOK, Tokens, AccessEnds, Alive
<1> QED
  BY <1>1, Invariant, PTL

(***************************************************************************)
(* The comparison of Refresh refuses a token only when it has expired or   *)
(* users was updated after it was issued.                                  *)
(***************************************************************************)
THEOREM RefusedForAReasonAlways == Spec => RefusedForAReason
<1> DEFINE A == \A r \in Requests :
                  req[r].pc = "compare" /\ req'[r].pc = "clear" =>
                     \/ clock >= req[r].held.tok + RefreshTTL
                     \/ req[r].held.write < writes
<1>1. ASSUME Inv, [Next]_vars PROVE A
  <2> SUFFICES ASSUME NEW r \in Requests, req[r].pc = "compare", req'[r].pc = "clear"
               PROVE  \/ clock >= req[r].held.tok + RefreshTTL
                      \/ req[r].held.write < writes
    OBVIOUS
  <2>1. Compare(r)
    <3> req \in [Requests -> ReqType]
      BY <1>1 DEF Inv, TypeOK
    <3>1. ASSUME NEW q \in Requests, Compare(q) PROVE q = r
      BY <3>1 DEF Compare, Goto
    <3>2. ASSUME NEW q \in Requests, CompareFails(q) \/ Issue(q) \/ IssueFails(q) \/ Answer(q)
          PROVE  FALSE
      <4>1. req' = [req EXCEPT ![q] = Idle] \/ \E p \in {"failed", "answer"} : \E h : Goto(q, p, h)
        BY Zenon, <3>2 DEF CompareFails, Issue, IssueFails, Answer
      <4>2. CASE req' = [req EXCEPT ![q] = Idle]
        BY SMTT(60), <4>2 DEF Idle
      <4>3. ASSUME NEW p \in {"failed", "answer"}, NEW h, Goto(q, p, h) PROVE FALSE
        BY SMTT(60), <4>3 DEF Goto
      <4> QED
        BY Zenon, <4>1, <4>2, <4>3
    <3>3. ASSUME NEW q \in Requests, Revoke(q) \/ RevokeFails(q) \/ ClearCookie(q) \/ Lose(q)
          PROVE  FALSE
      BY <3>3 DEF Revoke, RevokeFails, ClearCookie, Lose, Goto, Idle
    <3>4. ASSUME NEW q \in Requests, NEW b \in Browsers,
                 Login(q, b) \/ SendRefresh(q, b) \/ SendRevoke(q, b)
          PROVE  FALSE
      BY <3>4 DEF Login, SendRefresh, SendRevoke, Begin
    <3>5. ~(Restart \/ Tick \/ UNCHANGED vars)
      BY DEF Restart, Tick, vars, Idle
    <3> QED
      BY <1>1, <3>1, <3>2, <3>3, <3>4, <3>5 DEF Next
  <2>2. ReqOK(req[r]) /\ TypeOK
    BY <1>1 DEF Inv
  <2> QED
    <3>1. ~(Alive(req[r].held.tok, RefreshTTL) /\ stored.tok = req[r].held.tok)
      <4> SUFFICES ASSUME Goto(r, "issue", stored) PROVE FALSE
        BY Zenon, <2>1 DEF Compare
      <4> QED
        BY SMTT(60), <2>2 DEF Goto, TypeOK
    <3>2. req[r].held.tok # 0 /\ TokenOK(req[r].held)
      BY Zenon, <2>2 DEF ReqOK
    <3> QED
      <4>1. clock \in Nat /\ writes \in Nat
        BY Zenon, <2>2 DEF TypeOK
      <4>2. req[r].held.tok \in Nat /\ req[r].held.write \in Nat
        BY Zenon, <3>2 DEF TokenOK, Tokens
      <4>3. req[r].held.write <= writes /\ (req[r].held.write = writes => stored.tok = req[r].held.tok)
        BY Zenon, <3>2 DEF TokenOK
      <4> QED
        BY SMTT(60), <3>1, <3>2, <4>1, <4>2, <4>3, SignInAssumption DEF Alive
<1> QED
  BY <1>1, Invariant, PTL DEF Spec, RefusedForAReason

-----------------------------------------------------------------------------
(***************************************************************************)
(* ApiKeyRate.  What is known of a key's window and its admissions of the  *)
(* last minute is a predicate of values; the actions are three operations  *)
(* on them.                                                                *)
(***************************************************************************)
INSTANCE FiniteSetTheorems

Admissions == [window : Int, n : Nat, at : Nat, limit : Nat \ {0}]

\* The admissions A of the window that started at s, and those before it
Now(A, s) == {a \in A : a.window = s}
Before(A, s) == {a \in A : a.window # s}

Latest(a, S) == a \in S /\ \A b \in S : b.at <= a.at

(***************************************************************************)
(* At the time t a window that started at s has counted c.  While it runs, *)
(* all that it counted is in the last minute, the admission that opened it *)
(* included; once it is over, that one is not.  The last admission of a    *)
(* window was within its limit, and it leaves the minute last.             *)
(***************************************************************************)
WindowOK(A, s, c, t) ==
    /\ s \in Int /\ c \in Nat /\ t \in Nat /\ s <= t
    /\ A \subseteq Admissions /\ IsFiniteSet(A)
    /\ \A a \in A : t - Minute < a.at /\ a.at <= t /\ a.window <= s
    /\ \A a \in Now(A, s) : a.n < c /\ s <= a.at /\ a.at < s + Minute
    /\ \A a \in Before(A, s) : a.at < s
    /\ t - s < Minute => Cardinality(Now(A, s)) = c /\ \E a \in Now(A, s) : a.at = s
    /\ t - s >= Minute /\ Now(A, s) # {} => Cardinality(Now(A, s)) < c
    /\ Now(A, s) # {} => \E a \in Now(A, s) : Latest(a, Now(A, s)) /\ c <= a.limit
    /\ Before(A, s) # {} =>
          \E a \in Before(A, s) : Latest(a, Before(A, s)) /\ Cardinality(Before(A, s)) < a.limit

LEMMA Parts ==
    ASSUME NEW A, NEW s, IsFiniteSet(A)
    PROVE  /\ IsFiniteSet(Now(A, s)) /\ IsFiniteSet(Before(A, s))
           /\ Cardinality(Now(A, s)) \in Nat /\ Cardinality(Before(A, s)) \in Nat
           /\ Cardinality(A) = Cardinality(Now(A, s)) + Cardinality(Before(A, s))
<1>1. IsFiniteSet(Now(A, s)) /\ IsFiniteSet(Before(A, s))
  BY FS_Subset DEF Now, Before
<1>2. A = Now(A, s) \cup Before(A, s) /\ Now(A, s) \cap Before(A, s) = {}
  BY DEF Now, Before
<1>3. Cardinality(Now(A, s) \cap Before(A, s)) = 0
  BY <1>2, FS_EmptySet
<1>4. Cardinality(Now(A, s)) \in Nat /\ Cardinality(Before(A, s)) \in Nat
  BY <1>1, FS_CardinalityType
<1>5. Cardinality(Now(A, s) \cup Before(A, s))
        = Cardinality(Now(A, s)) + Cardinality(Before(A, s)) - Cardinality(Now(A, s) \cap Before(A, s))
  BY <1>1, FS_Union
<1>6. Cardinality(A) = Cardinality(Now(A, s) \cup Before(A, s))
  BY <1>2
<1>7. Cardinality(A) = Cardinality(Now(A, s)) + Cardinality(Before(A, s))
  BY <1>3, <1>4, <1>5, <1>6
<1> QED
  BY <1>1, <1>4, <1>7

(* Counting in a window that runs. *)
LEMMA CountInside ==
    ASSUME NEW A, NEW s, NEW c, NEW t, WindowOK(A, s, c, t), t - s < Minute,
           NEW L \in Nat \ {0}, c < L
    PROVE  WindowOK(A \cup {[window |-> s, n |-> c, at |-> t, limit |-> L]}, s, c + 1, t)
<1> DEFINE x == [window |-> s, n |-> c, at |-> t, limit |-> L]
           B == A \cup {x}
<1>1. s \in Int /\ c \in Nat /\ t \in Nat /\ s <= t /\ Minute \in Nat \ {0}
  BY RateAssumption DEF WindowOK
<1>2. x.window = s /\ x.n = c /\ x.at = t /\ x.limit = L /\ x \in Admissions
  BY <1>1 DEF Admissions
<1>3. Now(B, s) = Now(A, s) \cup {x} /\ Before(B, s) = Before(A, s) /\ x \notin Now(A, s)
  <2> HIDE DEF x
  <2> QED
    BY <1>1, <1>2 DEF Now, Before, WindowOK
<1> HIDE DEF x, B
<1>4. IsFiniteSet(B) /\ B \subseteq Admissions
  BY <1>2, FS_AddElement DEF WindowOK, B
<1>5. Cardinality(Now(B, s)) = c + 1
  <2>1. IsFiniteSet(Now(A, s)) /\ Cardinality(Now(A, s)) = c
    BY Parts DEF WindowOK
  <2>2. Cardinality(Now(A, s) \cup {x}) = Cardinality(Now(A, s)) + 1
    BY <1>3, <2>1, FS_AddElement
  <2> QED
    BY <1>3, <2>1, <2>2
<1>6. \A a \in Now(A, s) : a.at <= t /\ a \in Admissions
  BY DEF WindowOK, Now
<1>7. Latest(x, Now(B, s)) /\ c + 1 <= x.limit /\ x \in Now(B, s)
  BY <1>1, <1>2, <1>3, <1>6 DEF Latest
<1>8. \A a \in B : t - Minute < a.at /\ a.at <= t /\ a.window <= s
  BY <1>1, <1>2 DEF B, WindowOK
<1>9. \A a \in Now(B, s) : a.n < c + 1 /\ s <= a.at /\ a.at < s + Minute
  BY <1>1, <1>2, <1>3, <1>6 DEF WindowOK, Admissions
<1>10. \E a \in Now(B, s) : a.at = s
  BY <1>3 DEF WindowOK
<1>11. /\ \A a \in Before(B, s) : a.at < s
       /\ Before(B, s) # {} =>
             \E a \in Before(B, s) : Latest(a, Before(B, s)) /\ Cardinality(Before(B, s)) < a.limit
  BY <1>3 DEF WindowOK
<1>12. ~(t - s >= Minute) /\ c + 1 \in Nat
  BY <1>1
<1>13. WindowOK(B, s, c + 1, t)
  BY <1>1, <1>4, <1>5, <1>7, <1>8, <1>9, <1>10, <1>11, <1>12 DEF WindowOK
<1> QED
  BY <1>13 DEF B, x

(* Opening the next window: the old one is over, and lost its first       *)
(* admission from the minute.                                              *)
LEMMA CountFresh ==
    ASSUME NEW A, NEW s, NEW c, NEW t, WindowOK(A, s, c, t), t - s >= Minute,
           NEW L \in Nat \ {0}
    PROVE  WindowOK(A \cup {[window |-> t, n |-> 0, at |-> t, limit |-> L]}, t, 1, t)
<1> DEFINE x == [window |-> t, n |-> 0, at |-> t, limit |-> L]
           B == A \cup {x}
<1>1. s \in Int /\ c \in Nat /\ t \in Nat /\ s <= t /\ Minute \in Nat \ {0} /\ s < t
  BY RateAssumption DEF WindowOK
<1>2. x.window = t /\ x.n = 0 /\ x.at = t /\ x.limit = L /\ x \in Admissions
  BY <1>1 DEF Admissions
<1> HIDE DEF x
<1>3. \A a \in A : a \in Admissions /\ a.window # t /\ a.at > t - Minute /\ a.at <= t
  BY <1>1 DEF WindowOK, Admissions
<1>4. Before(A, s) = {} /\ Now(A, s) = A
  BY <1>1, <1>3 DEF WindowOK, Before, Now, Admissions
<1>5. Now(B, t) = {x} /\ Before(B, t) = A
  BY <1>2, <1>3 DEF Now, Before
<1> HIDE DEF B
<1>6. IsFiniteSet(B) /\ B \subseteq Admissions
  BY <1>2, FS_AddElement DEF WindowOK, B
<1>7. Cardinality(Now(B, t)) = 1
  BY <1>5, FS_Singleton
<1>8. \A a \in B : t - Minute < a.at /\ a.at <= t /\ a.window <= t
  BY <1>1, <1>2, <1>3 DEF B, WindowOK, Admissions
<1>9. \A a \in Now(B, t) : a.n < 1 /\ t <= a.at /\ a.at < t + Minute /\ a.at = t /\ a = x
  BY <1>1, <1>2, <1>5
<1>10. \A a \in Before(B, t) : a.at < t
  BY <1>1, <1>3, <1>4, <1>5 DEF WindowOK, Admissions
<1>11. Latest(x, Now(B, t)) /\ 1 <= x.limit /\ x \in Now(B, t)
  BY <1>1, <1>2, <1>5 DEF Latest
<1>12. A # {} => \E a \in A : Latest(a, A) /\ Cardinality(A) < a.limit
  BY <1>1, <1>4, Parts DEF WindowOK, Admissions
<1>13. WindowOK(B, t, 1, t)
  BY SMTT(60), <1>1, <1>2, <1>5, <1>6, <1>7, <1>8, <1>9, <1>10, <1>11, <1>12 DEF WindowOK
<1> QED
  BY <1>13 DEF B, x

(* The clock moves on, and old admissions leave the minute.                *)
LEMMA TimePasses ==
    ASSUME NEW A, NEW s, NEW c, NEW t, WindowOK(A, s, c, t)
    PROVE  WindowOK({a \in A : a.at > t + 1 - Minute}, s, c, t + 1)
<1> DEFINE B == {a \in A : a.at > t + 1 - Minute}
<1>1. s \in Int /\ c \in Nat /\ t \in Nat /\ s <= t /\ Minute \in Nat \ {0}
  BY RateAssumption DEF WindowOK
<1>2. /\ Now(B, s) = {a \in Now(A, s) : a.at > t + 1 - Minute}
      /\ Before(B, s) = {a \in Before(A, s) : a.at > t + 1 - Minute}
  BY DEF Now, Before
<1>3. B \subseteq Admissions /\ IsFiniteSet(B) /\ IsFiniteSet(A)
  BY FS_Subset DEF WindowOK
<1>4. \A a \in A : a \in Admissions /\ a.at \in Int
  BY DEF WindowOK, Admissions
<1>5. /\ \A a \in B : t + 1 - Minute < a.at /\ a.at <= t + 1 /\ a.window <= s
      /\ \A a \in Now(B, s) : a \in Now(A, s) /\ a.n < c /\ s <= a.at /\ a.at < s + Minute
      /\ \A a \in Before(B, s) : a \in Before(A, s) /\ a.at < s
  BY <1>1, <1>2, <1>4 DEF WindowOK
<1>6. /\ IsFiniteSet(Now(A, s)) /\ IsFiniteSet(Before(A, s))
      /\ Cardinality(Now(A, s)) \in Nat /\ Cardinality(Before(A, s)) \in Nat
      /\ Cardinality(Now(B, s)) \in Nat /\ Cardinality(Before(B, s)) \in Nat
  BY <1>3, Parts
<1>7. Now(B, s) \subseteq Now(A, s) /\ Before(B, s) \subseteq Before(A, s)
  BY <1>2
<1>8. /\ Cardinality(Now(B, s)) <= Cardinality(Now(A, s))
      /\ Cardinality(Before(B, s)) <= Cardinality(Before(A, s))
  BY <1>6, <1>7, FS_Subset
<1> HIDE DEF B
<1>9. t + 1 - s < Minute => Cardinality(Now(B, s)) = c /\ \E a \in Now(B, s) : a.at = s
  <2> SUFFICES ASSUME t + 1 - s < Minute
               PROVE  Cardinality(Now(B, s)) = c /\ \E a \in Now(B, s) : a.at = s
    OBVIOUS
  <2>1. \A a \in Now(A, s) : a \in A /\ s <= a.at
    BY DEF WindowOK, Now
  <2>2. \A a \in Now(A, s) : a.at > t + 1 - Minute
    BY <1>1, <1>4, <2>1
  <2>3. Now(B, s) = Now(A, s)
    BY <1>2, <2>2
  <2> QED
    BY <1>1, <2>3 DEF WindowOK
<1>10. t + 1 - s >= Minute /\ Now(B, s) # {} => Cardinality(Now(B, s)) < c
  <2> SUFFICES ASSUME t + 1 - s >= Minute, Now(B, s) # {} PROVE Cardinality(Now(B, s)) < c
    OBVIOUS
  <2>1. CASE t - s >= Minute
    BY <1>1, <1>6, <1>7, <1>8, <2>1 DEF WindowOK
  <2>2. CASE t - s < Minute
    <3>1. PICK o \in Now(A, s) : o.at = s
      BY <2>2 DEF WindowOK
    <3>2. o \notin Now(B, s)
      BY <1>1, <1>2, <3>1
    <3>3. Now(B, s) # Now(A, s)
      BY <3>1, <3>2
    <3>4. Cardinality(Now(B, s)) < Cardinality(Now(A, s))
      BY <1>6, <1>7, <1>8, <3>3, FS_Subset
    <3> QED
      BY <2>2, <3>4 DEF WindowOK
  <2> QED
    BY <1>1, <2>1, <2>2
<1>11. Now(B, s) # {} => \E a \in Now(B, s) : Latest(a, Now(B, s)) /\ c <= a.limit
  <2> SUFFICES ASSUME NEW b \in Now(B, s)
               PROVE  \E a \in Now(B, s) : Latest(a, Now(B, s)) /\ c <= a.limit
    OBVIOUS
  <2>1. PICK a \in Now(A, s) : Latest(a, Now(A, s)) /\ c <= a.limit
    BY <1>7 DEF WindowOK
  <2>2. a \in A /\ b \in A /\ b.at > t + 1 - Minute /\ b.at <= a.at
    BY <1>2, <2>1 DEF Latest, Now
  <2>3. a \in Now(B, s)
    BY <1>1, <1>2, <1>4, <2>2
  <2> QED
    BY <1>7, <2>1, <2>3 DEF Latest
<1>12. Before(B, s) # {} =>
         \E a \in Before(B, s) : Latest(a, Before(B, s)) /\ Cardinality(Before(B, s)) < a.limit
  <2> SUFFICES ASSUME NEW b \in Before(B, s)
               PROVE  \E a \in Before(B, s) : Latest(a, Before(B, s)) /\ Cardinality(Before(B, s)) < a.limit
    OBVIOUS
  <2>1. PICK a \in Before(A, s) : Latest(a, Before(A, s)) /\ Cardinality(Before(A, s)) < a.limit
    BY <1>7 DEF WindowOK
  <2>2. a \in A /\ b \in A /\ b.at > t + 1 - Minute /\ b.at <= a.at /\ a.limit \in Nat
    BY <1>2, <1>4, <2>1 DEF Latest, Before, Admissions
  <2>3. a \in Before(B, s)
    BY SMTT(60), <1>1, <1>2, <1>4, <2>2
  <2>4. Cardinality(Before(B, s)) < a.limit
    BY SMTT(60), <1>6, <1>8, <2>1, <2>2
  <2> QED
    BY <1>7, <2>1, <2>3, <2>4 DEF Latest
<1>13. WindowOK(B, s, c, t + 1)
  BY SMTT(60), <1>1, <1>3, <1>5, <1>9, <1>10, <1>11, <1>12 DEF WindowOK
<1> QED
  BY <1>13 DEF B

-----------------------------------------------------------------------------
KeysTypeOK ==
    /\ time \in Nat
    /\ row = [k \in Keys |-> row[k]] /\ \A k \in Keys : row[k].limit \in Nat
    /\ rate = [k \in Keys |-> [started |-> rate[k].started, count |-> rate[k].count]]
    /\ call = [r \in Calls |-> call[r]]
    /\ \A r \in Calls : call[r].pc = "count" => call[r].key \in Keys /\ call[r].limit \in Nat \ {0}
    /\ admitted = [k \in Keys |-> admitted[k]]

RateInv ==
    /\ KeysTypeOK /\ RefusedOnlyOverLimit
    /\ \A k \in Keys : WindowOK(admitted[k], rate[k].started, rate[k].count, time)

\* No window yet
LEMMA EmptyWindow ==
    ASSUME NEW t \in Nat
    PROVE  WindowOK({}, NoWindow.started, NoWindow.count, t)
<1>1. Now({}, -Minute) = {} /\ Before({}, -Minute) = {} /\ IsFiniteSet({})
  BY Zenon, FS_EmptySet DEF Now, Before
<1> QED
  BY SMTT(60), <1>1, RateAssumption DEF WindowOK, NoWindow

LEMMA RateInit == KeysInit => RateInv
<1> SUFFICES ASSUME KeysInit PROVE RateInv
  OBVIOUS
<1>1. KeysTypeOK /\ RefusedOnlyOverLimit
  BY SMTT(60), RateAssumption DEF KeysInit, KeysTypeOK, RefusedOnlyOverLimit, NoRow, NoCall, NoWindow
<1>2. \A k \in Keys : WindowOK(admitted[k], rate[k].started, rate[k].count, time)
  BY SMTT(60), EmptyWindow DEF KeysInit
<1> QED
  BY Zenon, <1>1, <1>2 DEF RateInv

LEMMA FullWindow ==
    ASSUME NEW A, NEW s \in Int, NEW n \in Nat, NEW now \in Nat, WindowOK(A, s, n, now),
           ~(now - s >= Minute), NEW L \in Nat, n >= L
    PROVE  Cardinality(A) >= L
<1>1. now - s < Minute
  BY SMTT(60), RateAssumption
<1>2. Cardinality(Now(A, s)) = n /\ IsFiniteSet(A)
  BY Zenon, <1>1 DEF WindowOK
<1>3. Cardinality(A) = n + Cardinality(Before(A, s)) /\ Cardinality(Before(A, s)) \in Nat
  BY Zenon, <1>2, Parts
<1> QED
  BY SMTT(60), <1>3

LEMMA OneRefusal ==
    ASSUME NEW l, NEW n, n >= l
    PROVE  LET o == <<[limit |-> l, seen |-> n]>> IN \A i \in DOMAIN o : o[i].seen >= o[i].limit
  BY SMTT(60)

LEMMA CountKeeps ==
    ASSUME RateInv, NEW r \in Calls, Count(r)
    PROVE  RateInv'
<1> USE DEF RateInv
<1> DEFINE k == call[r].key  L == call[r].limit  w == Current(k)
           x == [window |-> w.started, n |-> w.count, at |-> time, limit |-> L]
<1>1. k \in Keys /\ L \in Nat \ {0} /\ time \in Nat /\ Minute \in Nat
      /\ rate[k].started \in Int /\ rate[k].count \in Nat
  BY ZenonT(60), RateAssumption DEF Count, KeysTypeOK, WindowOK
<1> HIDE DEF k, L, w
<1>2. /\ UNCHANGED <<time, row>> /\ call' = [call EXCEPT ![r] = NoCall]
      /\ \/ /\ w.count >= L /\ overLimit' = <<[limit |-> L, seen |-> Cardinality(admitted[k])]>>
            /\ UNCHANGED <<rate, admitted>>
         \/ /\ ~(w.count >= L) /\ UNCHANGED overLimit
            /\ rate' = [rate EXCEPT ![k] = [w EXCEPT !.count = @ + 1]]
            /\ admitted' = [admitted EXCEPT ![k] = @ \cup {x}]
  BY DEF Count, Exceeded, k, L, w
<1>3. w = IF time - rate[k].started >= Minute THEN [started |-> time, count |-> 0] ELSE rate[k]
  BY DEF w, Current, Fresh
<1>4. rate[k] = [started |-> rate[k].started, count |-> rate[k].count]
  BY <1>1 DEF KeysTypeOK
<1>5. WindowOK(admitted[k], rate[k].started, rate[k].count, time)
  BY <1>1
<1>6. CASE w.count >= L /\ overLimit' = <<[limit |-> L, seen |-> Cardinality(admitted[k])]>>
           /\ UNCHANGED <<rate, admitted>>
  <2>1. ~(time - rate[k].started >= Minute) /\ w = rate[k]
    BY <1>1, <1>3, <1>6
  <2>2. Cardinality(admitted[k]) >= L
    BY Zenon, <1>1, <1>5, <1>6, <2>1, FullWindow
  <2>5. RefusedOnlyOverLimit'
    BY Zenon, <1>6, <2>2, OneRefusal DEF RefusedOnlyOverLimit
  <2>6. KeysTypeOK'
    BY ZenonT(60), <1>2, <1>6 DEF KeysTypeOK, NoCall
  <2> QED
    BY Zenon, <1>2, <1>6, <2>5, <2>6
<1>7. CASE /\ ~(w.count >= L) /\ UNCHANGED overLimit
           /\ rate' = [rate EXCEPT ![k] = [w EXCEPT !.count = @ + 1]]
           /\ admitted' = [admitted EXCEPT ![k] = @ \cup {x}]
  <2>1. /\ rate'[k].started = w.started /\ rate'[k].count = w.count + 1
        /\ admitted'[k] = admitted[k] \cup {x}
        /\ \A j \in Keys \ {k} : rate'[j] = rate[j] /\ admitted'[j] = admitted[j]
        /\ rate'[k] = [started |-> w.started, count |-> w.count + 1]
    BY SMTT(60), <1>1, <1>3, <1>4, <1>7 DEF KeysTypeOK
  <2>2. WindowOK(admitted[k] \cup {x}, w.started, w.count + 1, time)
    <3>1. CASE time - rate[k].started >= Minute
      <4>1. w.started = time /\ w.count = 0 /\ w.count + 1 = 1
        BY <1>3, <3>1
      <4>2. WindowOK(admitted[k] \cup {[window |-> time, n |-> 0, at |-> time, limit |-> L]}, time, 1, time)
        BY SMTT(60), <1>1, <1>5, <3>1, CountFresh
      <4> QED
        BY <4>1, <4>2
    <3>2. CASE ~(time - rate[k].started >= Minute)
      <4>1. w = rate[k] /\ time - rate[k].started < Minute /\ rate[k].count < L
        BY <1>1, <1>3, <1>7, <3>2
      <4> QED
        BY <1>1, <1>5, <4>1, CountInside
    <3> QED
      BY <3>1, <3>2
  <2>3. \A j \in Keys : WindowOK(admitted'[j], rate'[j].started, rate'[j].count, time')
    BY ZenonT(60), <1>2, <2>1, <2>2
  <2>4. KeysTypeOK'
    <3>1. rate' = [j \in Keys |-> [started |-> rate'[j].started, count |-> rate'[j].count]]
      BY SMTT(60), <1>1, <1>7, <2>1 DEF KeysTypeOK
    <3> QED
      BY ZenonT(60), <1>2, <1>7, <3>1 DEF KeysTypeOK, NoCall
  <2> QED
    BY ZenonT(60), <1>7, <2>3, <2>4 DEF RefusedOnlyOverLimit
<1> QED
  BY SMTT(60), <1>2, <1>6, <1>7

LEMMA RateNext == RateInv /\ [KeysNext]_keyVars => RateInv'
<1> SUFFICES ASSUME RateInv, [KeysNext]_keyVars PROVE RateInv'
  OBVIOUS
<1> USE DEF RateInv
<1>1. ASSUME NEW k \in Keys, CreateAPIKey(k) \/ UpdateAPIKey(k) \/ DeleteAPIKey(k) PROVE RateInv'
  <2>1. /\ UNCHANGED <<time, rate, call, admitted, overLimit>>
        /\ \E v : v.limit \in Nat /\ row' = [row EXCEPT ![k] = v]
    BY ZenonT(60), <1>1, RateAssumption DEF CreateAPIKey, UpdateAPIKey, DeleteAPIKey, Rows, NoRow
  <2>2. KeysTypeOK'
    BY <2>1 DEF KeysTypeOK
  <2> QED
    BY SMTT(60), <2>1, <2>2 DEF RefusedOnlyOverLimit
<1>2. ASSUME NEW r \in Calls, NEW k \in Keys, Verify(r, k) PROVE RateInv'
  <2>1. KeysTypeOK'
    BY <1>2 DEF Verify, KeysTypeOK
  <2> QED
    BY <1>2, <2>1 DEF Verify, RefusedOnlyOverLimit
<1>3. CASE ClockTicks
  <2>1. KeysTypeOK'
    BY <1>3 DEF ClockTicks, KeysTypeOK
  <2>2. \A k \in Keys : WindowOK({a \in admitted[k] : a.at > time + 1 - Minute},
                                 rate[k].started, rate[k].count, time + 1)
    BY TimePasses
  <2> QED
    BY ZenonT(60), <1>3, <2>1, <2>2 DEF ClockTicks, RefusedOnlyOverLimit
<1>4. CASE GatewayRestarts
  <2>1. KeysTypeOK'
    BY SMTT(60), <1>4, RateAssumption DEF GatewayRestarts, KeysTypeOK, NoWindow, NoCall
  <2>2. \A k \in Keys : WindowOK(admitted'[k], rate'[k].started, rate'[k].count, time')
    BY SMTT(60), <1>4, EmptyWindow DEF GatewayRestarts, KeysTypeOK
  <2> QED
    BY ZenonT(60), <1>4, <2>1, <2>2 DEF GatewayRestarts, RefusedOnlyOverLimit
<1>5. CASE UNCHANGED keyVars
  BY <1>5 DEF keyVars, KeysTypeOK, RefusedOnlyOverLimit
<1> QED
  BY <1>1, <1>2, <1>3, <1>4, <1>5, CountKeeps DEF KeysNext

LEMMA RateInvariant == KeysSpec => []RateInv
  BY RateInit, RateNext, PTL DEF KeysSpec

(* VerifyAPIKey lets a key in less than twice its limit in any minute of a *)
(* life of the process, however requests race for the mutex and limits     *)
(* change before it.                                                       *)
THEOREM RateAlwaysKept == KeysSpec => []RateKept
<1>1. RateInv => RateKept
  <2> SUFFICES ASSUME RateInv, NEW k \in Keys, admitted[k] # {}
               PROVE  \E a \in admitted[k] : Cardinality(admitted[k]) < 2 * a.limit
    BY DEF RateKept
  <2> DEFINE A == admitted[k]  s == rate[k].started  c == rate[k].count
  <2>1. WindowOK(A, s, c, time) /\ Minute \in Nat \ {0}
    BY SMTT(60), RateAssumption DEF RateInv
  <2> HIDE DEF A, s, c
  <2>2. /\ Cardinality(A) = Cardinality(Now(A, s)) + Cardinality(Before(A, s))
        /\ Cardinality(Now(A, s)) \in Nat /\ Cardinality(Before(A, s)) \in Nat
    BY <2>1, Parts DEF WindowOK
  <2>3. \A a \in A : a.limit \in Nat \ {0}
    BY <2>1 DEF WindowOK, Admissions
  <2>4. Now(A, s) # {} => \E a \in A : Cardinality(Now(A, s)) <= a.limit
    <3>1. Now(A, s) # {} => Cardinality(Now(A, s)) <= c
      BY SMTT(60), <2>1, <2>2 DEF WindowOK
    <3>2. Now(A, s) # {} => \E a \in A : c <= a.limit
      BY <2>1 DEF WindowOK, Now
    <3>3. c \in Nat
      BY <2>1 DEF WindowOK
    <3> QED
      BY SMTT(60), <2>2, <2>3, <3>1, <3>2, <3>3
  <2>5. Before(A, s) # {} => \E a \in A : Cardinality(Before(A, s)) < a.limit
    BY <2>1 DEF WindowOK, Before
  <2>6. /\ Now(A, s) = {} => Cardinality(Now(A, s)) = 0
        /\ Before(A, s) = {} => Cardinality(Before(A, s)) = 0
    BY FS_EmptySet
  <2>7. \E a \in A : Cardinality(A) < 2 * a.limit
    <3>0. Now(A, s) # {} \/ Before(A, s) # {}
      BY DEF Now, Before, A
    <3>1. CASE Now(A, s) = {}
      <4>1. PICK b \in A : Cardinality(Before(A, s)) < b.limit
        BY <2>5, <3>0, <3>1
      <4> QED
        BY SMTT(60), <2>2, <2>3, <2>6, <3>1, <4>1
    <3>2. CASE Before(A, s) = {}
      <4>1. PICK a \in A : Cardinality(Now(A, s)) <= a.limit
        BY <2>4, <3>0, <3>2
      <4>2. a.limit \in Nat \ {0} /\ Cardinality(A) = Cardinality(Now(A, s))
        BY <2>2, <2>3, <2>6, <3>2
      <4> QED
        BY <2>2, <4>1, <4>2
    <3>3. CASE Now(A, s) # {} /\ Before(A, s) # {}
      <4>1. PICK a \in A : Cardinality(Now(A, s)) <= a.limit
        BY <2>4, <3>3
      <4>2. PICK b \in A : Cardinality(Before(A, s)) < b.limit
        BY <2>5, <3>3
      <4>3. Cardinality(A) < a.limit + b.limit /\ a.limit \in Nat /\ b.limit \in Nat
        BY <2>2, <2>3, <4>1, <4>2
      <4> QED
        BY <2>2, <4>3
    <3> QED
      BY <3>1, <3>2, <3>3
  <2> QED
    BY <2>7 DEF A
<1> QED
  BY <1>1, RateInvariant, PTL

(* A request refused with the rate limit had its limit used up in the      *)
(* minute before: no count of an older window is held against it.          *)
THEOREM RefusedAlwaysOverLimit == KeysSpec => []RefusedOnlyOverLimit
  BY RateInvariant, PTL DEF RateInv

-----------------------------------------------------------------------------
(* Paging.  The rows that a walk has passed without reading them are no    *)
(* more than went after its first page: a row that comes moves no row      *)
(* forward, and a row that goes moves one row at most on to the last page  *)
(* that was read.  The rows beyond the last total came after its count.    *)

INSTANCE WellFoundedInduction

\* A set of numbers that is not empty has a least one.
LEMMA LeastNat ==
  ASSUME NEW T, T \subseteq Nat, T # {}
  PROVE  \E x \in T : \A y \in T : x <= y
<1> DEFINE R == OpToRel(<, Nat)
<1>1. PICK x \in T : \A y \in T : ~(<<y, x>> \in R)
  BY Zenon, WFMin, NatLessThanWellFounded
<1>2. R = {p \in Nat \X Nat : p[1] < p[2]}
  BY Zenon DEF OpToRel
<1> HIDE DEF R
<1>3. \A u, v \in Nat : u < v => <<u, v>> \in {p \in Nat \X Nat : p[1] < p[2]}
  BY SMTT(60)
<1>4. \A y \in T : ~(y < x)
  BY Zenon, <1>1, <1>2, <1>3
<1> QED
  BY SMTT(60), <1>1, <1>4

\* The place of r in a list of the rows T, newest first
From(T, r) == {o \in T : o >= r}
RankIn(T, r) == Cardinality(From(T, r))

LEMMA RankType ==
  ASSUME NEW T, IsFiniteSet(T), T \subseteq Nat
  PROVE  \A r : /\ IsFiniteSet(From(T, r)) /\ RankIn(T, r) \in Nat
                /\ r \in T => RankIn(T, r) >= 1
<1> TAKE r
<1>1. From(T, r) \in SUBSET T
  BY Zenon DEF From
<1>2. IsFiniteSet(From(T, r)) /\ RankIn(T, r) \in Nat
  BY Zenon, <1>1, FS_Subset, FS_CardinalityType DEF RankIn
<1>3. r \in T => From(T, r) # {}
  <2>1. r \in T => r >= r
    BY SMTT(60)
  <2> QED
    BY Zenon, <2>1 DEF From
<1>4. r \in T => RankIn(T, r) # 0
  BY Zenon, <1>2, <1>3, FS_EmptySet DEF RankIn
<1> QED
  BY SMTT(60), <1>2, <1>4

\* An older row comes after a newer one.
LEMMA RankStrict ==
  ASSUME NEW T, IsFiniteSet(T), T \subseteq Nat, NEW r \in T, NEW s \in T, r < s
  PROVE  RankIn(T, s) < RankIn(T, r)
<1>1. From(T, s) \in SUBSET From(T, r) /\ r \in From(T, r) /\ r \notin From(T, s)
  <2>1. r >= r /\ ~(r >= s) /\ \A o \in T : o >= s => o >= r
    BY SMTT(60)
  <2> QED
    BY Zenon, <2>1 DEF From
<1>2. RankIn(T, s) <= RankIn(T, r) /\ RankIn(T, s) # RankIn(T, r)
  BY Zenon, <1>1, RankType, FS_Subset DEF RankIn
<1>3. RankIn(T, s) \in Nat /\ RankIn(T, r) \in Nat
  BY Zenon, RankType
<1> QED
  BY SMTT(60), <1>2, <1>3

\* A row that comes moves no row forward.
LEMMA RankAdd ==
  ASSUME NEW T, IsFiniteSet(T), T \subseteq Nat, NEW x \in Nat
  PROVE  \A r : RankIn(T, r) <= RankIn(T \cup {x}, r)
<1> TAKE r
<1>1. IsFiniteSet(T \cup {x}) /\ T \cup {x} \subseteq Nat
  BY Zenon, FS_AddElement
<1>2. From(T, r) \in SUBSET From(T \cup {x}, r)
  BY Zenon DEF From
<1> QED
  BY Zenon, <1>1, <1>2, RankType, FS_Subset DEF RankIn

\* A row that goes moves a row forward by one place at most.
LEMMA RankRemove ==
  ASSUME NEW T, IsFiniteSet(T), T \subseteq Nat, NEW x
  PROVE  \A r : RankIn(T, r) <= RankIn(T \ {x}, r) + 1
<1> TAKE r
<1>1. From(T \ {x}, r) = From(T, r) \ {x}
  BY Zenon DEF From
<1>2. Cardinality(From(T, r) \ {x}) = IF x \in From(T, r) THEN RankIn(T, r) - 1 ELSE RankIn(T, r)
  BY Zenon, RankType, FS_RemoveElement DEF RankIn
<1>3. RankIn(T, r) \in Nat
  BY Zenon, RankType
<1> QED
  <2> DEFINE a == RankIn(T, r)
             b == RankIn(T \ {x}, r)
  <2>1. (b = a - 1 \/ b = a) /\ a \in Nat
    BY Zenon, <1>1, <1>2, <1>3 DEF RankIn
  <2> HIDE DEF a, b
  <2>2. a <= b + 1
    BY SMTT(60), <2>1
  <2> QED
    BY Zenon, <2>2 DEF a, b

\* What lies beyond the first n rows
LEMMA Beyond ==
  ASSUME NEW T, IsFiniteSet(T), T \subseteq Nat, NEW n \in Nat, NEW k \in Nat,
         Cardinality(T) <= n + k
  PROVE  LET D == {r \in T : RankIn(T, r) > n} IN IsFiniteSet(D) /\ Cardinality(D) <= k
<1> DEFINE D == {r \in T : RankIn(T, r) > n}
<1>1. IsFiniteSet(D) /\ Cardinality(D) \in Nat /\ D \in SUBSET T
  <2>1. D \in SUBSET T
    BY Zenon
  <2> QED
    BY Zenon, <2>1, FS_Subset, FS_CardinalityType
<1>2. CASE D = {}
  BY SMTT(60), <1>2, FS_EmptySet
<1>3. CASE D # {}
  <2> DEFINE R == {RankIn(T, r) : r \in D}
  <2>1. PICK x \in R : \A y \in R : x <= y
    <3>1. R \subseteq Nat /\ R # {}
      BY Zenon, <1>3, RankType
    <3> QED
      BY Zenon, <3>1, LeastNat
  <2>2. PICK s \in D : \A r \in D : RankIn(T, s) <= RankIn(T, r)
    BY Zenon, <2>1
  <2> DEFINE A == From(T, s) \ {s}
  <2>3. s \in T /\ RankIn(T, s) > n /\ s \in From(T, s)
    BY SMTT(60), <2>2 DEF From
  <2>4. IsFiniteSet(A) /\ Cardinality(A) = RankIn(T, s) - 1
    BY Zenon, <2>3, RankType, FS_RemoveElement DEF RankIn
  <2>5. A \cap D = {}
    <3> SUFFICES ASSUME NEW o \in A, o \in D PROVE FALSE
      BY Zenon
    <3>1. o \in T /\ s < o
      BY SMTT(60), <2>3 DEF From
    <3>2. RankIn(T, o) < RankIn(T, s) /\ RankIn(T, s) <= RankIn(T, o)
      BY Zenon, <2>2, <2>3, <3>1, RankStrict
    <3>3. RankIn(T, o) \in Nat /\ RankIn(T, s) \in Nat
      BY Zenon, RankType
    <3> QED
      BY SMTT(60), <3>2, <3>3
  <2> HIDE DEF A, D
  <2>6. /\ A \cup D \in SUBSET T
        /\ Cardinality(A \cup D) = Cardinality(A) + Cardinality(D) - Cardinality(A \cap D)
    <3>1. A \cup D \in SUBSET T
      BY Zenon, <1>1 DEF A, From
    <3> QED
      BY Zenon, <1>1, <2>4, <3>1, FS_Union
  <2>7. Cardinality(A \cup D) <= Cardinality(T) /\ Cardinality(A \cap D) = 0
    BY Zenon, <2>5, <2>6, FS_Subset, FS_EmptySet
  <2>8. RankIn(T, s) \in Nat /\ Cardinality(T) \in Nat
    BY Zenon, RankType, FS_CardinalityType
  <2>9. Cardinality(D) <= k
    BY SMTT(60), <1>1, <2>3, <2>4, <2>6, <2>7, <2>8
  <2> QED
    BY Zenon, <1>1, <2>9 DEF D
<1> QED
  BY Zenon, <1>2, <1>3

WalkTypeOK ==
  /\ table \subseteq Nat /\ IsFiniteSet(table) /\ stayed \subseteq table
  /\ page \in Nat \ {0} /\ total \in Nat /\ left \in Nat /\ late \in Nat
  /\ pc \in {"count", "query", "done"}
  /\ list = "none" => page = 1 /\ pc = "count"

\* Rows that the walk has passed without reading them
Passed == {r \in stayed \ seen : RankIn(table, r) <= Offset(page)}

WalkInv ==
  /\ WalkTypeOK
  /\ pc # "done" => Cardinality(Passed) <= left
  /\ pc = "query" => Cardinality(table) <= total + late
  /\ WalkMissesFew

LEMMA PassedFinite ==
  ASSUME WalkTypeOK
  PROVE  /\ IsFiniteSet(Passed) /\ Cardinality(Passed) \in Nat
         /\ IsFiniteSet(stayed \ seen) /\ Cardinality(stayed \ seen) \in Nat
<1>1. Passed \in SUBSET table /\ stayed \ seen \in SUBSET table
  BY Zenon DEF Passed, WalkTypeOK
<1> QED
  BY Zenon, <1>1, FS_Subset, FS_CardinalityType DEF WalkTypeOK

\* Nothing is passed on the first page.
LEMMA FirstPage ==
  ASSUME WalkTypeOK, page = 1
  PROVE  Passed = {}
<1>1. Offset(page) = 0
  BY SMTT(60), PagingAssumption DEF Offset
<1>2. \A r \in stayed : RankIn(table, r) \in Nat /\ RankIn(table, r) >= 1
  BY Zenon, RankType DEF WalkTypeOK
<1>3. \A r \in stayed : ~(RankIn(table, r) <= Offset(page))
  BY SMTT(60), <1>1, <1>2
<1> QED
  BY Zenon, <1>3 DEF Passed

LEMMA OffsetType == WalkTypeOK => Offset(page) \in Nat /\ Offset(page + 1) = Offset(page) + Limit
  BY SMTT(60), PagingAssumption DEF WalkTypeOK, Offset

LEMMA WalkStarts == WalkInit => WalkInv
<1> SUFFICES ASSUME WalkInit PROVE WalkInv
  OBVIOUS
<1>1. WalkTypeOK
  BY SMTT(60), FS_EmptySet DEF WalkInit, WalkTypeOK
<1>2. Cardinality(Passed) = 0
  BY Zenon, <1>1, FirstPage, FS_EmptySet DEF WalkInit
<1> QED
  BY SMTT(60), <1>1, <1>2 DEF WalkInit, WalkInv, WalkMissesFew

LEMMA OpenStep == ASSUME WalkInv, NEW name, name # "none", Open(name) PROVE WalkInv'
<1>1. WalkTypeOK'
  BY Zenon DEF WalkInv, WalkTypeOK, Open
<1>2. Cardinality(Passed') = 0 /\ pc' = "count" /\ left' \in Nat
  <2>1. page' = 1 /\ pc' = "count"
    BY Zenon DEF WalkInv, WalkTypeOK, Open
  <2>2. Passed' = {}
    <3>1. Offset(page)' = 0
      BY SMTT(60), <2>1, PagingAssumption DEF Offset
    <3>2. \A r \in stayed' : RankIn(table', r) \in Nat /\ RankIn(table', r) >= 1
      BY Zenon, <1>1, RankType DEF WalkTypeOK
    <3>3. \A r \in stayed' : ~(RankIn(table', r) <= Offset(page)')
      BY SMTT(60), <3>1, <3>2
    <3> QED
      BY Zenon, <3>3 DEF Passed
  <2> QED
    BY Zenon, <1>1, <2>1, <2>2, FS_EmptySet DEF WalkTypeOK
<1> QED
  BY SMTT(60), <1>1, <1>2 DEF WalkInv, WalkMissesFew

LEMMA CountStep == ASSUME WalkInv, CountRows PROVE WalkInv'
<1>1. Cardinality(table) \in Nat
  BY Zenon, FS_CardinalityType DEF WalkInv, WalkTypeOK
<1>2. WalkTypeOK'
  BY SMTT(60), <1>1 DEF WalkInv, WalkTypeOK, CountRows
<1>3. Passed' = Passed /\ left' = left /\ pc # "done" /\ pc' = "query"
  BY Zenon DEF Passed, Offset, CountRows
<1>4. Cardinality(table') <= total' + late'
  BY SMTT(60), <1>1 DEF CountRows
<1> QED
  BY Zenon, <1>2, <1>3, <1>4 DEF WalkInv, WalkMissesFew

LEMMA QueryStep == ASSUME WalkInv, QueryPage PROVE WalkInv'
<1>0. /\ table \subseteq Nat /\ IsFiniteSet(table) /\ stayed \subseteq table /\ pc = "query"
      /\ page \in Nat \ {0} /\ total \in Nat /\ left \in Nat /\ late \in Nat /\ Limit \in Nat \ {0}
      /\ Offset(page) \in Nat /\ Offset(page + 1) = Offset(page) + Limit
  BY Zenon, OffsetType, PagingAssumption DEF WalkInv, WalkTypeOK, QueryPage
<1>1. /\ UNCHANGED <<table, list, total, stayed, left, late>> /\ seen' = seen \cup PageOf(page)
      /\ \/ LastPage /\ pc' = "done" /\ page' = page
         \/ pc' = "count" /\ page' = page + 1
  BY Zenon DEF QueryPage
<1>2. WalkTypeOK'
  BY SMTT(60), <1>0, <1>1 DEF WalkInv, WalkTypeOK
<1>3. \A r \in stayed \ seen' : /\ r \in table /\ RankIn(table, r) \in Nat
                                /\ RankIn(table, r) <= Offset(page) \/ RankIn(table, r) > Offset(page) + Limit
  <2> SUFFICES ASSUME NEW r \in stayed \ seen'
               PROVE  /\ r \in table /\ RankIn(table, r) \in Nat
                      /\ RankIn(table, r) <= Offset(page) \/ RankIn(table, r) > Offset(page) + Limit
    BY Zenon
  <2>1. r \in table /\ RankIn(table, r) \in Nat /\ ~(RankIn(table, r) \in Offset(page) + 1 .. Offset(page) + Limit)
    BY Zenon, <1>0, <1>1, RankType DEF PageOf, Rank, RankIn, From
  <2> QED
    BY SMTT(60), <1>0, <2>1
<1>4. CASE pc' = "count" /\ page' = page + 1
  <2>1. \A r \in Passed' : r \in Passed
    <3> SUFFICES ASSUME NEW r \in Passed' PROVE r \in Passed
      BY Zenon
    <3>1. r \in stayed \ seen' /\ RankIn(table, r) <= Offset(page) + Limit
      BY Zenon, <1>0, <1>1, <1>4 DEF Passed, Offset
    <3>2. RankIn(table, r) <= Offset(page)
      BY SMTT(60), <1>0, <1>3, <3>1
    <3> QED
      BY Zenon, <1>1, <3>1, <3>2 DEF Passed
  <2>2. Cardinality(Passed') <= Cardinality(Passed) /\ IsFiniteSet(Passed')
    BY Zenon, <2>1, PassedFinite, FS_Subset DEF WalkInv
  <2>3. Cardinality(Passed') \in Nat /\ Cardinality(Passed) \in Nat /\ Cardinality(Passed) <= left
    BY Zenon, <1>0, <2>2, PassedFinite, FS_CardinalityType DEF WalkInv
  <2>4. Cardinality(Passed') <= left'
    BY SMTT(60), <1>0, <1>1, <2>2, <2>3
  <2> QED
    BY Zenon, <1>2, <1>4, <2>4 DEF WalkInv, WalkMissesFew
<1>5. CASE LastPage /\ pc' = "done"
  <2> DEFINE D == {r \in table : RankIn(table, r) > total}
  <2>1. IsFiniteSet(D) /\ Cardinality(D) <= late
    BY Zenon, <1>0, Beyond DEF WalkInv
  <2>2. page * Limit = Offset(page) + Limit
    BY SMTT(60), <1>0 DEF Offset
  <2>3. stayed \ seen' \subseteq Passed \cup D
    <3> SUFFICES ASSUME NEW r \in stayed \ seen', ~(RankIn(table, r) <= Offset(page))
                 PROVE  RankIn(table, r) > total
      BY Zenon, <1>1, <1>3 DEF Passed
    <3>1. page * Limit >= total
      BY Zenon, <1>5 DEF LastPage
    <3>2. RankIn(table, r) \in Nat /\ RankIn(table, r) > Offset(page) + Limit
      BY Zenon, <1>3
    <3> QED
      BY SMTT(60), <1>0, <2>2, <3>1, <3>2
  <2> HIDE DEF D
  <2>4. /\ IsFiniteSet(Passed \cup D)
        /\ Cardinality(Passed \cup D) = Cardinality(Passed) + Cardinality(D) - Cardinality(Passed \cap D)
    BY Zenon, <2>1, PassedFinite, FS_Union DEF WalkInv
  <2>5. Cardinality(stayed \ seen') <= Cardinality(Passed \cup D) /\ IsFiniteSet(stayed \ seen')
    BY Zenon, <2>3, <2>4, FS_Subset
  <2>6. /\ Cardinality(Passed \cap D) \in Nat /\ Cardinality(D) \in Nat /\ Cardinality(Passed) \in Nat
        /\ Cardinality(stayed \ seen') \in Nat /\ Cardinality(Passed) <= left
    <3>1. Passed \cap D \in SUBSET D
      BY Zenon
    <3> QED
      BY Zenon, <1>0, <2>1, <2>5, <3>1, PassedFinite, FS_Subset, FS_CardinalityType DEF WalkInv
  <2>7. Cardinality(stayed \ seen') <= left + late
    BY SMTT(60), <1>0, <2>1, <2>4, <2>5, <2>6
  <2> QED
    BY Zenon, <1>1, <1>2, <1>5, <2>7 DEF WalkInv, WalkMissesFew
<1> QED
  BY Zenon, <1>1, <1>4, <1>5

LEMMA EnterStep == ASSUME WalkInv, NEW x \in Stamps, Enter(x) PROVE WalkInv'
<1>0. /\ table \subseteq Nat /\ IsFiniteSet(table) /\ stayed \subseteq table /\ x \in Nat
      /\ left \in Nat /\ late \in Nat /\ total \in Nat /\ Offset(page) \in Nat
      /\ Cardinality(table) \in Nat
  BY Zenon, OffsetType, FS_CardinalityType, PagingAssumption DEF WalkInv, WalkTypeOK
<1>1. /\ table' = table \cup {x} /\ x \notin table
      /\ UNCHANGED <<list, pc, page, total, seen, stayed, left>>
      /\ late' = IF pc = "query" THEN late + 1 ELSE late
  BY Zenon DEF Enter, Moved, reader
<1>2. IsFiniteSet(table') /\ Cardinality(table') = Cardinality(table) + 1
  BY Zenon, <1>0, <1>1, FS_AddElement
<1>3. WalkTypeOK'
  <2>1. late' \in Nat /\ table' \subseteq Nat /\ stayed' \subseteq table'
    BY SMTT(60), <1>0, <1>1
  <2> QED
    BY Zenon, <1>1, <1>2, <2>1 DEF WalkInv, WalkTypeOK
<1>4. Passed' \in SUBSET Passed
  <2> SUFFICES ASSUME NEW r \in Passed' PROVE r \in Passed
    BY Zenon
  <2>1. r \in stayed \ seen /\ RankIn(table', r) <= Offset(page)
    BY Zenon, <1>1 DEF Passed, Offset
  <2>2. RankIn(table, r) <= RankIn(table', r) /\ RankIn(table, r) \in Nat /\ RankIn(table', r) \in Nat
    BY Zenon, <1>0, <1>1, <1>2, <1>3, RankAdd, RankType DEF WalkTypeOK
  <2>3. RankIn(table, r) <= Offset(page)
    BY SMTT(60), <1>0, <2>1, <2>2
  <2> QED
    BY Zenon, <2>1, <2>3 DEF Passed
<1>5. /\ Cardinality(Passed') <= Cardinality(Passed) /\ Cardinality(Passed') \in Nat
      /\ Cardinality(Passed) \in Nat
  BY Zenon, <1>4, PassedFinite, FS_Subset, FS_CardinalityType DEF WalkInv
<1>6. pc' # "done" => Cardinality(Passed') <= left'
  BY SMTT(60), <1>0, <1>1, <1>5 DEF WalkInv
<1>7. pc' = "query" => Cardinality(table') <= total' + late'
  BY SMTT(60), <1>0, <1>1, <1>2 DEF WalkInv
<1>8. WalkMissesFew'
  BY Zenon, <1>1 DEF WalkInv, WalkMissesFew
<1> QED
  BY Zenon, <1>3, <1>6, <1>7, <1>8 DEF WalkInv

\* One row at most moves on to a page that was read.
LEMMA ExitStep == ASSUME WalkInv, NEW x, Exit(x) PROVE WalkInv'
<1>0. /\ table \subseteq Nat /\ IsFiniteSet(table) /\ stayed \subseteq table
      /\ left \in Nat /\ late \in Nat /\ total \in Nat /\ Offset(page) \in Nat
      /\ Cardinality(table) \in Nat /\ page \in Nat \ {0}
  BY Zenon, OffsetType, FS_CardinalityType DEF WalkInv, WalkTypeOK
<1>1. /\ table' = table \ {x} /\ x \in table /\ stayed' = stayed \ {x}
      /\ UNCHANGED <<list, pc, page, total, seen, late>>
      /\ left' = IF page > 1 /\ pc # "done" THEN left + 1 ELSE left
  BY Zenon DEF Exit, Moved, reader
<1>2. IsFiniteSet(table') /\ Cardinality(table') = Cardinality(table) - 1
  BY Zenon, <1>0, <1>1, FS_RemoveElement
<1>3. WalkTypeOK'
  <2>1. left' \in Nat /\ table' \subseteq Nat /\ stayed' \subseteq table'
    BY SMTT(60), <1>0, <1>1
  <2> QED
    BY Zenon, <1>1, <1>2, <2>1 DEF WalkInv, WalkTypeOK
<1>4. \A r, s \in Passed' \ Passed : r = s
  <2>1. \A r \in Passed' \ Passed : r \in table /\ RankIn(table, r) = Offset(page) + 1
    <3> SUFFICES ASSUME NEW r \in Passed' \ Passed
                 PROVE  r \in table /\ RankIn(table, r) = Offset(page) + 1
      BY Zenon
    <3>1. /\ r \in stayed \ seen /\ RankIn(table \ {x}, r) <= Offset(page)
          /\ ~(RankIn(table, r) <= Offset(page))
      BY Zenon, <1>1 DEF Passed, Offset
    <3>2. /\ RankIn(table, r) <= RankIn(table \ {x}, r) + 1
          /\ RankIn(table, r) \in Nat /\ RankIn(table \ {x}, r) \in Nat
      BY Zenon, <1>0, <1>1, <1>2, <1>3, RankRemove, RankType DEF WalkTypeOK
    <3>3. RankIn(table, r) = Offset(page) + 1
      BY SMTT(60), <1>0, <3>1, <3>2
    <3> QED
      BY Zenon, <1>0, <3>1, <3>3
  <2> SUFFICES ASSUME NEW r \in Passed' \ Passed, NEW s \in Passed' \ Passed, r # s PROVE FALSE
    BY Zenon
  <2>2. r \in table /\ s \in table /\ RankIn(table, r) = RankIn(table, s) /\ RankIn(table, r) \in Nat
    BY Zenon, <1>0, <2>1, RankType
  <2>3. r < s \/ s < r
    BY SMTT(60), <1>0, <2>2
  <2>4. RankIn(table, r) < RankIn(table, s) \/ RankIn(table, s) < RankIn(table, r)
    BY Zenon, <1>0, <2>2, <2>3, RankStrict
  <2> QED
    BY SMTT(60), <2>2, <2>4
<1>5. Cardinality(Passed') \in Nat /\ Cardinality(Passed) \in Nat /\ Cardinality(Passed') <= Cardinality(Passed) + 1
  <2>0. IsFiniteSet(Passed) /\ Cardinality(Passed) \in Nat
    BY Zenon, PassedFinite DEF WalkInv
  <2>1. PICK y : Passed' \in SUBSET (Passed \cup {y})
    <3>1. CASE Passed' \ Passed = {}
      BY Zenon, <3>1
    <3>2. CASE Passed' \ Passed # {}
      <4>1. PICK y : y \in Passed' \ Passed
        BY Zenon, <3>2
      <4>2. Passed' \in SUBSET (Passed \cup {y})
        BY Zenon, <1>4, <4>1
      <4> QED
        BY Zenon, <4>2
    <3> QED
      BY Zenon, <3>1, <3>2
  <2>2. /\ IsFiniteSet(Passed \cup {y})
        /\ Cardinality(Passed \cup {y}) = IF y \in Passed THEN Cardinality(Passed) ELSE Cardinality(Passed) + 1
    BY Zenon, <2>0, FS_AddElement
  <2>3. /\ IsFiniteSet(Passed') /\ Cardinality(Passed') \in Nat
        /\ Cardinality(Passed') <= Cardinality(Passed \cup {y})
    BY Zenon, <2>1, <2>2, FS_Subset, FS_CardinalityType
  <2> QED
    BY SMTT(60), <2>0, <2>2, <2>3
<1>6. pc' # "done" => Cardinality(Passed') <= left'
  <2>1. CASE page = 1
    <3>1. Offset(page)' = 0
      BY SMTT(60), <1>1, <2>1, PagingAssumption DEF Offset
    <3>2. \A r \in stayed' : RankIn(table', r) \in Nat /\ RankIn(table', r) >= 1
      BY Zenon, <1>3, RankType DEF WalkTypeOK
    <3>3. \A r \in stayed' : ~(RankIn(table', r) <= Offset(page)')
      BY SMTT(60), <3>1, <3>2
    <3>4. Cardinality(Passed') = 0
      BY Zenon, <3>3, FS_EmptySet DEF Passed
    <3> QED
      BY SMTT(60), <1>3, <3>4 DEF WalkTypeOK
  <2>2. CASE page > 1
    BY SMTT(60), <1>0, <1>1, <1>5, <2>2 DEF WalkInv
  <2> QED
    BY SMTT(60), <1>0, <2>1, <2>2
<1>7. pc' = "query" => Cardinality(table') <= total' + late'
  BY SMTT(60), <1>0, <1>1, <1>2 DEF WalkInv
<1>8. WalkMissesFew'
  <2>1. stayed' \ seen' \in SUBSET (stayed \ seen)
    BY Zenon, <1>1
  <2>2. /\ Cardinality(stayed' \ seen') <= Cardinality(stayed \ seen)
        /\ Cardinality(stayed' \ seen') \in Nat /\ Cardinality(stayed \ seen) \in Nat
    BY Zenon, <2>1, PassedFinite, FS_Subset, FS_CardinalityType DEF WalkInv
  <2> QED
    BY SMTT(60), <1>0, <1>1, <2>2 DEF WalkInv, WalkMissesFew
<1> QED
  BY Zenon, <1>3, <1>6, <1>7, <1>8 DEF WalkInv

LEMMA WalkGoesOn == WalkInv /\ [WalkNext]_walkVars => WalkInv'
<1> SUFFICES ASSUME WalkInv, [WalkNext]_walkVars PROVE WalkInv'
  OBVIOUS
<1>1. ASSUME NEW name \in {"messages", "deliveries", "jobs"}, Handler(name) PROVE WalkInv'
  <2>1. name # "none"
    BY SMTT(60), <1>1
  <2> QED
    BY Zenon, <1>1, <2>1, OpenStep, CountStep, QueryStep DEF Handler
<1>2. CASE UNCHANGED walkVars
  BY Zenon, <1>2 DEF walkVars, reader, WalkInv, WalkTypeOK, Passed, WalkMissesFew, Offset
<1> QED
  BY Zenon, <1>1, <1>2, EnterStep, ExitStep DEF WalkNext, ListMessages, WebhookDeliveries, QueueStats

(* However many rows come, go and change their status between the pages of *)
(* listMessages, webhookDeliveries and queueStats, whatever the limit: a   *)
(* walk over all pages misses no more rows that were there all the time    *)
(* than went after its first page or came after its last count.            *)
THEOREM WalkAlwaysMissesFew == WalkSpec => []WalkMissesFew
  BY WalkStarts, WalkGoesOn, PTL DEF WalkSpec, WalkInv
=============================================================================
