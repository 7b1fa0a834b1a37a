----------------------------- MODULE ApiKeyRate -----------------------------
(***************************************************************************)
(* API keys and their rate limit: VerifyAPIKey of internal/auth, called by *)
(* requireAuth for every request with an X-Api-Key header, and the admin   *)
(* handlers that create, change and delete keys.  VerifyAPIKey reads the   *)
(* row of the key, and then counts the request in the key's window of one  *)
(* minute under a mutex: the limit it compares with may be an old one.     *)
(***************************************************************************)
EXTENDS Integers, FiniteSets, Sequences

CONSTANTS
    Keys,       \* API keys (ids; an id is never used twice)
    Calls,      \* requests with a key in flight: calls of VerifyAPIKey
    Limits,     \* rate limits of the rows; 0 stands for NULL and for =< 0
    Minute,     \* ticks of the clock in a window
    MaxTicks    \* bound: ticks of a behaviour

ASSUME RateAssumption ==
    /\ Minute \in Nat \ {0}
    /\ MaxTicks \in Nat
    /\ Limits \subseteq Nat

VARIABLES
    time,
    row,        \* api_keys: [there, active, limit] of each id
    rate,       \* Service.rate: [started, count] of each id
    call,       \* a call of VerifyAPIKey: [pc, key, limit]
    admitted,   \* history: the admissions this process counted in the last
                \* minute, per key
    overLimit   \* history: requests refused for their rate, and the evidence

keyVars == <<time, row, rate, call, admitted, overLimit>>

NoRow(why) == [there |-> why, active |-> FALSE, limit |-> 0]
Rows == [there : {"yes"}, active : BOOLEAN, limit : Limits]
NoCall == [pc |-> "idle", key |-> "none", limit |-> 0]

\* New: no window yet; the zero time is more than a minute ago.
NoWindow == [started |-> -Minute, count |-> 0]

KeysInit ==
    /\ time = 0
    /\ row = [k \in Keys |-> NoRow("unborn")]
    /\ rate = [k \in Keys |-> NoWindow]
    /\ call = [r \in Calls |-> NoCall]
    /\ admitted = [k \in Keys |-> {}]
    /\ overLimit = <<>>

-----------------------------------------------------------------------------
\* createAPIKey: an id that has never been a key.
CreateAPIKey(k) ==
    /\ row[k].there = "unborn"
    /\ \E v \in Rows : row' = [row EXCEPT ![k] = v]
    /\ UNCHANGED <<time, rate, call, admitted, overLimit>>

\* updateAPIKey replaces the limit; without isActive it keeps the activity.
UpdateAPIKey(k) ==
    /\ row[k].there = "yes"
    /\ \E v \in Rows : row' = [row EXCEPT ![k] = v]
    /\ UNCHANGED <<time, rate, call, admitted, overLimit>>

\* deleteAPIKey leaves the window of the key where it is.
DeleteAPIKey(k) ==
    /\ row[k].there = "yes"
    /\ row' = [row EXCEPT ![k] = NoRow("deleted")]
    /\ UNCHANGED <<time, rate, call, admitted, overLimit>>

(***************************************************************************)
(* requireAuth with an X-Api-Key header: the query of VerifyAPIKey and the *)
(* test of the address.  A key that is refused, or that has no limit, is   *)
(* answered at once and leaves nothing behind.                             *)
(***************************************************************************)
Verify(r, k) ==
    /\ call[r].pc = "idle"
    /\ row[k].there = "yes" /\ row[k].active /\ row[k].limit > 0
    /\ call' = [call EXCEPT ![r] = [pc |-> "count", key |-> k, limit |-> row[k].limit]]
    /\ UNCHANGED <<time, row, rate, admitted, overLimit>>

\* Mutant: a new window keeps the old count.
FreshKeepingCount(k) == [started |-> time, count |-> rate[k].count]

Fresh(k) == [started |-> time, count |-> 0]

\* The window of a key now: a new one when the old one is a minute old.
Current(k) == IF time - rate[k].started >= Minute THEN Fresh(k) ELSE rate[k]

\* Mutant: one request too many.
ExceededOffByOne(w, limit) == w.count > limit

Exceeded(w, limit) == w.count >= limit

\* The critical section of VerifyAPIKey: refuse, or count and let in.
Count(r) ==
    /\ call[r].pc = "count"
    /\ LET k == call[r].key
           w == Current(k) IN
       \/ /\ Exceeded(w, call[r].limit)
          /\ overLimit' = <<[limit |-> call[r].limit, seen |-> Cardinality(admitted[k])]>>
          /\ UNCHANGED <<rate, admitted>>
       \/ /\ ~Exceeded(w, call[r].limit)
          /\ rate' = [rate EXCEPT ![k] = [w EXCEPT !.count = @ + 1]]
          /\ admitted' = [admitted EXCEPT ![k] =
                @ \cup {[window |-> w.started, n |-> w.count, at |-> time, limit |-> call[r].limit]}]
          /\ UNCHANGED overLimit
    /\ call' = [call EXCEPT ![r] = NoCall]
    /\ UNCHANGED <<time, row>>

\* Time passes; the history keeps the admissions of the last minute.
ClockTicks ==
    /\ time < MaxTicks
    /\ time' = time + 1
    /\ admitted' = [k \in Keys |-> {a \in admitted[k] : a.at > time + 1 - Minute}]
    /\ UNCHANGED <<row, rate, call, overLimit>>

\* The windows are only in memory: after a restart every key begins anew.
GatewayRestarts ==
    /\ rate' = [k \in Keys |-> NoWindow]
    /\ call' = [r \in Calls |-> NoCall]
    /\ admitted' = [k \in Keys |-> {}]
    /\ UNCHANGED <<time, row, overLimit>>

KeysNext ==
    \/ \E k \in Keys : CreateAPIKey(k) \/ UpdateAPIKey(k) \/ DeleteAPIKey(k)
    \/ \E r \in Calls : Count(r) \/ \E k \in Keys : Verify(r, k)
    \/ ClockTicks \/ GatewayRestarts

KeysSpec == KeysInit /\ [][KeysNext]_keyVars

-----------------------------------------------------------------------------
(***************************************************************************)
(* In any minute, wherever it starts, a key is let in less than twice as   *)
(* often as the largest limit its requests were compared with: windows are *)
(* fixed, so a minute can touch the end of one and the start of the next,  *)
(* but not also the admission that opened the first.  Limits change, and   *)
(* are read before the mutex.  This is so for each life of the process: a  *)
(* restart forgets the windows, and what came before it is not counted.    *)
(***************************************************************************)
RateKept ==
    \A k \in Keys :
        admitted[k] # {} =>
            \E a \in admitted[k] : Cardinality(admitted[k]) < 2 * a.limit

(***************************************************************************)
(* No request is refused for its rate unless its key was let in at least   *)
(* `limit' times in the minute before, by the same process: nothing of an  *)
(* older window is held against it.                                        *)
(***************************************************************************)
RefusedOnlyOverLimit ==
    \A i \in DOMAIN overLimit : overLimit[i].seen >= overLimit[i].limit
=============================================================================
