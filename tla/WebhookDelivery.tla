--------------------------- MODULE WebhookDelivery ---------------------------
(***************************************************************************)
(* Webhooks and their deliveries: the rows of webhooks and                 *)
(* webhook_deliveries, and the goroutines that are in Dispatch, Retry or   *)
(* Test.  Signature and body are not told apart, and of a url only whether *)
(* a request can be made of it; a receiver answers 2xx, answers something  *)
(* else, or does not answer.                                               *)
(***************************************************************************)
EXTENDS Integers, FiniteSets

CONSTANTS
  Hooks,          \* rows of webhooks
  Events,         \* events that are dispatched, each one once
  Name(_),        \* the name of an event
  Session(_),     \* its sessionId
  Settings,       \* what a webhook may be set to: active, names, scope, usable
  Senders,        \* goroutines
  MaxChanges,     \* bound: administrative changes in a behaviour
  MaxDeliveries,  \* bound: rows of webhook_deliveries
  MaxAttempts,    \* bound: requests for a delivery, made or being made, below which a retry starts
  Faults          \* subset of {"db", "crash"}

Deliveries == 1..MaxDeliveries
TestEvent == "webhook.test"
NoHook == "no webhook"

ASSUME WebhookAssumption ==
  /\ MaxChanges \in Nat /\ MaxDeliveries \in Nat /\ MaxAttempts \in Nat
  /\ Faults \subseteq {"db", "crash"}
  /\ TestEvent \notin Events /\ IsFiniteSet(Senders)

VARIABLES
  hook,      \* webhooks
  changes,   \* administrative changes so far
  dl,        \* webhook_deliveries; "none" before the insert
  sd,        \* goroutines
  posts,     \* observation: requests made for a delivery
  accepted,  \* observation: deliveries that were answered with 2xx
  matched,   \* observation: webhooks that the query of an event returned
  result,    \* observation: how the dispatch of an event ended
  lost       \* observation: deliveries whose goroutine ended without a result

rows == <<hook, changes, dl>>
obs == <<posts, accepted, matched, result, lost>>
vars == <<rows, sd, obs>>

NoRow == [hook |-> NoHook, event |-> TestEvent, status |-> "none", attempts |-> 0]
Idle == [pc |-> "idle", op |-> "dispatch", event |-> TestEvent, todo |-> {}, bad |-> {},
         id |-> 0, ok |-> FALSE]
Absent == [state |-> "new", active |-> FALSE, names |-> {}, scope |-> {}, usable |-> TRUE]

Init ==
  /\ hook = [h \in Hooks |-> Absent] /\ changes = 0
  /\ dl = [i \in Deliveries |-> NoRow]
  /\ sd = [s \in Senders |-> Idle]
  /\ posts = [i \in Deliveries |-> 0] /\ accepted = {}
  /\ matched = [e \in Events |-> {}] /\ result = [e \in Events |-> "none"] /\ lost = {}

Stored(h) == hook[h].state = "stored"

----------------------------------------------------------------------------
(* Administration.                                                         *)

\* createWebhook and updateWebhook store any settings with a url and events;
\* that a request can be made of the url is not checked.
PutWebhook(h) ==
  /\ changes < MaxChanges /\ changes' = changes + 1
  /\ \E c \in Settings :
       hook' = [hook EXCEPT ![h] = [state |-> "stored", active |-> c.active,
                                    names |-> c.names, scope |-> c.scope,
                                    usable |-> c.usable]]
  /\ hook[h].state # "deleted" /\ hook' # hook
  /\ UNCHANGED <<dl, sd, obs>>

\* The deliveries go with their webhook.
DeleteWebhook(h) ==
  /\ changes < MaxChanges /\ changes' = changes + 1
  /\ Stored(h)
  /\ hook' = [hook EXCEPT ![h] = [Absent EXCEPT !.state = "deleted"]]
  /\ dl' = [i \in Deliveries |-> IF dl[i].hook = h /\ dl[i].status # "none"
                                   THEN [dl[i] EXCEPT !.status = "deleted"] ELSE dl[i]]
  /\ UNCHANGED <<sd, obs>>

----------------------------------------------------------------------------
(* Dispatch: one pass over the webhooks that match.                        *)

\* An empty scope is every session.
ScopeMatches(scope, session) == scope = {} \/ session \in scope

Matching(e) == {h \in Hooks : /\ Stored(h) /\ hook[h].active
                              /\ Name(e) \in hook[h].names
                              /\ ScopeMatches(hook[h].scope, Session(e))}

\* The webhooks of hs whose url, as a query reads it now, makes no request
Unusable(hs) == {h \in hs : ~hook[h].usable}

Dispatch(s, e) ==
  /\ sd[s].pc = "idle" /\ result[e] = "none"
  /\ sd' = [sd EXCEPT ![s] = [Idle EXCEPT !.pc = "insert", !.event = e, !.todo = Matching(e),
                                               !.bad = Unusable(Matching(e))]]
  /\ matched' = [matched EXCEPT ![e] = Matching(e)]
  /\ result' = [result EXCEPT ![e] = "running"]
  /\ UNCHANGED <<rows, posts, accepted, lost>>

\* A statement may fail, also because the request or the task that its
\* goroutine works for is over.
MayFail == "db" \in Faults

Fresh(i) == dl[i].status = "none" /\ \A k \in 1..(i - 1) : dl[k].status # "none"

NewRow(i, h, e) == dl' = [dl EXCEPT ![i] = [hook |-> h, event |-> e, status |-> "queued",
                                            attempts |-> 0]]

Ended(s, r) == result' = IF sd[s].event \in Events THEN [result EXCEPT ![sd[s].event] = r]
                         ELSE result

Posting(s, h, i) == sd' = [sd EXCEPT ![s].pc = "post", ![s].id = i, ![s].todo = @ \ {h}]

\* Mutant: the request goes out although the row could not be stored.
InsertFailsLoose(s, h) == (\E i \in Deliveries : Fresh(i) /\ Posting(s, h, i)) /\ UNCHANGED result

\* Mutant: a webhook whose row cannot be stored is passed over.
InsertFailsSkip(s, h) == sd' = [sd EXCEPT ![s].todo = @ \ {h}] /\ UNCHANGED result

\* A row that cannot be stored ends the pass.
InsertFails(s, h) == sd' = [sd EXCEPT ![s] = Idle] /\ Ended(s, "error")

\* The webhook may be gone since the query.
InsertDelivery(s) ==
  /\ sd[s].pc = "insert"
  /\ \E h \in sd[s].todo :
       \/ /\ Stored(h)
          /\ \E i \in Deliveries : Fresh(i) /\ NewRow(i, h, sd[s].event) /\ Posting(s, h, i)
          /\ UNCHANGED result
       \/ (MayFail \/ ~Stored(h)) /\ InsertFails(s, h) /\ UNCHANGED dl
  /\ UNCHANGED <<hook, changes, posts, accepted, matched, lost>>

DispatchDone(s) ==
  /\ sd[s].pc = "insert" /\ sd[s].todo = {}
  /\ sd' = [sd EXCEPT ![s] = Idle] /\ Ended(s, "ok")
  /\ UNCHANGED <<rows, posts, accepted, matched, lost>>

----------------------------------------------------------------------------
(* Retry and Test.                                                         *)

\* The query joins the webhook, active or not.
Retry(s) ==
  /\ sd[s].pc = "idle"
  /\ \E i \in Deliveries :
       /\ dl[i].status \notin {"none", "deleted"}
       /\ posts[i] + Cardinality({t \in Senders : sd[t].id = i /\ sd[t].pc = "post"}) < MaxAttempts
       /\ sd' = [sd EXCEPT ![s] = [Idle EXCEPT !.pc = "post", !.op = "retry", !.id = i,
                                               !.bad = Unusable({dl[i].hook})]]
  /\ UNCHANGED <<rows, obs>>

Test(s) ==
  /\ sd[s].pc = "idle"
  /\ \E h \in Hooks, i \in Deliveries :
       /\ Stored(h) /\ Fresh(i)
       /\ NewRow(i, h, TestEvent)
       /\ sd' = [sd EXCEPT ![s] = [Idle EXCEPT !.pc = "reread", !.op = "retry", !.id = i]]
  /\ UNCHANGED <<hook, changes, obs>>

\* Test calls Retry, which looks for the row it has just stored.
TestReread(s) ==
  /\ sd[s].pc = "reread"
  /\ \/ /\ dl[sd[s].id].status # "deleted"
        /\ sd' = [sd EXCEPT ![s].pc = "post", ![s].bad = Unusable({dl[sd[s].id].hook})]
        /\ UNCHANGED lost
     \/ /\ MayFail \/ dl[sd[s].id].status = "deleted"
        /\ sd' = [sd EXCEPT ![s] = Idle]
        /\ lost' = lost \cup {sd[s].id}
  /\ UNCHANGED <<rows, posts, accepted, matched, result>>

----------------------------------------------------------------------------
(* The request and the result, the same in Dispatch and in Retry.          *)

\* http.NewRequestWithContext fails.
NoRequest(s) == dl[sd[s].id].hook \in sd[s].bad

\* The receiver answers 2xx, or it does not in time.
Post(s) ==
  /\ sd[s].pc = "post" /\ ~NoRequest(s)
  /\ posts' = [posts EXCEPT ![sd[s].id] = @ + 1]
  /\ \/ /\ sd' = [sd EXCEPT ![s].pc = "store", ![s].ok = TRUE]
        /\ accepted' = accepted \cup {sd[s].id}
     \/ /\ sd' = [sd EXCEPT ![s].pc = "store", ![s].ok = FALSE]
        /\ UNCHANGED accepted
  /\ UNCHANGED <<rows, matched, result, lost>>

ProcessEnds ==
  /\ sd' = [s \in Senders |-> Idle]
  /\ result' = [e \in Events |-> IF result[e] = "running" THEN "error" ELSE result[e]]
  /\ lost' = lost \cup {sd[s].id : s \in {t \in Senders : sd[t].pc \in {"reread", "post", "store"}}}

(***************************************************************************)
(* Retry returns the error and leaves the row as it is.  Dispatch ignores  *)
(* it and the missing request panics: in a queue task, an HTTP handler or  *)
(* an event handler of whatsmeow that ends the pass, in a goroutine of the *)
(* session manager the process.                                            *)
(***************************************************************************)
PostFails(s) ==
  /\ sd[s].pc = "post" /\ NoRequest(s)
  /\ \/ /\ sd' = [sd EXCEPT ![s] = Idle]
        /\ lost' = lost \cup {sd[s].id}
        /\ Ended(s, "error")
     \/ sd[s].op = "dispatch" /\ ProcessEnds
  /\ UNCHANGED <<rows, posts, accepted, matched>>

\* Mutant: only a send error counts as a failure, not an answer.
OutcomeOfAnswer(s) == "delivered"

Outcome(s) == IF sd[s].ok THEN "delivered" ELSE "failed"

\* Mutant: the count is the attempt that comes next.
AttemptsNext(s) == IF sd[s].op = "dispatch" THEN 2 ELSE dl[sd[s].id].attempts + 1

\* Dispatch stores attempts=1, Retry attempts+1.
Attempts(s) == IF sd[s].op = "dispatch" THEN 1 ELSE dl[sd[s].id].attempts + 1

\* Mutant: only accepted deliveries are updated.
UpdateDeliveryOk(s) ==
  dl' = IF dl[sd[s].id].status = "deleted" \/ ~sd[s].ok THEN dl
        ELSE [dl EXCEPT ![sd[s].id].status = Outcome(s), ![sd[s].id].attempts = Attempts(s)]

\* A deleted row is not found.
UpdateDelivery(s) ==
  dl' = IF dl[sd[s].id].status = "deleted" THEN dl
        ELSE [dl EXCEPT ![sd[s].id].status = Outcome(s), ![sd[s].id].attempts = Attempts(s)]

\* A failed update is ignored in Dispatch and returned by Retry.
StoreResult(s) ==
  /\ sd[s].pc = "store"
  /\ \/ UpdateDelivery(s) /\ UNCHANGED lost
     \/ MayFail /\ UNCHANGED dl /\ lost' = lost \cup {sd[s].id}
  /\ sd' = [sd EXCEPT ![s] = IF @.op = "dispatch" THEN [@ EXCEPT !.pc = "insert", !.id = 0, !.ok = FALSE]
                              ELSE Idle]
  /\ UNCHANGED <<hook, changes, posts, accepted, matched, result>>

----------------------------------------------------------------------------
Crash ==
  /\ "crash" \in Faults
  /\ ProcessEnds /\ sd' # sd
  /\ UNCHANGED <<rows, posts, accepted, matched>>

Step(s) ==
  \/ InsertDelivery(s) \/ DispatchDone(s) \/ TestReread(s) \/ Post(s) \/ PostFails(s)
  \/ StoreResult(s)

Next ==
  \/ \E h \in Hooks : PutWebhook(h) \/ DeleteWebhook(h)
  \/ \E s \in Senders : \/ (\E e \in Events : Dispatch(s, e))
                        \/ Retry(s) \/ Test(s) \/ Step(s)
  \/ Crash

Spec == Init /\ [][Next]_vars

----------------------------------------------------------------------------
\* docs/PRD.md:113: a delivery is stored before a request is made for it,
\* whatever fails in between.
StoredBeforeSent == \A i \in Deliveries : posts[i] > 0 => dl[i].status # "none"

\* A row that says delivered was accepted by its receiver, although Dispatch
\* and Retry may work on one delivery at the same time.
DeliveredWasAccepted == \A i \in Deliveries : dl[i].status = "delivered" => i \in accepted

\* attempts never counts a request that was not made, although the UPDATE of
\* Dispatch overwrites it and the one of Retry adds to it.
AttemptsWereMade == \A i \in Deliveries : dl[i].attempts <= posts[i]

\* A dispatch that reports no error stored exactly one delivery for every
\* webhook that matched.
EveryMatchStored ==
  \A e \in Events, h \in Hooks :
    LET of == {i \in Deliveries : dl[i].event = e /\ dl[i].hook = h} IN
      /\ Cardinality(of) <= (IF h \in matched[e] THEN 1 ELSE 0)
      /\ (result[e] = "ok" /\ h \in matched[e]) => of # {}

\* docs/BILLING_INTEGRATION.md:283: a delivery that gets no 2xx becomes failed.
\* A delivery is queued only while a goroutine works on it, whatever the
\* receiver answers, unless its goroutine ended early: a statement of it
\* failed, its context was over before the result was stored, no request could
\* be made of its url, or the process ended.
QueuedIsInFlight ==
  \A i \in Deliveries : dl[i].status = "queued" =>
    i \in lost \/ \E s \in Senders : sd[s].id = i /\ sd[s].pc \in {"reread", "post", "store"}
==============================================================================
