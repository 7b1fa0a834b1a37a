--------------------------- MODULE WebhookProofs ---------------------------
(***************************************************************************)
(* Proofs about WebhookDelivery for any webhooks, events, settings and     *)
(* faults, and any number of goroutines and deliveries.                    *)
(***************************************************************************)
EXTENDS WebhookDelivery, FiniteSetTheorems, TLAPS

RowType == [hook : Hooks \cup {NoHook}, event : Events \cup {TestEvent},
            status : {"none", "queued", "delivered", "failed", "deleted"}, attempts : Nat]
SdType == [pc : {"idle", "insert", "reread", "post", "store"}, op : {"dispatch", "retry"},
           event : Events \cup {TestEvent}, todo : SUBSET Hooks, id : Deliveries \cup {0},
           bad : SUBSET (Hooks \cup {NoHook}), ok : BOOLEAN]

TypeOK ==
  /\ dl \in [Deliveries -> RowType] /\ sd \in [Senders -> SdType]
  /\ posts \in [Deliveries -> Nat]
  /\ matched \in [Events -> SUBSET Hooks]
  /\ result \in [Events -> {"none", "running", "ok", "error"}]

Working(s) == sd[s].pc \in {"reread", "post", "store"}

\* The goroutines that have made their request and not yet stored its result
Storing(i) == {s \in Senders : sd[s].pc = "store" /\ sd[s].id = i}

\* A goroutine that works on a delivery has its row.
RowsStored == \A s \in Senders : Working(s) => sd[s].id \in Deliveries /\ dl[sd[s].id].status # "none"

\* An answer that a goroutine remembers was given.
AnswersGiven == \A s \in Senders : sd[s].pc = "store" /\ sd[s].ok => sd[s].id \in accepted

\* The requests made leave room for every result that is still to be counted.
\* AttemptsWereMade alone is not inductive: the UPDATE of Retry adds one.
RoomForResults == \A i \in Deliveries : dl[i].attempts + Cardinality(Storing(i)) <= posts[i]

DeliveryInv ==
  /\ TypeOK /\ RowsStored /\ AnswersGiven /\ RoomForResults
  /\ StoredBeforeSent /\ DeliveredWasAccepted /\ QueuedIsInFlight

----------------------------------------------------------------------------
LEMMA IdleType == Idle \in SdType
  BY Zenon DEF Idle, SdType

LEMMA UnusableType ==
  ASSUME TypeOK, NEW i \in Deliveries
  PROVE  Unusable({dl[i].hook}) \in SUBSET (Hooks \cup {NoHook})
  BY Zenon DEF Unusable, TypeOK, RowType

LEMMA StoringFinite ==
  ASSUME NEW i
  PROVE  IsFiniteSet(Storing(i)) /\ Cardinality(Storing(i)) \in Nat
<1>1. Storing(i) \in SUBSET Senders
  BY Zenon DEF Storing
<1>2. IsFiniteSet(Storing(i))
  BY Zenon, <1>1, FS_Subset, WebhookAssumption
<1> QED
  BY Zenon, <1>2, FS_CardinalityType

LEMMA DeliveryInit == Init => DeliveryInv
<1> SUFFICES ASSUME Init PROVE DeliveryInv
  BY Zenon
<1>1. TypeOK
  BY Zenon, IdleType DEF Init, TypeOK, NoRow, RowType
<1>2. \A i \in Deliveries : Storing(i) = {}
  BY Zenon DEF Init, Storing, Idle
<1>3. \A i \in Deliveries : dl[i].attempts + Cardinality(Storing(i)) <= posts[i]
  <2>1. \A i \in Deliveries : Cardinality(Storing(i)) = 0
    BY Zenon, <1>2, FS_EmptySet
  <2>2. \A i \in Deliveries : dl[i].attempts = 0 /\ posts[i] = 0
    BY Zenon DEF Init, NoRow
  <2> QED
    BY SMTT(60), <2>1, <2>2
<1> QED
  BY SMTT(60), <1>1, <1>3 DEF Init, DeliveryInv, RowsStored, AnswersGiven, RoomForResults, Working, StoredBeforeSent, DeliveredWasAccepted,
     QueuedIsInFlight, NoRow, Idle

LEMMA TypeNext ==
  ASSUME TypeOK, RowsStored, [Next]_vars
  PROVE  TypeOK'
<1> USE IdleType
<1>1. ASSUME NEW h \in Hooks, PutWebhook(h) \/ DeleteWebhook(h) PROVE TypeOK'
  BY SMTT(60), <1>1 DEF PutWebhook, DeleteWebhook, TypeOK, RowType, obs
<1>2. ASSUME NEW s \in Senders, NEW e \in Events, Dispatch(s, e) PROVE TypeOK'
  <2>1. Matching(e) \in SUBSET Hooks
    BY Zenon DEF Matching
  <2>2. [Idle EXCEPT !.pc = "insert", !.event = e, !.todo = Matching(e),
                     !.bad = Unusable(Matching(e))] \in SdType
    BY Zenon, <2>1 DEF Idle, SdType, Unusable
  <2> QED
    BY Zenon, <1>2, <2>1, <2>2 DEF Dispatch, TypeOK, rows
<1>3. ASSUME NEW s \in Senders, InsertDelivery(s) PROVE TypeOK'
  <2>1. PICK h \in sd[s].todo :
          \/ /\ Stored(h)
             /\ \E i \in Deliveries : Fresh(i) /\ NewRow(i, h, sd[s].event) /\ Posting(s, h, i)
             /\ UNCHANGED result
          \/ (MayFail \/ ~Stored(h)) /\ InsertFails(s, h) /\ UNCHANGED dl
    BY Zenon, <1>3 DEF InsertDelivery
  <2>2. sd[s] \in SdType /\ h \in Hooks /\ sd[s].event \in Events \cup {TestEvent}
    BY Zenon DEF TypeOK, SdType
  <2>3. UNCHANGED <<posts, matched>>
    BY Zenon, <1>3 DEF InsertDelivery
  <2>4. CASE UNCHANGED result /\ \E i \in Deliveries : NewRow(i, h, sd[s].event) /\ Posting(s, h, i)
    BY SMTT(60), <2>2, <2>3, <2>4 DEF NewRow, Posting, TypeOK, SdType, RowType
  <2>5. CASE InsertFails(s, h) /\ UNCHANGED dl
    BY Zenon, <2>2, <2>3, <2>5 DEF InsertFails, Ended, TypeOK
  <2> QED
    BY Zenon, <2>1, <2>4, <2>5
<1>4. ASSUME NEW s \in Senders, DispatchDone(s) PROVE TypeOK'
  BY Zenon, <1>4 DEF DispatchDone, Ended, TypeOK, rows
<1>5. ASSUME NEW s \in Senders, Retry(s) PROVE TypeOK'
  <2>1. PICK i \in Deliveries :
          /\ dl[i].status # "none"
          /\ sd' = [sd EXCEPT ![s] = [Idle EXCEPT !.pc = "post", !.op = "retry", !.id = i,
                                                  !.bad = Unusable({dl[i].hook})]]
    BY Zenon, <1>5 DEF Retry
  <2>2. Unusable({dl[i].hook}) \in SUBSET (Hooks \cup {NoHook})
    BY Zenon, <2>1, UnusableType
  <2>3. [Idle EXCEPT !.pc = "post", !.op = "retry", !.id = i,
                     !.bad = Unusable({dl[i].hook})] \in SdType
    BY Zenon, <2>2 DEF Idle, SdType
  <2> QED
    BY Zenon, <1>5, <2>1, <2>3 DEF Retry, TypeOK, rows, obs
<1>6. ASSUME NEW s \in Senders, Test(s) PROVE TypeOK'
  <2>1. \A i \in Deliveries :
          [Idle EXCEPT !.pc = "reread", !.op = "retry", !.id = i] \in SdType
    BY Zenon DEF Idle, SdType
  <2>2. sd' \in [Senders -> SdType]
    BY Zenon, <1>6, <2>1 DEF Test, TypeOK
  <2>3. dl' \in [Deliveries -> RowType]
    BY SMTT(60), <1>6 DEF Test, NewRow, TypeOK, RowType
  <2> QED
    BY Zenon, <1>6, <2>2, <2>3 DEF Test, TypeOK, obs
<1>7. ASSUME NEW s \in Senders, TestReread(s) PROVE TypeOK'
  <2>1. sd[s].id \in Deliveries /\ sd[s] \in SdType
    BY Zenon, <1>7 DEF TestReread, Working, RowsStored, TypeOK
  <2>2. Unusable({dl[sd[s].id].hook}) \in SUBSET (Hooks \cup {NoHook})
    BY Zenon, <2>1, UnusableType
  <2>3. [sd[s] EXCEPT !.pc = "post", !.bad = Unusable({dl[sd[s].id].hook})] \in SdType
    BY Zenon, <2>1, <2>2 DEF SdType
  <2> QED
    BY Zenon, <1>7, <2>3 DEF TestReread, TypeOK, rows
<1>8. ASSUME NEW s \in Senders, Post(s) PROVE TypeOK'
  <2>1. sd[s].id \in Deliveries /\ sd[s] \in SdType
    BY Zenon, <1>8 DEF Post, Working, RowsStored, TypeOK
  <2> QED
    BY SMTT(60), <1>8, <2>1 DEF Post, TypeOK, SdType, rows
<1>9. ASSUME NEW s \in Senders, StoreResult(s) PROVE TypeOK'
  <2>1. sd[s].id \in Deliveries /\ sd[s] \in SdType /\ dl[sd[s].id] \in RowType
    BY Zenon, <1>9 DEF StoreResult, Working, RowsStored, TypeOK
  <2>2. Outcome(s) \in {"delivered", "failed"} /\ Attempts(s) \in Nat
    BY SMTT(60), <2>1 DEF Outcome, Attempts, RowType
  <2>3. dl' \in [Deliveries -> RowType]
    BY SMTT(60), <1>9, <2>1, <2>2 DEF StoreResult, UpdateDelivery, TypeOK, RowType
  <2>4. sd' \in [Senders -> SdType]
    BY Zenon, <1>9, <2>1 DEF StoreResult, TypeOK, SdType
  <2> QED
    BY Zenon, <1>9, <2>3, <2>4 DEF StoreResult, TypeOK
<1>10. CASE ProcessEnds /\ UNCHANGED <<rows, posts, accepted, matched>>
  BY Zenon, <1>10 DEF ProcessEnds, TypeOK, rows
<1>11. CASE UNCHANGED vars
  BY Zenon, <1>11 DEF vars, rows, obs, TypeOK
<1>12. ASSUME NEW s \in Senders, PostFails(s) PROVE TypeOK'
  <2>1. CASE sd' = [sd EXCEPT ![s] = Idle] /\ Ended(s, "error")
    BY Zenon, <1>12, <2>1 DEF PostFails, Ended, TypeOK, rows
  <2> QED
    BY Zenon, <1>10, <1>12, <2>1 DEF PostFails
<1>13. CASE Crash
  BY Zenon, <1>10, <1>13 DEF Crash
<1> QED
  BY ZenonT(60), <1>1, <1>2, <1>3, <1>4, <1>5, <1>6, <1>7, <1>8, <1>9, <1>11, <1>12, <1>13 DEF Next, Step

(* A step that makes no request, stores no result and creates no row.      *)
LEMMA QuietStep ==
  ASSUME DeliveryInv, TypeOK', UNCHANGED <<dl, posts>>, accepted \subseteq accepted',
         lost \subseteq lost',
         \A s \in Senders : \/ ~Working(s)'
                            \/ sd'[s].id = sd[s].id /\ sd'[s].pc = sd[s].pc /\ sd'[s].ok = sd[s].ok
                            \/ /\ sd'[s].pc \in {"post", "reread"} /\ sd'[s].id \in Deliveries
                               /\ dl[sd'[s].id].status # "none",
         \A s \in Senders : Working(s) => \/ sd'[s].id = sd[s].id /\ Working(s)'
                                          \/ sd[s].id \in lost'
  PROVE  DeliveryInv'
<1> USE DEF DeliveryInv
<1>1. RowsStored'
  BY Zenon DEF RowsStored, Working
<1>2. AnswersGiven'
  BY Zenon DEF AnswersGiven, Working
<1>3. RoomForResults'
  <2> SUFFICES ASSUME NEW i \in Deliveries
               PROVE  dl[i].attempts + Cardinality(Storing(i)') <= posts[i]
    BY Zenon DEF RoomForResults
  <2>1. Storing(i)' \in SUBSET Storing(i)
    BY Zenon DEF Storing, Working
  <2>2. Cardinality(Storing(i)') <= Cardinality(Storing(i)) /\ Cardinality(Storing(i)') \in Nat
    BY Zenon, <2>1, StoringFinite, FS_Subset, FS_CardinalityType
  <2>3. dl[i].attempts + Cardinality(Storing(i)) <= posts[i]
    BY Zenon DEF RoomForResults
  <2>4. dl[i].attempts \in Nat /\ posts[i] \in Nat
    BY Zenon DEF TypeOK, RowType
  <2> QED
    BY SMTT(60), <2>2, <2>3, <2>4, StoringFinite
<1>4. StoredBeforeSent' /\ DeliveredWasAccepted'
  BY Zenon DEF StoredBeforeSent, DeliveredWasAccepted
<1>5. QueuedIsInFlight'
  BY SMTT(60) DEF QueuedIsInFlight, Working
<1> QED
  BY Zenon, <1>1, <1>2, <1>3, <1>4, <1>5

(* The insert of a row, and its goroutine starts to work on it.            *)
LEMMA NewRowStep ==
  ASSUME DeliveryInv, TypeOK', NEW s \in Senders, NEW i \in Deliveries, NEW h, NEW e,
         Fresh(i), NewRow(i, h, e), UNCHANGED <<posts, accepted, lost>>, ~Working(s),
         sd'[s].pc \in {"post", "reread"}, sd'[s].id = i,
         \A t \in Senders \ {s} : sd'[t] = sd[t]
  PROVE  DeliveryInv'
<1> USE DEF DeliveryInv
<1>1. dl'[i].status = "queued" /\ dl'[i].attempts = 0 /\ \A k \in Deliveries \ {i} : dl'[k] = dl[k]
  BY Zenon DEF NewRow, TypeOK
<1>2. dl[i].status = "none"
  BY Zenon DEF Fresh
<1>3. RowsStored'
  BY SMTT(60), <1>1 DEF RowsStored, Working
<1>4. AnswersGiven'
  BY Zenon DEF AnswersGiven
<1>5. RoomForResults'
  <2> SUFFICES ASSUME NEW k \in Deliveries
               PROVE  dl'[k].attempts + Cardinality(Storing(k)') <= posts[k]
    BY Zenon DEF RoomForResults
  <2>1. Storing(k)' = Storing(k)
    BY Zenon DEF Storing, Working
  <2>2. dl[k].attempts + Cardinality(Storing(k)) <= posts[k]
    BY Zenon DEF RoomForResults
  <2>3. dl[k].attempts \in Nat /\ posts[k] \in Nat
    BY Zenon DEF TypeOK, RowType
  <2>4. dl'[k].attempts = 0 \/ dl'[k].attempts = dl[k].attempts
    BY Zenon, <1>1
  <2> QED
    BY SMTT(60), <2>1, <2>2, <2>3, <2>4, StoringFinite
<1>6. StoredBeforeSent' /\ DeliveredWasAccepted'
  BY Zenon, <1>1 DEF StoredBeforeSent, DeliveredWasAccepted
<1>7. QueuedIsInFlight'
  <2> SUFFICES ASSUME NEW k \in Deliveries, dl'[k].status = "queued"
               PROVE  k \in lost \/ \E t \in Senders : sd'[t].id = k /\ sd'[t].pc \in {"reread", "post", "store"}
    BY ZenonT(60) DEF QueuedIsInFlight
  <2>1. CASE k = i
    BY Zenon, <2>1
  <2>2. CASE k # i
    BY SMTT(60), <1>1, <2>2 DEF QueuedIsInFlight, Working
  <2> QED
    BY Zenon, <2>1, <2>2
<1> QED
  BY Zenon, <1>3, <1>4, <1>5, <1>6, <1>7

(* The request: one more is made, and one more result is to be stored.     *)
LEMMA PostStep ==
  ASSUME DeliveryInv, TypeOK', NEW s \in Senders, Post(s)
  PROVE  DeliveryInv'
<1> USE DEF DeliveryInv
<1> DEFINE d == sd[s].id
<1>1. d \in Deliveries /\ dl[d].status # "none" /\ sd[s].pc = "post"
  BY Zenon DEF RowsStored, Working, Post
<1>2. /\ sd'[s].pc = "store" /\ sd'[s].id = d /\ (sd'[s].ok => d \in accepted')
      /\ \A t \in Senders \ {s} : sd'[t] = sd[t]
  BY SMTT(60) DEF Post, TypeOK, SdType
<1>3. UNCHANGED <<dl, lost>> /\ accepted \subseteq accepted'
  BY Zenon DEF Post, rows
<1>4. posts'[d] = posts[d] + 1 /\ \A k \in Deliveries \ {d} : posts'[k] = posts[k]
  BY Zenon, <1>1 DEF Post, TypeOK
<1>5. RowsStored' /\ AnswersGiven'
  BY ZenonT(60), <1>1, <1>2, <1>3 DEF RowsStored, AnswersGiven, Working
<1>6. RoomForResults'
  <2> SUFFICES ASSUME NEW k \in Deliveries
               PROVE  dl[k].attempts + Cardinality(Storing(k)') <= posts'[k]
    BY Zenon, <1>3 DEF RoomForResults
  <2>1. dl[k].attempts + Cardinality(Storing(k)) <= posts[k]
    BY Zenon DEF RoomForResults
  <2>2. dl[k].attempts \in Nat /\ posts[k] \in Nat
    BY Zenon DEF TypeOK, RowType
  <2>3. CASE k # d
    <3>1. Storing(k)' = Storing(k)
      BY ZenonT(60), <1>1, <1>2, <2>3 DEF Storing
    <3> QED
      BY Zenon, <3>1, <1>4, <2>1, <2>3
  <2>4. CASE k = d
    <3>1. Storing(k)' = Storing(k) \cup {s} /\ s \notin Storing(k)
      BY Zenon, <1>1, <1>2, <2>4 DEF Storing
    <3>2. Cardinality(Storing(k)') = Cardinality(Storing(k)) + 1
      BY Zenon, <3>1, StoringFinite, FS_AddElement
    <3> QED
      BY SMTT(60), <3>2, <1>4, <2>1, <2>2, <2>4, StoringFinite
  <2> QED
    BY Zenon, <2>3, <2>4
<1>7. StoredBeforeSent' /\ DeliveredWasAccepted'
  BY ZenonT(60), <1>1, <1>3, <1>4 DEF StoredBeforeSent, DeliveredWasAccepted
<1>8. QueuedIsInFlight'
  BY SMTT(60), <1>2, <1>3 DEF QueuedIsInFlight
<1> QED
  BY Zenon, <1>5, <1>6, <1>7, <1>8

(* The result is stored, or the statement fails: either way one result     *)
(* less is to be counted, and attempts grows by one at most.               *)
LEMMA StoreStep ==
  ASSUME DeliveryInv, TypeOK', NEW s \in Senders, StoreResult(s)
  PROVE  DeliveryInv'
<1> USE DEF DeliveryInv
<1> DEFINE d == sd[s].id
<1>1. d \in Deliveries /\ dl[d].status # "none" /\ sd[s].pc = "store" /\ (sd[s].ok => d \in accepted)
  BY Zenon DEF RowsStored, AnswersGiven, Working, StoreResult
<1>2. sd'[s].pc \in {"idle", "insert"} /\ \A t \in Senders \ {s} : sd'[t] = sd[t]
  BY SMTT(60) DEF StoreResult, TypeOK, SdType, Idle
<1>3. UNCHANGED <<posts, accepted>> /\ lost \subseteq lost'
  BY Zenon DEF StoreResult
<1>4. dl[d].attempts \in Nat
  BY ZenonT(60), <1>1 DEF TypeOK, RowType
<1>5. /\ \A k \in Deliveries \ {d} : dl'[k] = dl[k]
      /\ \/ dl' = dl /\ (dl[d].status = "deleted" \/ d \in lost')
         \/ /\ (dl'[d].status = "delivered" /\ sd[s].ok) \/ dl'[d].status = "failed"
            /\ dl'[d].attempts \in {1, dl[d].attempts + 1}
  BY SMTT(60), <1>1 DEF StoreResult, UpdateDelivery, Outcome, Attempts, TypeOK, RowType
<1>6. RowsStored' /\ AnswersGiven'
  BY SMTT(60), <1>1, <1>2, <1>3, <1>5 DEF RowsStored, AnswersGiven, Working
<1>7. RoomForResults'
  <2> SUFFICES ASSUME NEW k \in Deliveries
               PROVE  dl'[k].attempts + Cardinality(Storing(k)') <= posts[k]
    BY Zenon, <1>3 DEF RoomForResults
  <2>1. dl[k].attempts + Cardinality(Storing(k)) <= posts[k]
    BY Zenon DEF RoomForResults
  <2>2. dl[k].attempts \in Nat /\ posts[k] \in Nat
    BY Zenon DEF TypeOK, RowType
  <2>3. CASE k # d
    <3>1. Storing(k)' = Storing(k)
      BY Zenon, <1>1, <1>2, <2>3 DEF Storing
    <3> QED
      BY Zenon, <3>1, <1>5, <2>1, <2>3
  <2>4. CASE k = d
    <3>1. Storing(k)' = Storing(k) \ {s} /\ s \in Storing(k)
      BY ZenonT(60), <1>1, <1>2, <2>4 DEF Storing
    <3>2. Cardinality(Storing(k)') = Cardinality(Storing(k)) - 1
      BY ZenonT(60), <3>1, StoringFinite, FS_RemoveElement
    <3>3. dl'[k].attempts \in {1, dl[k].attempts, dl[k].attempts + 1}
      BY Zenon, <1>5, <2>4
    <3> QED
      BY SMTT(60), <3>2, <3>3, <2>1, <2>2, StoringFinite
  <2> QED
    BY Zenon, <2>3, <2>4
<1>8. StoredBeforeSent' /\ DeliveredWasAccepted'
  BY Zenon, <1>1, <1>3, <1>5 DEF StoredBeforeSent, DeliveredWasAccepted
<1>9. QueuedIsInFlight'
  <2> SUFFICES ASSUME NEW k \in Deliveries, dl'[k].status = "queued", k \notin lost'
               PROVE  \E t \in Senders : sd'[t].id = k /\ sd'[t].pc \in {"reread", "post", "store"}
    BY Zenon DEF QueuedIsInFlight
  <2>1. k # d
    BY Zenon, <1>5
  <2>2. PICK t \in Senders : sd[t].id = k /\ sd[t].pc \in {"reread", "post", "store"}
    BY ZenonT(60), <1>3, <1>5, <2>1 DEF QueuedIsInFlight
  <2> QED
    BY Zenon, <1>2, <2>1, <2>2
<1> QED
  BY Zenon, <1>6, <1>7, <1>8, <1>9

LEMMA DeliveryNext == DeliveryInv /\ [Next]_vars => DeliveryInv'
<1> SUFFICES ASSUME DeliveryInv, [Next]_vars PROVE DeliveryInv'
  BY Zenon
<1>0. TypeOK' /\ TypeOK /\ RowsStored
  BY Zenon, TypeNext DEF DeliveryInv
<1>1. ASSUME NEW h \in Hooks, PutWebhook(h) PROVE DeliveryInv'
  BY Zenon, <1>0, <1>1, QuietStep DEF PutWebhook, obs, Working
<1>2. ASSUME NEW h \in Hooks, DeleteWebhook(h) PROVE DeliveryInv'
  <2>1. UNCHANGED <<sd, posts, accepted, lost>>
    BY Zenon, <1>2 DEF DeleteWebhook, obs
  <2>2. \A i \in Deliveries : /\ dl'[i].attempts = dl[i].attempts
                              /\ \/ dl'[i].status = dl[i].status
                                 \/ dl'[i].status = "deleted" /\ dl[i].status # "none"
    BY SMTT(60), <1>0, <1>2 DEF DeleteWebhook, TypeOK, RowType
  <2>3. \A i \in Deliveries : Storing(i)' = Storing(i)
    BY Zenon, <2>1 DEF Storing
  <2>4. RoomForResults'
    BY Zenon, <2>1, <2>2, <2>3 DEF RoomForResults, DeliveryInv
  <2>5. RowsStored' /\ AnswersGiven'
    BY Zenon, <2>1, <2>2 DEF DeliveryInv, RowsStored, AnswersGiven, Working
  <2> QED
    BY ZenonT(60), <1>0, <2>1, <2>2, <2>4, <2>5 DEF DeliveryInv, StoredBeforeSent, DeliveredWasAccepted, QueuedIsInFlight
<1>3. ASSUME NEW s \in Senders, NEW e \in Events, Dispatch(s, e) PROVE DeliveryInv'
  <2>1. ~Working(s) /\ ~Working(s)' /\ \A t \in Senders \ {s} : sd'[t] = sd[t]
    BY Zenon, <1>0, <1>3 DEF Dispatch, Working, Idle, TypeOK, SdType
  <2> QED
    BY Zenon, <1>0, <1>3, <2>1, QuietStep DEF Dispatch, rows, Working
<1>4. ASSUME NEW s \in Senders, InsertDelivery(s) PROVE DeliveryInv'
  <2>1. PICK h \in sd[s].todo :
          \/ \E i \in Deliveries : Fresh(i) /\ NewRow(i, h, sd[s].event) /\ Posting(s, h, i)
          \/ InsertFails(s, h) /\ UNCHANGED dl
    BY Zenon, <1>4 DEF InsertDelivery
  <2>2. ~Working(s) /\ UNCHANGED <<posts, accepted, lost>>
    BY Zenon, <1>4 DEF InsertDelivery, Working
  <2>3. ASSUME NEW i \in Deliveries, Fresh(i), NewRow(i, h, sd[s].event), Posting(s, h, i)
        PROVE  DeliveryInv'
    <3>1. sd'[s].pc = "post" /\ sd'[s].id = i /\ \A t \in Senders \ {s} : sd'[t] = sd[t]
      BY ZenonT(60), <1>0, <2>3 DEF Posting, TypeOK, SdType
    <3> QED
      BY Zenon, <1>0, <2>2, <2>3, <3>1, NewRowStep
  <2>4. CASE InsertFails(s, h) /\ UNCHANGED dl
    <3>1. ~Working(s)' /\ \A t \in Senders \ {s} : sd'[t] = sd[t]
      BY Zenon, <1>0, <2>4 DEF InsertFails, Working, Idle, TypeOK, SdType
    <3> QED
      BY Zenon, <1>0, <2>2, <2>4, <3>1, QuietStep DEF Working
  <2> QED
    BY Zenon, <2>1, <2>3, <2>4
<1>5. ASSUME NEW s \in Senders, DispatchDone(s) PROVE DeliveryInv'
  <2>1. ~Working(s) /\ ~Working(s)' /\ \A t \in Senders \ {s} : sd'[t] = sd[t]
    BY Zenon, <1>0, <1>5 DEF DispatchDone, Working, Idle, TypeOK, SdType
  <2> QED
    BY Zenon, <1>0, <1>5, <2>1, QuietStep DEF DispatchDone, rows, Working
<1>6. ASSUME NEW s \in Senders, Retry(s) PROVE DeliveryInv'
  <2>1. PICK i \in Deliveries : dl[i].status # "none"
          /\ sd' = [sd EXCEPT ![s] = [Idle EXCEPT !.pc = "post", !.op = "retry", !.id = i,
                                                  !.bad = Unusable({dl[i].hook})]]
    BY Zenon, <1>6 DEF Retry
  <2>2. ~Working(s) /\ sd'[s].pc = "post" /\ sd'[s].id = i /\ \A t \in Senders \ {s} : sd'[t] = sd[t]
    BY Zenon, <1>0, <1>6, <2>1 DEF Retry, Working, Idle, TypeOK, SdType
  <2> QED
    BY ZenonT(60), <1>0, <1>6, <2>1, <2>2, QuietStep DEF Retry, rows, obs, Working
<1>7. ASSUME NEW s \in Senders, Test(s) PROVE DeliveryInv'
  <2>1. PICK h \in Hooks, i \in Deliveries : Fresh(i) /\ NewRow(i, h, TestEvent)
          /\ sd' = [sd EXCEPT ![s] = [Idle EXCEPT !.pc = "reread", !.op = "retry", !.id = i]]
    BY Zenon, <1>7 DEF Test
  <2>2. ~Working(s) /\ sd'[s].pc = "reread" /\ sd'[s].id = i /\ \A t \in Senders \ {s} : sd'[t] = sd[t]
    BY Zenon, <1>0, <1>7, <2>1 DEF Test, Working, Idle, TypeOK, SdType
  <2> QED
    BY Zenon, <1>0, <1>7, <2>1, <2>2, NewRowStep DEF Test, obs
<1>8. ASSUME NEW s \in Senders, TestReread(s) PROVE DeliveryInv'
  <2>1. Working(s) /\ \A t \in Senders \ {s} : sd'[t] = sd[t]
    BY Zenon, <1>0, <1>8 DEF TestReread, Working, TypeOK
  <2>2. \/ sd'[s].pc = "post" /\ sd'[s].id = sd[s].id
        \/ ~Working(s)' /\ sd[s].id \in lost'
    BY SMTT(60), <1>0, <1>8 DEF TestReread, Working, Idle, TypeOK, SdType
  <2>3. sd[s].id \in Deliveries /\ dl[sd[s].id].status # "none"
    BY Zenon, <1>0, <2>1 DEF RowsStored
  <2>4. UNCHANGED <<dl, posts, accepted>> /\ lost \subseteq lost'
    BY Zenon, <1>8 DEF TestReread, rows
  <2> QED
    BY Zenon, <1>0, <2>1, <2>2, <2>3, <2>4, QuietStep DEF Working
<1>9. ASSUME NEW s \in Senders, Post(s) \/ StoreResult(s) PROVE DeliveryInv'
  BY Zenon, <1>0, <1>9, PostStep, StoreStep
<1>10. CASE ProcessEnds /\ UNCHANGED <<rows, posts, accepted, matched>>
  <2>1. \A s \in Senders : ~Working(s)' /\ (Working(s) => sd[s].id \in lost')
    BY Zenon, <1>10 DEF ProcessEnds, Working, Idle
  <2>2. lost \subseteq lost'
    BY Zenon, <1>10 DEF ProcessEnds
  <2> QED
    BY Zenon, <1>0, <1>10, <2>1, <2>2, QuietStep DEF rows
<1>11. CASE UNCHANGED vars
  BY Zenon, <1>0, <1>11, QuietStep DEF vars, rows, obs, Working
<1>12. ASSUME NEW s \in Senders, PostFails(s) PROVE DeliveryInv'
  <2>1. CASE sd' = [sd EXCEPT ![s] = Idle] /\ lost' = lost \cup {sd[s].id}
    <3>1. ~Working(s)' /\ sd[s].id \in lost' /\ \A t \in Senders \ {s} : sd'[t] = sd[t]
      BY Zenon, <1>0, <2>1 DEF Working, Idle, TypeOK
    <3> QED
      BY Zenon, <1>0, <1>12, <2>1, <3>1, QuietStep DEF PostFails, rows, Working
  <2> QED
    BY Zenon, <1>10, <1>12, <2>1 DEF PostFails
<1>13. CASE Crash
  BY Zenon, <1>10, <1>13 DEF Crash
<1> QED
  BY Zenon, <1>1, <1>2, <1>3, <1>4, <1>5, <1>6, <1>7, <1>8, <1>9, <1>11, <1>12, <1>13 DEF Next, Step

LEMMA DeliveryInvariant == Spec => []DeliveryInv
  BY DeliveryInit, DeliveryNext, PTL DEF Spec

(* For any number of goroutines in Dispatch, Retry and Test: the row of a  *)
(* delivery is inserted before its first request.                          *)
THEOREM AlwaysStoredBeforeSent == Spec => []StoredBeforeSent
  BY DeliveryInvariant, PTL DEF DeliveryInv

(* A row that says delivered was accepted by its receiver, whichever of    *)
(* several UPDATEs of one row came last.                                   *)
THEOREM DeliveredAlwaysAccepted == Spec => []DeliveredWasAccepted
  BY DeliveryInvariant, PTL DEF DeliveryInv

(* attempts never exceeds the requests made, although Dispatch overwrites  *)
(* it and Retry adds to it.                                                *)
THEOREM AttemptsAlwaysMade == Spec => []AttemptsWereMade
<1>1. DeliveryInv => AttemptsWereMade
  <2> SUFFICES ASSUME DeliveryInv, NEW i \in Deliveries PROVE dl[i].attempts <= posts[i]
    BY Zenon DEF AttemptsWereMade
  <2>1. dl[i].attempts \in Nat /\ posts[i] \in Nat
    BY Zenon DEF DeliveryInv, TypeOK, RowType
  <2> QED
    BY SMTT(60), <2>1, StoringFinite DEF DeliveryInv, RoomForResults
<1> QED
  BY <1>1, DeliveryInvariant, PTL

(* A delivery is queued only while a goroutine works on it, whatever its   *)
(* receiver answers, unless a goroutine ended without a result for it: by  *)
(* a failed statement, a url that makes no request, or with the process.   *)
THEOREM QueuedAlwaysInFlight == Spec => []QueuedIsInFlight
  BY DeliveryInvariant, PTL DEF DeliveryInv

----------------------------------------------------------------------------
(* One pass of Dispatch stores one row for each webhook.                   *)

HasRow(e, h) == \E i \in Deliveries : dl[i].event = e /\ dl[i].hook = h

\* Only a goroutine in Dispatch holds an event, and an event is held once.
OneDispatcher ==
  /\ \A s \in Senders : /\ sd[s].pc \in {"idle", "reread"} => sd[s].event \notin Events
                        /\ sd[s].pc = "insert" => sd[s].op = "dispatch"
                        /\ sd[s].pc # "idle" => (sd[s].op = "dispatch" <=> sd[s].event \in Events)
  /\ \A s, t \in Senders : sd[s].event \in Events /\ sd[s].event = sd[t].event => s = t

\* The webhooks still to do have no row, the ones done have theirs.
PassSoFar ==
  \A s \in Senders : sd[s].event \in Events =>
    /\ result[sd[s].event] = "running" /\ sd[s].todo \subseteq matched[sd[s].event]
    /\ \A h \in matched[sd[s].event] : HasRow(sd[s].event, h) <=> h \notin sd[s].todo

\* What the rows of dispatched events say.
RowsOfEvents ==
  /\ \A i \in Deliveries : dl[i].status = "none" => dl[i].event \notin Events
  /\ \A i \in Deliveries : dl[i].event \in Events =>
       dl[i].hook \in matched[dl[i].event] /\ result[dl[i].event] # "none"
  /\ \A i, k \in Deliveries : dl[i].event \in Events /\ dl[i].event = dl[k].event
                              /\ dl[i].hook = dl[k].hook => i = k

DispatchInv ==
  /\ OneDispatcher /\ PassSoFar /\ RowsOfEvents
  /\ \A e \in Events : result[e] = "ok" => \A h \in matched[e] : HasRow(e, h)

LEMMA DispatchInit == Init => DispatchInv
  BY SMTT(60), WebhookAssumption DEF Init, DispatchInv, OneDispatcher, PassSoFar, RowsOfEvents, NoRow, Idle

(* A step that leaves the events, the webhooks to do and the rows alone.   *)
LEMMA SameDispatch ==
  ASSUME DispatchInv, UNCHANGED <<matched, result>>,
         \A i \in Deliveries : /\ dl'[i].event = dl[i].event /\ dl'[i].hook = dl[i].hook
                               /\ dl'[i].status = "none" => dl[i].status = "none",
         \A t \in Senders : sd'[t].event = sd[t].event \/ {sd'[t].event, sd[t].event} \cap Events = {},
         \A t \in Senders : sd[t].event \in Events => sd'[t].todo = sd[t].todo,
         \A t \in Senders : /\ sd'[t].pc \in {"idle", "reread"} => sd'[t].event \notin Events
                            /\ sd'[t].pc = "insert" => sd'[t].op = "dispatch"
                            /\ sd'[t].pc # "idle" => (sd'[t].op = "dispatch" <=> sd'[t].event \in Events)
  PROVE  DispatchInv'
<1> USE DEF DispatchInv
<1>1. OneDispatcher'
  BY SMTT(60) DEF OneDispatcher
<1>2. \A e, h : HasRow(e, h)' <=> HasRow(e, h)
  BY Zenon DEF HasRow
<1>3. PassSoFar'
  BY ZenonT(60), <1>2 DEF PassSoFar
<1>4. RowsOfEvents'
  BY SMTT(60) DEF RowsOfEvents
<1> QED
  BY Zenon, <1>1, <1>2, <1>3, <1>4

(* The end of a pass, with the result r.                                   *)
LEMMA PassEnds ==
  ASSUME DispatchInv, NEW s \in Senders, sd[s].event \in Events, UNCHANGED <<dl, matched>>,
         TestEvent \notin Events, Idle.pc = "idle", Idle.event = TestEvent,
         sd'[s] = Idle, \A t \in Senders \ {s} : sd'[t] = sd[t],
         \A f \in Events \ {sd[s].event} : result'[f] = result[f],
         \/ result'[sd[s].event] = "error"
         \/ /\ result'[sd[s].event] = "ok"
            /\ \A h \in matched[sd[s].event] : HasRow(sd[s].event, h)
  PROVE  DispatchInv'
<1> USE DEF DispatchInv
<1>1. \A e, h : HasRow(e, h)' <=> HasRow(e, h)
  BY Zenon DEF HasRow
<1>2. OneDispatcher'
  BY SMTT(60) DEF OneDispatcher
<1>3. \A t \in Senders \ {s} : sd[t].event # sd[s].event
  BY Zenon DEF OneDispatcher
<1>4. PassSoFar'
  BY SMTT(60), <1>1, <1>3 DEF PassSoFar
<1>5. RowsOfEvents'
  BY ZenonT(60) DEF RowsOfEvents
<1> QED
  BY Zenon, <1>1, <1>2, <1>4, <1>5

LEMMA DispatchNext == TypeOK /\ RowsStored /\ DispatchInv /\ [Next]_vars => DispatchInv'
<1> SUFFICES ASSUME TypeOK, RowsStored, DispatchInv, [Next]_vars PROVE DispatchInv'
  BY Zenon
<1> USE DEF DispatchInv
<1>0. TestEvent \notin Events /\ Idle.pc = "idle" /\ Idle.event = TestEvent
  BY Zenon, WebhookAssumption DEF Idle
<1>1. ASSUME NEW h \in Hooks, PutWebhook(h) PROVE DispatchInv'
  BY Zenon, <1>1, SameDispatch DEF PutWebhook, obs, OneDispatcher
<1>2. ASSUME NEW h \in Hooks, DeleteWebhook(h) PROVE DispatchInv'
  <2>1. UNCHANGED <<sd, matched, result>>
    BY Zenon, <1>2 DEF DeleteWebhook, obs
  <2>2. \A i \in Deliveries : /\ dl'[i].event = dl[i].event /\ dl'[i].hook = dl[i].hook
                              /\ dl'[i].status = "none" => dl[i].status = "none"
    BY ZenonT(60), <1>2 DEF DeleteWebhook, TypeOK, RowType
  <2> QED
    BY Zenon, <2>1, <2>2, SameDispatch DEF OneDispatcher
<1>3. ASSUME NEW s \in Senders, NEW e \in Events, Dispatch(s, e) PROVE DispatchInv'
  <2>1. sd[s].pc = "idle" /\ result[e] = "none" /\ UNCHANGED dl
    BY Zenon, <1>3 DEF Dispatch, rows
  <2>2. /\ sd'[s].pc = "insert" /\ sd'[s].op = "dispatch" /\ sd'[s].event = e
        /\ sd'[s].todo = Matching(e) /\ \A t \in Senders \ {s} : sd'[t] = sd[t]
    BY Zenon, <1>3 DEF Dispatch, TypeOK, Idle
  <2>3. /\ matched'[e] = Matching(e) /\ \A f \in Events \ {e} : matched'[f] = matched[f]
        /\ result'[e] = "running" /\ \A f \in Events \ {e} : result'[f] = result[f]
    BY Zenon, <1>3 DEF Dispatch, TypeOK
  <2>4. \A t \in Senders : sd[t].event # e
    BY Zenon, <2>1 DEF PassSoFar
  <2>5. \A f, h : HasRow(f, h)' <=> HasRow(f, h)
    BY Zenon, <2>1 DEF HasRow
  <2>6. \A h : ~HasRow(e, h)
    BY SMTT(60), <2>1 DEF HasRow, RowsOfEvents
  <2>7. OneDispatcher'
    BY SMTT(60), <2>2, <2>4 DEF OneDispatcher
  <2>8. PassSoFar'
    <3>1. \A h \in matched'[e] : HasRow(e, h)' <=> h \notin sd'[s].todo
      BY Zenon, <2>2, <2>3, <2>5, <2>6
    <3>2. \A t \in Senders \ {s} : sd[t].event \in Events =>
            /\ result'[sd[t].event] = "running" /\ sd[t].todo \subseteq matched'[sd[t].event]
            /\ \A h \in matched'[sd[t].event] : HasRow(sd[t].event, h) <=> h \notin sd[t].todo
      BY Zenon, <2>3, <2>4 DEF PassSoFar
    <3> QED
      BY SMTT(60), <3>1, <3>2, <2>2, <2>3, <2>5 DEF PassSoFar
  <2>9. RowsOfEvents'
    BY Zenon, <2>1, <2>3 DEF RowsOfEvents
  <2> QED
    BY Zenon, <2>3, <2>5, <2>7, <2>8, <2>9
<1>4. ASSUME NEW s \in Senders, InsertDelivery(s) PROVE DispatchInv'
  <2>1. sd[s].pc = "insert" /\ sd[s].event \in Events /\ UNCHANGED matched
    BY Zenon, <1>4 DEF InsertDelivery, OneDispatcher
  <2>2. PICK h \in sd[s].todo :
          \/ /\ \E i \in Deliveries : Fresh(i) /\ NewRow(i, h, sd[s].event) /\ Posting(s, h, i)
             /\ UNCHANGED result
          \/ InsertFails(s, h) /\ UNCHANGED dl
    BY Zenon, <1>4 DEF InsertDelivery
  <2> DEFINE e == sd[s].event
  <2>3. ASSUME NEW i \in Deliveries, Fresh(i), NewRow(i, h, e), Posting(s, h, i), UNCHANGED result
        PROVE  DispatchInv'
    <3>1. /\ sd'[s].pc = "post" /\ sd'[s].op = sd[s].op /\ sd'[s].event = e
          /\ sd'[s].todo = sd[s].todo \ {h} /\ \A t \in Senders \ {s} : sd'[t] = sd[t]
      BY ZenonT(60), <2>3 DEF Posting, TypeOK, SdType
    <3>2. /\ dl'[i].event = e /\ dl'[i].hook = h /\ dl'[i].status = "queued"
          /\ \A k \in Deliveries \ {i} : dl'[k] = dl[k]
      BY Zenon, <2>3 DEF NewRow, TypeOK
    <3>3. dl[i].event \notin Events
      BY Zenon, <2>3 DEF Fresh, RowsOfEvents
    <3>4. \A f \in Events : \A g : HasRow(f, g)' <=> HasRow(f, g) \/ (f = e /\ g = h)
      BY SMTT(60), <3>2, <3>3, <2>1 DEF HasRow
    <3>5. h \in matched[e] /\ ~HasRow(e, h) /\ result[e] = "running"
      BY Zenon, <2>1, <2>2 DEF PassSoFar
    <3>6. OneDispatcher'
      BY SMTT(60), <2>1, <3>1 DEF OneDispatcher
    <3>7. \A t \in Senders \ {s} : sd[t].event # e
      BY Zenon, <2>1 DEF OneDispatcher
    <3>8. PassSoFar'
      <4>1. \A g \in matched[e] : HasRow(e, g)' <=> g \notin sd'[s].todo
        BY ZenonT(60), <2>1, <2>2, <3>1, <3>4 DEF PassSoFar
      <4>2. \A t \in Senders \ {s} : sd[t].event \in Events =>
              \A g \in matched[sd[t].event] : HasRow(sd[t].event, g) <=> g \notin sd[t].todo
        BY Zenon DEF PassSoFar
      <4>3. \A t \in Senders : sd'[t].event \in Events =>
              result'[sd'[t].event] = "running" /\ sd'[t].todo \subseteq matched'[sd'[t].event]
        BY SMTT(60), <2>1, <2>3, <3>1 DEF PassSoFar
      <4> QED
        BY SMTT(60), <4>1, <4>2, <4>3, <2>1, <3>1, <3>4, <3>7 DEF PassSoFar
    <3>9. RowsOfEvents'
      <4>1. \A k \in Deliveries : ~(dl[k].event = e /\ dl[k].hook = h)
        BY Zenon, <3>5 DEF HasRow
      <4> QED
        BY SMTT(60), <4>1, <2>1, <2>3, <3>2, <3>3, <3>5 DEF RowsOfEvents
    <3> QED
      BY Zenon, <2>1, <2>3, <3>4, <3>6, <3>8, <3>9
  <2>4. CASE InsertFails(s, h) /\ UNCHANGED dl
    <3>1. sd'[s] = Idle /\ \A t \in Senders \ {s} : sd'[t] = sd[t]
      BY Zenon, <2>4 DEF InsertFails, TypeOK
    <3>2. result'[e] = "error" /\ \A f \in Events \ {e} : result'[f] = result[f]
      BY Zenon, <2>1, <2>4 DEF InsertFails, Ended, TypeOK
    <3> QED
      BY Zenon, <1>0, <2>1, <2>4, <3>1, <3>2, PassEnds
  <2> QED
    BY Zenon, <2>2, <2>3, <2>4
<1>5. ASSUME NEW s \in Senders, DispatchDone(s) PROVE DispatchInv'
  <2>1. sd[s].pc = "insert" /\ sd[s].todo = {} /\ sd[s].event \in Events /\ UNCHANGED <<dl, matched>>
    BY Zenon, <1>5 DEF DispatchDone, OneDispatcher, rows
  <2>2. sd'[s] = Idle /\ \A t \in Senders \ {s} : sd'[t] = sd[t]
    BY Zenon, <1>5 DEF DispatchDone, TypeOK
  <2>3. result'[sd[s].event] = "ok" /\ \A f \in Events \ {sd[s].event} : result'[f] = result[f]
    BY Zenon, <1>5, <2>1 DEF DispatchDone, Ended, TypeOK
  <2>4. \A h \in matched[sd[s].event] : HasRow(sd[s].event, h)
    BY Zenon, <2>1 DEF PassSoFar
  <2> QED
    BY Zenon, <1>0, <2>1, <2>2, <2>3, <2>4, PassEnds
<1>6. ASSUME NEW s \in Senders, Retry(s) PROVE DispatchInv'
  <2>1. sd[s].pc = "idle" /\ UNCHANGED <<dl, matched, result>>
    BY Zenon, <1>6 DEF Retry, rows, obs
  <2>2. /\ sd'[s].pc = "post" /\ sd'[s].op = "retry" /\ sd'[s].event = TestEvent
        /\ \A t \in Senders \ {s} : sd'[t] = sd[t]
    BY ZenonT(60), <1>6 DEF Retry, Idle, TypeOK
  <2> QED
    BY SMTT(60), <1>0, <2>1, <2>2, SameDispatch DEF OneDispatcher
<1>7. ASSUME NEW s \in Senders, Test(s) PROVE DispatchInv'
  <2>1. PICK h \in Hooks, i \in Deliveries : Fresh(i) /\ NewRow(i, h, TestEvent)
          /\ sd' = [sd EXCEPT ![s] = [Idle EXCEPT !.pc = "reread", !.op = "retry", !.id = i]]
    BY Zenon, <1>7 DEF Test
  <2>2. sd[s].pc = "idle" /\ UNCHANGED <<matched, result>>
    BY Zenon, <1>7 DEF Test, obs
  <2>3. /\ sd'[s].pc = "reread" /\ sd'[s].op = "retry" /\ sd'[s].event = TestEvent
        /\ \A t \in Senders \ {s} : sd'[t] = sd[t]
    BY Zenon, <2>1 DEF Idle, TypeOK
  <2>4. dl[i].event \notin Events /\ dl'[i].event = TestEvent /\ \A k \in Deliveries \ {i} : dl'[k] = dl[k]
    BY Zenon, <2>1 DEF NewRow, Fresh, TypeOK, RowsOfEvents
  <2>5. \A e \in Events : \A g : HasRow(e, g)' <=> HasRow(e, g)
    BY SMTT(60), <1>0, <2>4 DEF HasRow
  <2>6. OneDispatcher'
    BY SMTT(60), <1>0, <2>2, <2>3 DEF OneDispatcher
  <2>7. PassSoFar'
    BY SMTT(60), <1>0, <2>2, <2>3, <2>5 DEF PassSoFar
  <2>8. RowsOfEvents'
    BY SMTT(60), <1>0, <2>2, <2>4 DEF RowsOfEvents
  <2> QED
    BY Zenon, <2>2, <2>5, <2>6, <2>7, <2>8
<1>8. ASSUME NEW s \in Senders, TestReread(s) PROVE DispatchInv'
  <2>1. sd[s].pc = "reread" /\ UNCHANGED <<dl, matched, result>>
    BY Zenon, <1>8 DEF TestReread, rows
  <2>2. \A t \in Senders \ {s} : sd'[t] = sd[t]
    BY Zenon, <1>8 DEF TestReread, TypeOK
  <2>3. CASE sd' = [sd EXCEPT ![s].pc = "post", ![s].bad = Unusable({dl[sd[s].id].hook})]
    <3>1. /\ sd'[s].pc = "post" /\ sd'[s].op = sd[s].op /\ sd'[s].event = sd[s].event
          /\ sd'[s].todo = sd[s].todo
      BY ZenonT(60), <2>3 DEF TypeOK, SdType
    <3> QED
      BY ZenonT(60), <2>1, <2>2, <3>1, SameDispatch DEF OneDispatcher
  <2>4. CASE sd' = [sd EXCEPT ![s] = Idle]
    <3>1. sd'[s] = Idle
      BY Zenon, <2>4 DEF TypeOK
    <3>2. sd[s].event \notin Events
      BY Zenon, <2>1 DEF OneDispatcher
    <3> QED
      BY ZenonT(60), <1>0, <2>1, <2>2, <3>1, <3>2, SameDispatch DEF OneDispatcher
  <2> QED
    BY Zenon, <1>8, <2>3, <2>4 DEF TestReread
<1>9. ASSUME NEW s \in Senders, Post(s) PROVE DispatchInv'
  <2>1. sd[s].pc = "post" /\ UNCHANGED <<dl, matched, result>>
    BY Zenon, <1>9 DEF Post, rows
  <2>2. /\ sd'[s].pc = "store" /\ sd'[s].op = sd[s].op /\ sd'[s].event = sd[s].event
        /\ sd'[s].todo = sd[s].todo /\ \A t \in Senders \ {s} : sd'[t] = sd[t]
    BY SMTT(60), <1>9 DEF Post, TypeOK, SdType
  <2> QED
    BY ZenonT(60), <2>1, <2>2, SameDispatch DEF OneDispatcher
<1>10. ASSUME NEW s \in Senders, StoreResult(s) PROVE DispatchInv'
  <2>1. sd[s].pc = "store" /\ UNCHANGED <<matched, result>>
    BY Zenon, <1>10 DEF StoreResult
  <2>2. \A t \in Senders \ {s} : sd'[t] = sd[t]
    BY Zenon, <1>10 DEF StoreResult, TypeOK
  <2>3. sd[s].id \in Deliveries
    BY Zenon, <2>1 DEF RowsStored, Working
  <2>4. \A i \in Deliveries : /\ dl'[i].event = dl[i].event /\ dl'[i].hook = dl[i].hook
                              /\ dl'[i].status = "none" => dl[i].status = "none"
    BY SMTT(60), <1>10, <2>3 DEF StoreResult, UpdateDelivery, Outcome, TypeOK, RowType
  <2>5. \/ /\ sd[s].op = "dispatch" /\ sd'[s].op = "dispatch" /\ sd'[s].pc = "insert"
           /\ sd'[s].event = sd[s].event /\ sd'[s].todo = sd[s].todo
        \/ sd[s].op = "retry" /\ sd'[s] = Idle
    BY Zenon, <1>10 DEF StoreResult, TypeOK, SdType
  <2> QED
    BY SMTT(60), <1>0, <2>1, <2>2, <2>4, <2>5, SameDispatch DEF OneDispatcher
<1>11. CASE ProcessEnds /\ UNCHANGED <<rows, posts, accepted, matched>>
  <2>1. UNCHANGED <<dl, matched>> /\ \A t \in Senders : sd'[t] = Idle
    BY Zenon, <1>11 DEF ProcessEnds, rows
  <2>2. \A e \in Events : \/ result'[e] = result[e]
                          \/ result'[e] = "error"
    BY Zenon, <1>11 DEF ProcessEnds, TypeOK
  <2>3. \A e, h : HasRow(e, h)' <=> HasRow(e, h)
    BY Zenon, <2>1 DEF HasRow
  <2>4. OneDispatcher' /\ PassSoFar'
    BY Zenon, <1>0, <2>1 DEF OneDispatcher, PassSoFar
  <2>5. RowsOfEvents'
    BY Zenon, <2>1, <2>2 DEF RowsOfEvents
  <2> QED
    BY Zenon, <2>1, <2>2, <2>3, <2>4, <2>5
<1>12. CASE UNCHANGED vars
  BY Zenon, <1>12, SameDispatch DEF vars, rows, obs, OneDispatcher
<1>13. ASSUME NEW s \in Senders, PostFails(s) PROVE DispatchInv'
  <2>1. sd[s].pc = "post" /\ UNCHANGED <<dl, matched>>
    BY Zenon, <1>13 DEF PostFails, rows
  <2>2. ASSUME sd' = [sd EXCEPT ![s] = Idle], Ended(s, "error") PROVE DispatchInv'
    <3>1. sd'[s] = Idle /\ \A t \in Senders \ {s} : sd'[t] = sd[t]
      BY Zenon, <2>2 DEF TypeOK
    <3>2. CASE sd[s].event \in Events
      <4>1. result'[sd[s].event] = "error" /\ \A f \in Events \ {sd[s].event} : result'[f] = result[f]
        BY Zenon, <2>2, <3>2 DEF Ended, TypeOK
      <4> QED
        BY Zenon, <1>0, <2>1, <3>1, <3>2, <4>1, PassEnds
    <3>3. CASE sd[s].event \notin Events
      <4>1. UNCHANGED result
        BY Zenon, <2>2, <3>3 DEF Ended
      <4> QED
        BY ZenonT(60), <1>0, <2>1, <3>1, <3>3, <4>1, SameDispatch DEF OneDispatcher
    <3> QED
      BY Zenon, <3>2, <3>3
  <2> QED
    BY Zenon, <1>11, <1>13, <2>2 DEF PostFails
<1>14. CASE Crash
  BY Zenon, <1>11, <1>14 DEF Crash
<1> QED
  BY Zenon, <1>1, <1>2, <1>3, <1>4, <1>5, <1>6, <1>7, <1>8, <1>9, <1>10, <1>12, <1>13, <1>14 DEF Next, Step

(* For any webhooks and any interleaving of dispatches: a dispatch that    *)
(* reports no error stored exactly one delivery for every webhook that     *)
(* matched, and no dispatch stores two for one webhook.                    *)
THEOREM EveryMatchAlwaysStored == Spec => []EveryMatchStored
<1>1. TypeOK /\ DispatchInv => EveryMatchStored
  <2> SUFFICES ASSUME TypeOK, DispatchInv, NEW e \in Events, NEW h \in Hooks
               PROVE  LET of == {i \in Deliveries : dl[i].event = e /\ dl[i].hook = h} IN
                        /\ Cardinality(of) <= (IF h \in matched[e] THEN 1 ELSE 0)
                        /\ (result[e] = "ok" /\ h \in matched[e]) => of # {}
    BY Zenon DEF EveryMatchStored
  <2> DEFINE of == {i \in Deliveries : dl[i].event = e /\ dl[i].hook = h}
  <2>1. (result[e] = "ok" /\ h \in matched[e]) => of # {}
    BY SMTT(60) DEF DispatchInv, HasRow
  <2>2. CASE of = {}
    <3>1. Cardinality(of) = 0
      BY Zenon, <2>2, FS_EmptySet
    <3> QED
      BY SMTT(60), <2>1, <3>1
  <2>3. CASE of # {}
    <3>1. PICK i \in Deliveries : dl[i].event = e /\ dl[i].hook = h
      BY Zenon, <2>3
    <3>2. of = {i}
      BY Zenon, <3>1 DEF DispatchInv, RowsOfEvents
    <3>3. Cardinality(of) = 1
      BY Zenon, <3>2, FS_Singleton
    <3>4. h \in matched[e]
      BY Zenon, <3>1 DEF DispatchInv, RowsOfEvents
    <3> QED
      BY SMTT(60), <2>1, <3>3, <3>4
  <2> QED
    BY Zenon, <2>2, <2>3
<1>2. DeliveryInv => TypeOK /\ RowsStored
  BY Zenon DEF DeliveryInv
<1>3. Spec => []DispatchInv
  BY <1>2, DispatchInit, DispatchNext, DeliveryInvariant, PTL DEF Spec
<1> QED
  BY <1>1, <1>2, <1>3, DeliveryInvariant, PTL
============================================================================
