-------------------------- MODULE MessagePipeline --------------------------
(***************************************************************************)
(* The life of an outgoing message: the HTTP handlers that store it in     *)
(* Postgres and enqueue it in Redis, the Asynq worker that sends it to     *)
(* WhatsApp, the receipts that come back, and the crashes, shutdowns and   *)
(* restarts of the gateway process in between.                             *)
(*                                                                         *)
(* One goroutine is one member of Requests, Workers or Receivers, with a   *)
(* pc; every call that reaches Postgres, Redis or WhatsApp is one step, so *)
(* other goroutines and crashes come between any two of them.              *)
(***************************************************************************)
EXTENDS Integers, FiniteSets

CONSTANTS
  Ids,          \* message ids; job id = message id (server.go:1139)
  NoId,
  Keys,         \* (idempotency_scope, idempotency_key_hash) pairs
  NoKey,        \* a request without Idempotency-Key
  Kinds,        \* what clients submit: subset of MessageKinds
  Requests,     \* HTTP handler goroutines
  Workers,      \* Asynq worker goroutines (Concurrency: 10)
  Receivers,    \* goroutines that run the WhatsApp event handler
  Faults,       \* what may go wrong: subset of FaultKinds
  MaxRetry,     \* asynq.MaxRetry(3)
  RecoverLimit, \* LIMIT 1000 of ListPendingQueueJobs
  MaxStops      \* bound: crashes and shutdowns in a behaviour

\* A media message is accepted with or without a url.
MessageKinds == {"text", "media", "nourl"}

(***************************************************************************)
(* db: a statement fails; redis: an enqueue fails; wait: the limiter gives *)
(* up; lookup: no client for the session; send: WhatsApp refuses; 463: it  *)
(* refuses for good; lost: it accepts but the answer is lost; timeout:     *)
(* Asynq abandons a running handler; crash and shutdown of the process.    *)
(***************************************************************************)
FaultKinds == {"db", "redis", "wait", "lookup", "send", "463", "lost",
               "timeout", "crash", "shutdown"}

ASSUME PipelineAssumption ==
  /\ NoId \notin Ids
  /\ NoKey \notin Keys
  /\ Kinds \subseteq MessageKinds
  /\ Faults \subseteq FaultKinds
  /\ IsFiniteSet(Workers)
  /\ MaxRetry \in Nat
  /\ RecoverLimit \in Nat
  /\ MaxStops \in Nat

VARIABLES
  proc,      \* the process: "up", "draining", "down" or "recovering"
  stops,     \* crashes and shutdowns so far
  pend,      \* Recover's remaining jobs
  status,    \* messages.status, "none" when there is no row
  waId,      \* messages.wa_message_id, 0 for NULL
  key,       \* the idempotency columns of the row
  kind,      \* type and url of the row
  job,       \* queue_jobs.status, "none" when there is no row
  task,      \* state of the Asynq task
  tries,     \* retries Asynq has counted for it
  req,       \* HTTP handlers
  wk,        \* task handlers
  rc,        \* receipt handlers; one that is not idle holds receiptMu
  sends,     \* observation: times WhatsApp accepted the message
  answers,   \* observation: 200 and 202 answers given
  published  \* observation: message.delivered and message.read events

db == <<status, waId, key, kind, job>>
redis == <<task, tries>>
procVars == <<proc, stops, pend>>
obs == <<sends, answers, published>>
vars == <<procVars, db, redis, req, wk, rc, obs>>

Statuses == {"queued", "sent", "delivered", "read", "failed"}
IdleReq == [pc |-> "idle", id |-> NoId, key |-> NoKey, kind |-> "text"]
IdleWk == [pc |-> "idle", id |-> NoId, live |-> FALSE, wa |-> 0, res |-> "retry"]
IdleRc == [pc |-> "idle", id |-> NoId, wa |-> 0, st |-> "delivered"]

Init ==
  /\ proc = "up" /\ stops = 0 /\ pend = {}
  /\ status = [m \in Ids |-> "none"] /\ waId = [m \in Ids |-> 0]
  /\ key = [m \in Ids |-> NoKey] /\ kind = [m \in Ids |-> "text"]
  /\ job = [m \in Ids |-> "none"]
  /\ task = [m \in Ids |-> "none"] /\ tries = [m \in Ids |-> 0]
  /\ req = [r \in Requests |-> IdleReq] /\ wk = [w \in Workers |-> IdleWk]
  /\ rc = [h \in Receivers |-> IdleRc]
  /\ sends = [m \in Ids |-> 0] /\ answers = {} /\ published = {}

----------------------------------------------------------------------------
(* Postgres.  main closes the pool first when it shuts down, so that every *)
(* statement of a goroutine that is still running fails while draining.    *)

DbUp == proc # "draining"
DbFails == "db" \in Faults \/ ~DbUp

Holders(k) == {m \in Ids : k # NoKey /\ status[m] # "none" /\ key[m] = k}

\* randomID: an id no row and no handler has
Fresh == {m \in Ids : job[m] = "none" /\ \A r \in Requests : req[r].id # m}

\* Mutant: the unique index is missing.
IndexAcceptsAny(k) == TRUE

\* messages_idempotency_unique lets the insert through
IndexAccepts(k) == Holders(k) = {}

\* Mutant: a failed attempt keeps the wa_message_id of an earlier one.
UpdateMessageStatusKeepWA(m, s, wa) ==
  IF status[m] = "none"
    THEN UNCHANGED <<status, waId>>
    ELSE /\ status' = [status EXCEPT ![m] = s]
         /\ waId' = [waId EXCEPT ![m] = IF wa = 0 THEN @ ELSE wa]

\* UPDATE messages ... WHERE id=$1 matches no row once it is deleted
UpdateMessageStatus(m, s, wa) ==
  IF status[m] = "none"
    THEN UNCHANGED <<status, waId>>
    ELSE status' = [status EXCEPT ![m] = s] /\ waId' = [waId EXCEPT ![m] = wa]

\* Mutant: a failed job is stored with a status of its own.
UpdateQueueJobRetrying(m, s) ==
  job' = [job EXCEPT ![m] = IF s = "failed" THEN "retrying" ELSE s]

UpdateQueueJob(m, s) == job' = [job EXCEPT ![m] = s]

\* Mutant: the row is updated by its id alone.
UpdateMessageReceiptById(m, wa, st) == status' = [status EXCEPT ![m] = st]

\* ... WHERE wa_message_id=$2 AND status IN ('sent','delivered')
UpdateMessageReceipt(m, wa, st) ==
  IF waId[m] = wa /\ status[m] \in {"sent", "delivered"}
    THEN status' = [status EXCEPT ![m] = st]
    ELSE UNCHANGED status

\* Mutant: only rows that no code path writes are listed.
PendingQueueJobsRetrying == {m \in Ids : job[m] = "retrying"}

PendingQueueJobs == {m \in Ids : job[m] = "waiting"}

----------------------------------------------------------------------------
(* sendMessage, resendMessage and deleteMessage.  A handler that answers   *)
(* with an error goes back to idle and leaves what it stored.              *)

Answer(r, k, m, code) ==
  /\ answers' = answers \cup {[key |-> k, id |-> m, code |-> code]}
  /\ req' = [req EXCEPT ![r] = IdleReq]

\* The lookup treats a failed query like a key nobody used.
SendMessage(r) ==
  /\ proc = "up" /\ req[r].pc = "idle"
  /\ \E k \in Keys \cup {NoKey}, t \in Kinds :
       \/ \E m \in Holders(k) : Answer(r, k, m, 200)
       \/ /\ Holders(k) = {} \/ DbFails
          /\ \E m \in Fresh :
               req' = [req EXCEPT ![r] = [pc |-> "put", id |-> m, key |-> k, kind |-> t]]
          /\ UNCHANGED answers
  /\ UNCHANGED <<procVars, db, redis, wk, rc, sends, published>>

\* The copy has a new id and no idempotency key, url, filename or priority.
ResendMessage(r) ==
  /\ proc = "up" /\ req[r].pc = "idle"
  /\ \E o \in Ids, m \in Fresh :
       /\ status[o] # "none"
       /\ req' = [req EXCEPT ![r] =
            [pc |-> "put", id |-> m, key |-> NoKey,
             kind |-> IF kind[o] = "text" THEN "text" ELSE "nourl"]]
  /\ UNCHANGED <<procVars, db, redis, wk, rc, obs>>

\* One transaction inserts the message and its queue_jobs row; the unique
\* index on the idempotency columns rejects a second row for a key.
PutMessage(r) ==
  /\ req[r].pc = "put"
  /\ LET m == req[r].id  k == req[r].key IN
       \/ /\ DbUp /\ IndexAccepts(k)
          /\ status' = [status EXCEPT ![m] = "queued"]
          /\ key' = [key EXCEPT ![m] = k] /\ kind' = [kind EXCEPT ![m] = req[r].kind]
          /\ job' = [job EXCEPT ![m] = "waiting"]
          /\ req' = [req EXCEPT ![r].pc = "enqueue"]
          /\ UNCHANGED waId
       \/ /\ ~IndexAccepts(k) \/ DbFails
          /\ \/ k = NoKey /\ req' = [req EXCEPT ![r] = IdleReq]
             \/ k # NoKey /\ req' = [req EXCEPT ![r].pc = "relook"]
          /\ UNCHANGED db
  /\ UNCHANGED <<procVars, redis, wk, rc, obs>>

\* After a failed insert the handler answers with the row that holds the key.
FindExisting(r) ==
  /\ req[r].pc = "relook"
  /\ LET k == req[r].key IN
       \/ DbUp /\ \E m \in Holders(k) : Answer(r, k, m, 200)
       \/ /\ Holders(k) = {} \/ DbFails
          /\ req' = [req EXCEPT ![r] = IdleReq]
          /\ UNCHANGED answers
  /\ UNCHANGED <<procVars, db, redis, wk, rc, sends, published>>

\* Asynq.Enqueue; the job id is the id of the task
NewTask(m) ==
  /\ task[m] = "none"
  /\ task' = [task EXCEPT ![m] = "pending"] /\ tries' = [tries EXCEPT ![m] = 0]

Enqueue(r) ==
  /\ req[r].pc = "enqueue"
  /\ LET m == req[r].id IN
       \/ /\ NewTask(m)
          /\ Answer(r, req[r].key, m, 202)
       \/ /\ task[m] # "none" \/ "redis" \in Faults
          /\ req' = [req EXCEPT ![r] = IdleReq]
          /\ UNCHANGED <<redis, answers>>
  /\ UNCHANGED <<procVars, db, wk, rc, sends, published>>

\* deleteMessage reads the status first; its DELETE does not look again.
DeleteMessage(r) ==
  /\ proc = "up" /\ req[r].pc = "idle"
  /\ \E m \in Ids :
       /\ status[m] \notin {"none", "queued", "processing"}
       /\ req' = [req EXCEPT ![r] = [IdleReq EXCEPT !.pc = "delete", !.id = m]]
  /\ UNCHANGED <<procVars, db, redis, wk, rc, obs>>

\* The queue_jobs row stays.
DeleteRow(r) ==
  /\ req[r].pc = "delete"
  /\ req' = [req EXCEPT ![r] = IdleReq]
  /\ \/ /\ DbUp
        /\ LET m == req[r].id IN
             /\ status' = [status EXCEPT ![m] = "none"]
             /\ waId' = [waId EXCEPT ![m] = 0]
             /\ key' = [key EXCEPT ![m] = NoKey]
        /\ UNCHANGED <<kind, job>>
     \/ DbFails /\ UNCHANGED db
  /\ UNCHANGED <<procVars, redis, wk, rc, obs>>

----------------------------------------------------------------------------
(* Asynq: at-least-once execution of tasks.  wk[w].live says that the      *)
(* handler's context is not cancelled and Asynq still waits for its result.*)

\* Mutant: one retry too many.
MayRetryLate(m) == tries[m] <= MaxRetry

MayRetry(m) == tries[m] < MaxRetry

RetryOrArchive(m) ==
  IF MayRetry(m)
    THEN task' = [task EXCEPT ![m] = "retry"] /\ tries' = [tries EXCEPT ![m] = @ + 1]
    ELSE task' = [task EXCEPT ![m] = "archived"] /\ UNCHANGED tries

TakeTask(w) ==
  /\ proc \in {"up", "draining"} /\ wk[w].pc = "idle"
  /\ \E m \in Ids :
       /\ task[m] = "pending"
       /\ task' = [task EXCEPT ![m] = "active"]
       /\ wk' = [wk EXCEPT ![w] = [IdleWk EXCEPT !.pc = "wait", !.id = m, !.live = TRUE]]
  /\ UNCHANGED <<procVars, db, tries, req, rc, obs>>

\* The retry delay (15 s and more) outlasts a shutdown.
PromoteRetry(m) ==
  /\ proc = "up" /\ task[m] = "retry"
  /\ task' = [task EXCEPT ![m] = "pending"]
  /\ UNCHANGED <<procVars, db, tries, req, wk, rc, obs>>

\* The task timeout or a lost lease: the context is cancelled and the task
\* retried, but nothing stops the handler goroutine.
AbandonTask(w) ==
  /\ "timeout" \in Faults
  /\ wk[w].pc # "idle" /\ wk[w].live
  /\ wk' = [wk EXCEPT ![w].live = FALSE]
  /\ RetryOrArchive(wk[w].id)
  /\ UNCHANGED <<procVars, db, req, rc, obs>>

Orphaned(m) == \A w \in Workers : ~(wk[w].id = m /\ wk[w].live)

\* The recoverer finds an active task whose process is gone.
LeaseExpired(m) ==
  /\ proc = "up" /\ task[m] = "active" /\ Orphaned(m)
  /\ RetryOrArchive(m)
  /\ UNCHANGED <<procVars, db, req, wk, rc, obs>>

\* The handler returned.  Retention is 0: a finished task frees its id.
Return(w) ==
  /\ wk[w].pc = "return"
  /\ wk' = [wk EXCEPT ![w] = IdleWk]
  /\ LET m == wk[w].id IN
       \/ ~wk[w].live /\ UNCHANGED redis
       \/ wk[w].live /\ wk[w].res = "retry" /\ RetryOrArchive(m)
       \/ /\ wk[w].live /\ wk[w].res = "done"
          /\ task' = [task EXCEPT ![m] = "none"]
          /\ tries' = [tries EXCEPT ![m] = 0]
  /\ UNCHANGED <<procVars, db, req, rc, obs>>

----------------------------------------------------------------------------
(* The handler of NewWorker, one action per call it makes.                 *)

Goto(w, pc, res) == wk' = [wk EXCEPT ![w].pc = pc, ![w].res = res]

\* limiter.Wait queries the session row and honours the context.
LimiterWait(w) ==
  /\ wk[w].pc = "wait"
  /\ \/ wk[w].live /\ DbUp /\ Goto(w, "lookup", "retry")
     \/ (~wk[w].live \/ "wait" \in Faults \/ DbFails) /\ Goto(w, "return", "retry")
  /\ UNCHANGED <<procVars, db, redis, req, rc, obs>>

LookupSender(w) ==
  /\ wk[w].pc = "lookup"
  /\ \/ Goto(w, "send", "retry")
     \/ "lookup" \in Faults /\ Goto(w, "failed", "retry")
  /\ UNCHANGED <<procVars, db, redis, req, rc, obs>>

\* SendText or SendMedia; a media job without url never reaches WhatsApp.
Send(w) ==
  /\ wk[w].pc = "send"
  /\ LET m == wk[w].id  sendable == kind[m] # "nourl" IN
       \/ /\ sendable
          /\ sends' = [sends EXCEPT ![m] = @ + 1]
          /\ \/ wk' = [wk EXCEPT ![w].pc = "sent", ![w].wa = sends[m] + 1]
             \/ "lost" \in Faults /\ Goto(w, "failed", "retry")
       \/ /\ \/ (~sendable \/ ~wk[w].live \/ "send" \in Faults) /\ Goto(w, "failed", "retry")
             \/ sendable /\ "463" \in Faults /\ Goto(w, "failed", "done")
          /\ UNCHANGED sends
  /\ UNCHANGED <<procVars, db, redis, req, rc, answers, published>>

\* Mutant: a failed attempt puts the row back to queued.
AfterFailureQueued == "queued"

AfterFailure == "failed"

\* Mutant: the failure path writes queue_jobs first, and then messages.
RecordFailedJobFirst(w) ==
  /\ wk[w].pc = "failed"
  /\ IF job[wk[w].id] = "waiting"
       THEN UpdateQueueJob(wk[w].id, "failed") /\ UNCHANGED <<wk, status, waId>>
       ELSE /\ Goto(w, "jobFailed", wk[w].res)
            /\ UpdateMessageStatus(wk[w].id, AfterFailure, 0)
            /\ UNCHANGED job
  /\ UNCHANGED <<procVars, key, kind, redis, req, rc, obs>>

\* The failure path writes with context.Background() and ignores errors.
RecordFailed(w) ==
  /\ wk[w].pc = "failed"
  /\ Goto(w, "jobFailed", wk[w].res)
  /\ \/ DbUp /\ UpdateMessageStatus(wk[w].id, AfterFailure, 0)
     \/ DbFails /\ UNCHANGED <<status, waId>>
  /\ UNCHANGED <<procVars, key, kind, job, redis, req, rc, obs>>

RecordJobFailed(w) ==
  /\ wk[w].pc = "jobFailed"
  /\ Goto(w, "return", wk[w].res)
  /\ \/ DbUp /\ UpdateQueueJob(wk[w].id, "failed")
     \/ DbFails /\ UNCHANGED job
  /\ UNCHANGED <<procVars, status, waId, key, kind, redis, req, rc, obs>>

\* The success path writes with the task's context and returns its error.
RecordSent(w) ==
  /\ wk[w].pc = "sent"
  /\ \/ /\ wk[w].live /\ DbUp
        /\ UpdateMessageStatus(wk[w].id, "sent", wk[w].wa)
        /\ Goto(w, "completed", "done")
     \/ /\ ~wk[w].live \/ DbFails
        /\ Goto(w, "return", "retry")
        /\ UNCHANGED <<status, waId>>
  /\ UNCHANGED <<procVars, key, kind, job, redis, req, rc, obs>>

\* Mutant: the handler returns an error after a successful send.
AfterSendError == "retry"

AfterSend == "done"

RecordJobCompleted(w) ==
  /\ wk[w].pc = "completed"
  /\ Goto(w, "return", AfterSend)
  /\ \/ DbUp /\ UpdateQueueJob(wk[w].id, "completed")
     \/ DbFails /\ UNCHANGED job
  /\ UNCHANGED <<procVars, status, waId, key, kind, redis, req, rc, obs>>

----------------------------------------------------------------------------
(* handleReceipt.  WhatsApp may deliver a receipt of an accepted message   *)
(* at any time, more than once and in any order.                           *)

ReceiptAdvances(st, s) ==
  \/ st = "delivered" /\ s = "sent"
  \/ st = "read" /\ s \in {"sent", "delivered"}

\* Mutant: handleReceipt does not take receiptMu.
ReceiptNoLock == TRUE

ReceiptLock == \A h \in Receivers : rc[h].pc = "idle"

\* A receipt names the WhatsApp id that the row holds now.
GetMessageByWAID(m) == waId[m] # 0

ReceiptRead(h) ==
  /\ proc \in {"up", "recovering"} /\ rc[h].pc = "idle"
  /\ ReceiptLock
  /\ \E m \in Ids, st \in {"delivered", "read"} :
       /\ GetMessageByWAID(m) /\ ReceiptAdvances(st, status[m])
       /\ rc' = [rc EXCEPT ![h] = [pc |-> "update", id |-> m, wa |-> waId[m], st |-> st]]
  /\ UNCHANGED <<procVars, db, redis, req, wk, obs>>

\* The event goes out even when the update matched no row.
ReceiptUpdate(h) ==
  /\ rc[h].pc = "update"
  /\ \/ /\ DbUp
        /\ UpdateMessageReceipt(rc[h].id, rc[h].wa, rc[h].st)
        /\ rc' = [rc EXCEPT ![h].pc = "dispatch"]
     \/ DbFails /\ rc' = [rc EXCEPT ![h] = IdleRc] /\ UNCHANGED status
  /\ UNCHANGED <<procVars, waId, key, kind, job, redis, req, wk, obs>>

\* SetDispatcher runs after Recover: until then nothing is published.
ReceiptDispatch(h) ==
  /\ rc[h].pc = "dispatch"
  /\ rc' = [rc EXCEPT ![h] = IdleRc]
  /\ published' = IF proc = "recovering" THEN published
                  ELSE published \cup {<<rc[h].id, rc[h].wa, rc[h].st>>}
  /\ UNCHANGED <<procVars, db, redis, req, wk, sends, answers>>
----------------------------------------------------------------------------
(* The process: crash, the shutdown of main, restart with Recover.         *)

GoroutinesDie ==
  /\ req' = [r \in Requests |-> IdleReq]
  /\ wk' = [w \in Workers |-> IdleWk]
  /\ rc' = [h \in Receivers |-> IdleRc]

Crash ==
  /\ "crash" \in Faults /\ proc # "down" /\ stops < MaxStops
  /\ proc' = "down" /\ stops' = stops + 1 /\ pend' = {}
  /\ GoroutinesDie
  /\ UNCHANGED <<db, redis, obs>>

\* server.Shutdown gives requests 15 s; then main closes the database while
\* the worker still runs.
CloseDatabase ==
  /\ "shutdown" \in Faults /\ proc = "up" /\ stops < MaxStops
  /\ proc' = "draining" /\ stops' = stops + 1
  /\ UNCHANGED <<pend, db, redis, req, wk, rc, obs>>

\* messageWorker.Shutdown puts the tasks of unfinished handlers back.
Exit ==
  /\ proc = "draining"
  /\ proc' = "down"
  /\ task' = [m \in Ids |->
       IF \E w \in Workers : wk[w].id = m /\ wk[w].live THEN "pending" ELSE task[m]]
  /\ GoroutinesDie
  /\ UNCHANGED <<stops, pend, db, tries, obs>>

\* ListPendingQueueJobs; main carries on without recovery when it fails.
Restart ==
  /\ proc = "down"
  /\ \/ /\ proc' = "recovering"
        /\ pend' \in SUBSET PendingQueueJobs
        /\ \/ pend' = PendingQueueJobs /\ Cardinality(pend') <= RecoverLimit
           \/ Cardinality(PendingQueueJobs) > RecoverLimit /\ Cardinality(pend') = RecoverLimit
     \/ "db" \in Faults /\ proc' = "up" /\ pend' = {}
  /\ UNCHANGED <<stops, db, redis, req, wk, rc, obs>>

\* A task that still has the id, archived ones included, is a conflict that
\* Recover skips.
RecoverJob(m) ==
  /\ proc = "recovering" /\ m \in pend
  /\ pend' = pend \ {m}
  /\ NewTask(m) \/ (task[m] # "none" /\ UNCHANGED redis)
  /\ UNCHANGED <<proc, stops, db, req, wk, rc, obs>>

\* Mutant: the loop of Recover is left only on an error.
RecoverEndsOnError == "redis" \in Faults

RecoverEnds == pend = {} \/ "redis" \in Faults

\* Recover ends with its list or with the first other error.
RecoverDone ==
  /\ proc = "recovering" /\ RecoverEnds
  /\ proc' = "up" /\ pend' = {}
  /\ UNCHANGED <<stops, db, redis, req, wk, rc, obs>>

----------------------------------------------------------------------------
HttpStep(r) ==
  \/ PutMessage(r) \/ FindExisting(r) \/ Enqueue(r) \/ DeleteRow(r)

HandlerStep(w) ==
  \/ LimiterWait(w) \/ LookupSender(w) \/ Send(w)
  \/ RecordFailed(w) \/ RecordJobFailed(w)
  \/ RecordSent(w) \/ RecordJobCompleted(w) \/ Return(w)

ReceiptStep(h) == ReceiptUpdate(h) \/ ReceiptDispatch(h)

Next ==
  \/ \E r \in Requests :
       SendMessage(r) \/ ResendMessage(r) \/ DeleteMessage(r) \/ HttpStep(r)
  \/ \E w \in Workers : TakeTask(w) \/ AbandonTask(w) \/ HandlerStep(w)
  \/ \E h \in Receivers : ReceiptRead(h) \/ ReceiptStep(h)
  \/ \E m \in Ids : PromoteRetry(m) \/ LeaseExpired(m) \/ RecoverJob(m)
  \/ Crash \/ CloseDatabase \/ Exit \/ Restart \/ RecoverDone

Spec == Init /\ [][Next]_vars

\* Goroutines run, Asynq schedules, and the supervisor restarts the process.
Fairness ==
  /\ \A r \in Requests : WF_vars(HttpStep(r))
  /\ \A w \in Workers : WF_vars(TakeTask(w)) /\ WF_vars(HandlerStep(w))
  /\ \A h \in Receivers : WF_vars(ReceiptStep(h))
  /\ \A m \in Ids : WF_vars(PromoteRetry(m)) /\ WF_vars(LeaseExpired(m))
                    /\ WF_vars(RecoverJob(m))
  /\ WF_vars(Exit) /\ WF_vars(Restart) /\ WF_vars(RecoverDone)

FairSpec == Spec /\ Fairness

----------------------------------------------------------------------------
(* Properties.                                                             *)

ReqType == [pc : {"idle", "put", "relook", "enqueue", "delete"}, id : Ids \cup {NoId},
            key : Keys \cup {NoKey}, kind : MessageKinds]
WkType == [pc : {"idle", "wait", "lookup", "send", "failed", "jobFailed", "sent",
                 "completed", "return"},
           id : Ids \cup {NoId}, live : BOOLEAN, wa : Nat, res : {"retry", "done"}]
RcType == [pc : {"idle", "update", "dispatch"}, id : Ids \cup {NoId}, wa : Nat,
           st : {"delivered", "read"}]

\* Every variable keeps the shape its table, task or goroutine has.
TypeOK ==
  /\ proc \in {"up", "draining", "down", "recovering"}
  /\ stops \in Nat /\ pend \subseteq Ids
  /\ status \in [Ids -> Statuses \cup {"none"}] /\ waId \in [Ids -> Nat]
  /\ key \in [Ids -> Keys \cup {NoKey}] /\ kind \in [Ids -> MessageKinds]
  /\ job \in [Ids -> {"none", "waiting", "completed", "failed"}]
  /\ task \in [Ids -> {"none", "pending", "active", "retry", "archived"}]
  /\ tries \in [Ids -> Nat] /\ sends \in [Ids -> Nat]
  /\ req \in [Requests -> ReqType] /\ wk \in [Workers -> WkType] /\ rc \in [Receivers -> RcType]
  /\ answers \subseteq [key : Keys \cup {NoKey}, id : Ids, code : {200, 202}]
  /\ published \subseteq Ids \X Nat \X {"delivered", "read"}

\* A message that is reported sent, delivered or read was accepted by
\* WhatsApp, and its wa_message_id is one that WhatsApp gave out for it; a
\* message in any other status has none.  (NewWorker stores the result of the
\* send of one attempt while other attempts, receipts and deletes interleave.)
SentWasAccepted ==
  \A m \in Ids :
    IF status[m] \in {"sent", "delivered", "read"}
      THEN waId[m] \in 1 .. sends[m]
      ELSE waId[m] = 0

\* Requests with one idempotency key are answered with one message, however
\* their lookups and inserts interleave, until that message is deleted.
SameKeySameMessage ==
  \A a, b \in answers :
    a.key = b.key /\ a.key # NoKey /\ a.id # b.id =>
      status[a.id] = "none" \/ status[b.id] = "none"

\* handleReceipt "makes WhatsApp receipts idempotent before publishing them":
\* no receipt event is published twice for one WhatsApp message id.
ReceiptPublishedOnce ==
  \A h \in Receivers :
    rc[h].pc = "dispatch" => <<rc[h].id, rc[h].wa, rc[h].st>> \notin published

\* A receipt only moves a message forward: to delivered from sent, to read
\* from sent or delivered, never out of failed or of a deleted row, although
\* the worker may change the row between the handler's read and its update.
ReceiptsMoveForward ==
  [][\A m \in Ids : status'[m] # status[m] =>
        /\ status'[m] = "delivered" => status[m] = "sent"
        /\ status'[m] = "read" => status[m] \in {"sent", "delivered"}]_status

\* However many handlers are abandoned, crash or lose their database, a
\* message is transmitted at most MaxRetry + 1 times per life of the process.
DuplicatesBounded ==
  \A m \in Ids : sends[m] <= (MaxRetry + 1) * (1 + stops)

\* Without lost answers, abandoned handlers and database errors, a message is
\* transmitted again only because the process stopped: failed attempts,
\* retries, the requeueing of a shutdown and Recover add no transmission.
AtMostOncePerLife == \A m \in Ids : sends[m] <= 1 + stops

\* A queued message is never forgotten: Asynq has a live task for it, or the
\* request that stored it is about to enqueue it, or the restart will find
\* its waiting queue_jobs row and re-enqueue it.
NoStrandedMessage ==
  \A m \in Ids : status[m] = "queued" =>
    \/ task[m] \in {"pending", "active", "retry"}
    \/ \E r \in Requests : req[r].pc = "enqueue" /\ req[r].id = m
    \/ /\ task[m] = "none" /\ job[m] = "waiting"
       /\ proc \in {"draining", "down"} \/ m \in pend

\* messages and queue_jobs agree on what is still to be done: a queued message
\* has its waiting row, the only one Recover looks for, wherever a crash or the
\* closing of the pool cuts the two UPDATEs of NewWorker apart.  (A failed
\* UPDATE of messages, whose error is ignored, does part them.)
QueuedIsWaiting == \A m \in Ids : status[m] = "queued" => job[m] = "waiting"

\* A stored message does not stay queued: it is sent or reported failed.
QueuedSettles == \A m \in Ids : status[m] = "queued" ~> status[m] # "queued"

\* A row that is gone was deleted; its queue_jobs row is still there.
ContractState ==
  [m \in Ids |-> IF status[m] # "none" THEN status[m]
                 ELSE IF job[m] = "none" THEN "new" ELSE "deleted"]

Contract == INSTANCE MessageContract WITH state <- ContractState

\* The pipeline implements the contract: no fault or interleaving takes a
\* message back to queued, deletes a queued one (deleteMessage checks the
\* status in an earlier statement), or calls an untransmitted message sent.
ContractSpec == Contract!Spec

----------------------------------------------------------------------------
(* What the repository says and the code does not do.                      *)

\* server.go:1306, "Message cannot be deleted while queued or processing": no
\* message is transmitted once it is deleted.
DeletedNotSent ==
  [][\A m \in Ids : status[m] = "none" => sends'[m] = sends[m]]_sends
=============================================================================
