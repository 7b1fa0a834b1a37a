----------------------- MODULE MessagePipelineProofs -----------------------
(***************************************************************************)
(* Proofs about MessagePipeline for every set of messages, keys, handlers  *)
(* and faults, and every retry limit.                                      *)
(***************************************************************************)
EXTENDS MessagePipeline, TLAPS

USE DEF procVars, db, redis, obs

----------------------------------------------------------------------------
(* Types.  A goroutine that is not idle works on a message: this makes     *)
(* every update by id an update of a known row.                            *)

ReqOK(v) == v \in ReqType /\ (v.pc # "idle" => v.id \in Ids)
WkOK(v) == v \in WkType /\ (v.pc # "idle" => v.id \in Ids) /\ (v.pc = "idle" => ~v.live)
RcOK(v) == v \in RcType /\ (v.pc # "idle" => v.id \in Ids)

TInv ==
  /\ TypeOK
  /\ \A r \in Requests : ReqOK(req[r])
  /\ \A w \in Workers : WkOK(wk[w])
  /\ \A h \in Receivers : RcOK(rc[h])

LEMMA IdleOK == ReqOK(IdleReq) /\ WkOK(IdleWk) /\ RcOK(IdleRc)
  BY Zenon DEF ReqOK, WkOK, RcOK, IdleReq, IdleWk, IdleRc, ReqType, WkType, RcType, MessageKinds

LEMMA TypeInit == Init => TInv
  BY SMTT(60), IdleOK, PipelineAssumption
  DEF Init, TInv, TypeOK, ReqOK, WkOK, RcOK, MessageKinds, Statuses

\* A step that gives one request handler a good state keeps the table good.
LEMMA ReqUpdate ==
  ASSUME TInv, NEW r \in Requests, NEW v, ReqOK(v), req' = [req EXCEPT ![r] = v]
  PROVE  req' \in [Requests -> ReqType] /\ \A q \in Requests : ReqOK(req'[q])
  BY ZenonT(60) DEF TInv, TypeOK, ReqOK

LEMMA WkUpdate ==
  ASSUME TInv, NEW w \in Workers, NEW v, WkOK(v), wk' = [wk EXCEPT ![w] = v]
  PROVE  wk' \in [Workers -> WkType] /\ \A u \in Workers : WkOK(wk'[u])
  BY ZenonT(60) DEF TInv, TypeOK, WkOK

LEMMA RcUpdate ==
  ASSUME TInv, NEW h \in Receivers, NEW v, RcOK(v), rc' = [rc EXCEPT ![h] = v]
  PROVE  rc' \in [Receivers -> RcType] /\ \A g \in Receivers : RcOK(rc'[g])
  BY ZenonT(60) DEF TInv, TypeOK, RcOK

LEMMA HttpType ==
  ASSUME TInv, NEW r \in Requests,
         SendMessage(r) \/ ResendMessage(r) \/ DeleteMessage(r) \/ HttpStep(r)
  PROVE  TInv'
<1> USE PipelineAssumption, IdleOK
<1> DEFINE ReqGood == req' \in [Requests -> ReqType] /\ \A q \in Requests : ReqOK(req'[q])
           AnsGood == answers' \subseteq [key : Keys \cup {NoKey}, id : Ids, code : {200, 202}]
<1>0. ReqOK(req[r]) /\ req[r] = [pc |-> req[r].pc, id |-> req[r].id, key |-> req[r].key,
                                 kind |-> req[r].kind]
  BY ZenonT(60) DEF TInv, TypeOK, ReqOK, ReqType
<1>1. CASE SendMessage(r)
  <2>1. ReqGood
    BY ZenonT(60), <1>1, ReqUpdate DEF SendMessage, Answer, Fresh, ReqOK, ReqType
  <2>2. AnsGood
    BY SMTT(60), <1>1 DEF SendMessage, Answer, Holders, TInv, TypeOK
  <2> QED
    BY ZenonT(60), <1>1, <2>1, <2>2 DEF SendMessage, TInv, TypeOK
<1>2. CASE ResendMessage(r)
  <2>1. ReqGood
    BY SMTT(60), <1>2, ReqUpdate DEF ResendMessage, Fresh, ReqOK, ReqType, MessageKinds, TInv, TypeOK
  <2> QED
    BY ZenonT(60), <1>2, <2>1 DEF ResendMessage, TInv, TypeOK
<1>3. CASE DeleteMessage(r)
  <2>1. ReqGood
    BY ZenonT(60), <1>3, ReqUpdate DEF DeleteMessage, IdleReq, ReqOK, ReqType, MessageKinds
  <2> QED
    BY ZenonT(60), <1>3, <2>1 DEF DeleteMessage, TInv, TypeOK
<1>4. CASE PutMessage(r)
  <2>1. req[r].id \in Ids
    BY Zenon, <1>0, <1>4 DEF ReqOK, PutMessage
  <2>2. \/ req' = [req EXCEPT ![r] = IdleReq]
        \/ \E p \in {"enqueue", "relook"} : req' = [req EXCEPT ![r] = [req[r] EXCEPT !.pc = p]]
    BY Zenon, <1>4 DEF PutMessage
  <2>3. \A p \in {"enqueue", "relook"} : ReqOK([req[r] EXCEPT !.pc = p])
    BY Zenon, <1>0, <2>1 DEF ReqOK, ReqType
  <2>4. ReqGood
    BY Zenon, <2>2, <2>3, ReqUpdate
  <2>5. /\ status' \in [Ids -> Statuses \cup {"none"}] /\ key' \in [Ids -> Keys \cup {NoKey}]
        /\ kind' \in [Ids -> MessageKinds] /\ waId' = waId
        /\ job' \in [Ids -> {"none", "waiting", "completed", "failed"}]
    BY SMTT(60), <1>0, <1>4, <2>1 DEF PutMessage, TInv, TypeOK, Statuses, ReqOK, ReqType
  <2> QED
    BY ZenonT(60), <1>4, <2>4, <2>5 DEF PutMessage, TInv, TypeOK
<1>5. CASE FindExisting(r)
  <2>1. ReqGood
    BY Zenon, <1>5, ReqUpdate DEF FindExisting, Answer
  <2>2. AnsGood
    BY SMTT(60), <1>0, <1>5 DEF FindExisting, Answer, Holders, ReqOK, ReqType, TInv, TypeOK
  <2> QED
    BY ZenonT(60), <1>5, <2>1, <2>2 DEF FindExisting, TInv, TypeOK
<1>6. CASE Enqueue(r)
  <2>1. ReqGood
    BY Zenon, <1>6, ReqUpdate DEF NewTask, Enqueue, Answer
  <2>2. AnsGood
    BY SMTT(60), <1>0, <1>6 DEF NewTask, Enqueue, Answer, ReqOK, ReqType, TInv, TypeOK
  <2> QED
    BY SMTT(60), <1>0, <1>6, <2>1, <2>2 DEF NewTask, Enqueue, ReqOK, TInv, TypeOK
<1>7. CASE DeleteRow(r)
  <2>1. ReqGood
    BY Zenon, <1>7, ReqUpdate DEF DeleteRow
  <2> QED
    BY SMTT(60), <1>0, <1>7, <2>1 DEF DeleteRow, ReqOK, TInv, TypeOK
<1> QED
  BY Zenon, <1>1, <1>2, <1>3, <1>4, <1>5, <1>6, <1>7 DEF HttpStep

LEMMA RetryOrArchiveType ==
  ASSUME TInv, NEW m \in Ids, RetryOrArchive(m)
  PROVE  /\ task' \in [Ids -> {"none", "pending", "active", "retry", "archived"}]
         /\ tries' \in [Ids -> Nat]
  BY SMTT(60) DEF TInv, TypeOK, RetryOrArchive

LEMMA UpdateMessageStatusType ==
  ASSUME TInv, NEW m \in Ids, NEW s \in Statuses, NEW wa \in Nat,
         UpdateMessageStatus(m, s, wa)
  PROVE  status' \in [Ids -> Statuses \cup {"none"}] /\ waId' \in [Ids -> Nat]
  BY SMTT(60) DEF TInv, TypeOK, UpdateMessageStatus

\* Goto keeps the id and the context of a handler that is not idle.
LEMMA GotoType ==
  ASSUME TInv, NEW w \in Workers, NEW pc, NEW res \in {"retry", "done"},
         pc \in {"wait", "lookup", "send", "failed", "jobFailed", "sent", "completed", "return"},
         wk[w].pc # "idle", Goto(w, pc, res)
  PROVE  wk' \in [Workers -> WkType] /\ \A u \in Workers : WkOK(wk'[u])
<1> DEFINE v == [wk[w] EXCEPT !.pc = pc, !.res = res]
<1>1. WkOK(v)
  BY ZenonT(60) DEF TInv, WkOK, WkType
<1>2. wk' = [wk EXCEPT ![w] = v]
  BY Zenon DEF Goto, TInv, TypeOK
<1> HIDE DEF v
<1> QED
  BY Zenon, <1>1, <1>2, WkUpdate

LEMMA HandlerType ==
  ASSUME TInv, NEW w \in Workers, TakeTask(w) \/ AbandonTask(w) \/ HandlerStep(w)
  PROVE  TInv'
<1> USE PipelineAssumption, IdleOK
<1> DEFINE WkGood == wk' \in [Workers -> WkType] /\ \A u \in Workers : WkOK(wk'[u])
<1>0. WkOK(wk[w])
  BY Zenon DEF TInv
<1>1. CASE TakeTask(w)
  <2>1. \A m \in Ids : WkOK([IdleWk EXCEPT !.pc = "wait", !.id = m, !.live = TRUE])
    BY Zenon DEF IdleWk, WkOK, WkType
  <2>2. WkGood
    BY Zenon, <1>1, <2>1, WkUpdate DEF TakeTask
  <2> QED
    BY ZenonT(60), <1>1, <2>2 DEF TakeTask, TInv, TypeOK
<1>2. CASE AbandonTask(w)
  <2>1. wk' = [wk EXCEPT ![w] = [wk[w] EXCEPT !.live = FALSE]]
    BY Zenon, <1>2 DEF AbandonTask
  <2>2. WkOK([wk[w] EXCEPT !.live = FALSE]) /\ wk[w].id \in Ids
    BY Zenon, <1>0, <1>2 DEF AbandonTask, WkOK, WkType
  <2>3. WkGood
    BY Zenon, <2>1, <2>2, WkUpdate
  <2> QED
    BY ZenonT(60), <1>2, <2>2, <2>3, RetryOrArchiveType DEF AbandonTask, TInv, TypeOK
<1>3. CASE LimiterWait(w)
  <2>1. WkGood
    BY Zenon, <1>3, GotoType DEF LimiterWait
  <2> QED
    BY ZenonT(60), <1>3, <2>1 DEF LimiterWait, TInv, TypeOK
<1>4. CASE LookupSender(w)
  <2>1. WkGood
    BY Zenon, <1>4, GotoType DEF LookupSender
  <2> QED
    BY ZenonT(60), <1>4, <2>1 DEF LookupSender, TInv, TypeOK
<1>5. CASE Send(w)
  <2> DEFINE v == [wk[w] EXCEPT !.pc = "sent", !.wa = sends[wk[w].id] + 1]
  <2>1. wk[w].id \in Ids /\ sends[wk[w].id] + 1 \in Nat /\ sends' \in [Ids -> Nat]
    BY SMTT(60), <1>0, <1>5 DEF Send, WkOK, TInv, TypeOK
  <2>2. WkOK(v)
    BY Zenon, <1>0, <2>1 DEF WkOK, WkType
  <2>3. ASSUME wk' = [wk EXCEPT ![w].pc = "sent", ![w].wa = sends[wk[w].id] + 1]
        PROVE  WkGood
    <3>1. wk' = [wk EXCEPT ![w] = v]
      BY ZenonT(60), <2>3 DEF TInv, TypeOK
    <3> HIDE DEF v
    <3> QED
      BY Zenon, <3>1, <2>2, WkUpdate
  <2>4. ASSUME Goto(w, "failed", "retry") \/ Goto(w, "failed", "done")
        PROVE  WkGood
    BY Zenon, <1>5, <2>4, GotoType DEF Send
  <2>5. WkGood
    BY Zenon, <1>5, <2>3, <2>4 DEF Send
  <2> QED
    BY ZenonT(60), <1>5, <2>1, <2>5 DEF Send, TInv, TypeOK
<1>6. CASE RecordFailed(w)
  <2>1. WkGood
    BY SMTT(60), <1>0, <1>6, GotoType DEF RecordFailed, AfterFailure, WkOK, WkType
  <2>2. status' \in [Ids -> Statuses \cup {"none"}] /\ waId' \in [Ids -> Nat]
    BY ZenonT(60), <1>0, <1>6, UpdateMessageStatusType DEF RecordFailed, AfterFailure, WkOK, Statuses, TInv, TypeOK
  <2> QED
    BY ZenonT(60), <1>6, <2>1, <2>2 DEF RecordFailed, AfterFailure, TInv, TypeOK
<1>7. CASE RecordJobFailed(w)
  <2>1. WkGood
    BY SMTT(60), <1>0, <1>7, GotoType DEF RecordJobFailed, WkOK, WkType
  <2> QED
    BY ZenonT(60), <1>0, <1>7, <2>1 DEF RecordJobFailed, UpdateQueueJob, WkOK, TInv, TypeOK
<1>8. CASE RecordSent(w)
  <2>1. WkGood
    BY Zenon, <1>8, GotoType DEF RecordSent
  <2>2. status' \in [Ids -> Statuses \cup {"none"}] /\ waId' \in [Ids -> Nat]
    BY ZenonT(60), <1>0, <1>8, UpdateMessageStatusType DEF RecordSent, WkOK, WkType, Statuses, TInv, TypeOK
  <2> QED
    BY ZenonT(60), <1>8, <2>1, <2>2 DEF RecordSent, TInv, TypeOK
<1>9. CASE RecordJobCompleted(w)
  <2>1. WkGood
    BY Zenon, <1>9, GotoType DEF RecordJobCompleted, AfterSend
  <2> QED
    BY ZenonT(60), <1>0, <1>9, <2>1 DEF RecordJobCompleted, AfterSend, UpdateQueueJob, WkOK, TInv, TypeOK
<1>10. CASE Return(w)
  <2>1. WkGood
    BY Zenon, <1>10, WkUpdate DEF Return
  <2>2. /\ task' \in [Ids -> {"none", "pending", "active", "retry", "archived"}]
        /\ tries' \in [Ids -> Nat]
    BY SMTT(60), <1>0, <1>10, RetryOrArchiveType DEF Return, WkOK, TInv, TypeOK
  <2> QED
    BY ZenonT(60), <1>10, <2>1, <2>2 DEF Return, TInv, TypeOK
<1> QED
  BY Zenon, <1>1, <1>2, <1>3, <1>4, <1>5, <1>6, <1>7, <1>8, <1>9, <1>10 DEF HandlerStep

LEMMA ReceiptType ==
  ASSUME TInv, NEW h \in Receivers, ReceiptRead(h) \/ ReceiptStep(h)
  PROVE  TInv'
<1> USE IdleOK
<1> DEFINE RcGood == rc' \in [Receivers -> RcType] /\ \A g \in Receivers : RcOK(rc'[g])
<1>0. RcOK(rc[h])
  BY Zenon DEF TInv
<1>1. CASE ReceiptRead(h)
  <2>1. RcGood
    BY SMTT(60), <1>1, RcUpdate DEF ReceiptRead, GetMessageByWAID, RcOK, RcType, TInv, TypeOK
  <2> QED
    BY ZenonT(60), <1>1, <2>1 DEF ReceiptRead, GetMessageByWAID, TInv, TypeOK
<1>2. CASE ReceiptUpdate(h)
  <2>1. RcOK([rc[h] EXCEPT !.pc = "dispatch"])
    BY Zenon, <1>0, <1>2 DEF ReceiptUpdate, RcOK, RcType
  <2>2. RcGood
    BY Zenon, <1>2, <2>1, RcUpdate DEF ReceiptUpdate
  <2>3. status' \in [Ids -> Statuses \cup {"none"}]
    BY ZenonT(60), <1>0, <1>2 DEF ReceiptUpdate, UpdateMessageReceipt, RcOK, RcType, Statuses, TInv, TypeOK
  <2> QED
    BY ZenonT(60), <1>2, <2>2, <2>3 DEF ReceiptUpdate, TInv, TypeOK
<1>3. CASE ReceiptDispatch(h)
  <2>1. RcGood
    BY Zenon, <1>3, RcUpdate DEF ReceiptDispatch
  <2>2. published' \subseteq Ids \X Nat \X {"delivered", "read"}
    BY SMTT(60), <1>0, <1>3 DEF ReceiptDispatch, RcOK, RcType, TInv, TypeOK
  <2> QED
    BY ZenonT(60), <1>3, <2>1, <2>2 DEF ReceiptDispatch, TInv, TypeOK
<1> QED
  BY Zenon, <1>1, <1>2, <1>3 DEF ReceiptStep

LEMMA ProcessType ==
  ASSUME TInv,
         \/ \E m \in Ids : PromoteRetry(m) \/ LeaseExpired(m) \/ RecoverJob(m)
         \/ Crash \/ CloseDatabase \/ Exit \/ Restart \/ RecoverDone
  PROVE  TInv'
<1> USE IdleOK
<1>1. ASSUME NEW m \in Ids, PromoteRetry(m)
      PROVE  TInv'
  BY ZenonT(60), <1>1 DEF PromoteRetry, TInv, TypeOK
<1>2. ASSUME NEW m \in Ids, LeaseExpired(m)
      PROVE  TInv'
  BY ZenonT(60), <1>2, RetryOrArchiveType DEF LeaseExpired, Orphaned, TInv, TypeOK
<1>3. ASSUME NEW m \in Ids, RecoverJob(m)
      PROVE  TInv'
  BY SMTT(60), <1>3 DEF NewTask, RecoverJob, TInv, TypeOK
<1>4. CASE Crash
  BY SMTT(60), <1>4, PipelineAssumption DEF Crash, GoroutinesDie, ReqOK, WkOK, RcOK, TInv, TypeOK
<1>5. CASE CloseDatabase
  BY SMTT(60), <1>5 DEF CloseDatabase, TInv, TypeOK
<1>6. CASE Exit
  BY SMTT(60), <1>6 DEF Exit, GoroutinesDie, ReqOK, WkOK, RcOK, TInv, TypeOK
<1>7. CASE Restart
  BY ZenonT(60), <1>7 DEF Restart, PendingQueueJobs, TInv, TypeOK
<1>8. CASE RecoverDone
  BY ZenonT(60), <1>8 DEF RecoverDone, TInv, TypeOK
<1> QED
  BY Zenon, <1>1, <1>2, <1>3, <1>4, <1>5, <1>6, <1>7, <1>8

LEMMA TypeStep == TInv /\ [Next]_vars => TInv'
<1> SUFFICES ASSUME TInv, [Next]_vars PROVE TInv'
  BY Zenon
<1>1. CASE UNCHANGED vars
  BY ZenonT(60), <1>1 DEF vars, TInv, TypeOK
<1>2. CASE Next
  BY Zenon, <1>2, HttpType, HandlerType, ReceiptType, ProcessType DEF Next
<1> QED
  BY Zenon, <1>1, <1>2

LEMMA TypeInvariant == Spec => []TInv
  BY TypeInit, TypeStep, PTL DEF Spec

\* TypeOK holds in every state of every instance of the pipeline: what the
\* handlers, the worker and the receipts write fits its table, task or goroutine.
THEOREM TypeCorrect == Spec => []TypeOK
  BY TypeInvariant, PTL DEF TInv

----------------------------------------------------------------------------
(* Handlers.  OneLiveHandler is inductive on top of the types: a live      *)
(* handler has an active task, and every action that hands a task out      *)
(* finds it in another state or first cancels its handler.                 *)

OneLiveHandler ==
  /\ \A v, w \in Workers : wk[v].live /\ wk[w].live /\ wk[v].id = wk[w].id => v = w
  /\ \A w \in Workers : wk[w].live => task[wk[w].id] = "active"

\* A step of the handler that keeps its message, its context and the tasks.
LEMMA LiveKept ==
  ASSUME OneLiveHandler, task' = task,
         \A w \in Workers : wk'[w].id = wk[w].id /\ wk'[w].live = wk[w].live
  PROVE  OneLiveHandler'
  BY ZenonT(60) DEF OneLiveHandler

LEMMA GotoKeeps ==
  ASSUME TInv, NEW w \in Workers, NEW pc, NEW res, Goto(w, pc, res)
  PROVE  \A u \in Workers : wk'[u].id = wk[u].id /\ wk'[u].live = wk[u].live
  BY SMTT(60) DEF Goto, TInv, TypeOK, WkType

LEMMA LiveStep == TInv /\ OneLiveHandler /\ [Next]_vars => OneLiveHandler'
<1> SUFFICES ASSUME TInv, OneLiveHandler, [Next]_vars PROVE OneLiveHandler'
  BY Zenon
<1>0. \A w \in Workers : wk[w].live => wk[w].id \in Ids
  BY Zenon DEF TInv, WkOK
<1>1. CASE UNCHANGED <<wk, task>>
  BY Zenon, <1>1, LiveKept
<1>2. ASSUME NEW r \in Requests, Enqueue(r)
      PROVE  OneLiveHandler'
  BY ZenonT(60), <1>0, <1>2 DEF NewTask, Enqueue, Answer, OneLiveHandler, TInv, TypeOK
<1>3. ASSUME NEW m \in Ids, PromoteRetry(m) \/ LeaseExpired(m) \/ RecoverJob(m)
      PROVE  OneLiveHandler'
  BY SMTT(60), <1>0, <1>3
  DEF NewTask, PromoteRetry, LeaseExpired, Orphaned, RecoverJob, RetryOrArchive, OneLiveHandler, TInv, TypeOK
<1>4. ASSUME NEW w \in Workers, TakeTask(w)
      PROVE  OneLiveHandler'
  <2>1. PICK m \in Ids :
          /\ task[m] = "pending"
          /\ task' = [task EXCEPT ![m] = "active"]
          /\ wk' = [wk EXCEPT ![w] = [IdleWk EXCEPT !.pc = "wait", !.id = m, !.live = TRUE]]
    BY Zenon, <1>4 DEF TakeTask
  <2>2. wk'[w].id = m /\ \A u \in Workers \ {w} : wk'[u] = wk[u]
    BY ZenonT(60), <2>1 DEF IdleWk, TInv, TypeOK
  <2> QED
    BY SMTT(60), <1>0, <2>1, <2>2 DEF OneLiveHandler, TInv, TypeOK
<1>5. ASSUME NEW w \in Workers, AbandonTask(w) \/ Return(w)
      PROVE  OneLiveHandler'
  <2>1. ~wk'[w].live /\ \A u \in Workers \ {w} : wk'[u] = wk[u]
    BY SMTT(60), <1>5 DEF AbandonTask, Return, IdleWk, TInv, TypeOK, WkType
  <2>2. \A m \in Ids : task'[m] = task[m] \/ (wk[w].live /\ m = wk[w].id)
    BY ZenonT(60), <1>5 DEF AbandonTask, Return, RetryOrArchive, TInv, TypeOK
  <2> QED
    BY SMTT(60), <1>0, <2>1, <2>2 DEF OneLiveHandler
<1>6. ASSUME NEW w \in Workers, HandlerStep(w), ~Return(w)
      PROVE  OneLiveHandler'
  <2>1. task' = task
    BY Zenon, <1>6 DEF HandlerStep, LimiterWait, LookupSender, Send, RecordFailed, AfterFailure, RecordJobFailed,
                RecordSent, RecordJobCompleted, AfterSend
  <2>2. CASE Send(w)
    BY SMTT(60), <2>1, <2>2, LiveKept, GotoKeeps DEF Send, TInv, TypeOK, WkType
  <2>3. CASE ~Send(w)
    BY Zenon, <1>6, <2>1, <2>3, LiveKept, GotoKeeps
    DEF HandlerStep, LimiterWait, LookupSender, RecordFailed, AfterFailure, RecordJobFailed, RecordSent,
        RecordJobCompleted, AfterSend
  <2> QED
    BY Zenon, <2>2, <2>3
<1>7. CASE Crash \/ Exit
  BY SMTT(60), <1>7 DEF Crash, Exit, GoroutinesDie, IdleWk, OneLiveHandler
<1>8. CASE \/ \E r \in Requests :
                SendMessage(r) \/ ResendMessage(r) \/ DeleteMessage(r) \/ PutMessage(r)
                \/ FindExisting(r) \/ DeleteRow(r)
           \/ \E h \in Receivers : ReceiptRead(h) \/ ReceiptStep(h)
           \/ CloseDatabase \/ Restart \/ RecoverDone
  BY ZenonT(60), <1>1, <1>8 DEF SendMessage, ResendMessage, DeleteMessage, PutMessage, FindExisting,
     DeleteRow, ReceiptRead, ReceiptStep, ReceiptUpdate, ReceiptDispatch, CloseDatabase,
     Restart, RecoverDone
<1> QED
  BY Zenon, <1>1, <1>2, <1>3, <1>4, <1>5, <1>6, <1>7, <1>8 DEF Next, HttpStep, HandlerStep, vars

\* Retries, lease recovery, the requeueing of a shutdown and Recover never
\* hand one message to two handlers that Asynq still waits for.
LEMMA OneLiveHandlerAlways == Spec => []OneLiveHandler
<1>1. Init => OneLiveHandler
  BY SMTT(60) DEF Init, OneLiveHandler, IdleWk
<1> QED
  BY <1>1, TypeInvariant, LiveStep, PTL DEF Spec

----------------------------------------------------------------------------
(* Rows.  A request that is about to insert has an id of its own; whatever *)
(* is enqueued, running or to be recovered has a queue_jobs row; only a    *)
(* message that left queued is deleted.                                    *)

Stored(m) == job[m] # "none"

RowInv ==
  /\ \A m \in Ids : status[m] # "none" => Stored(m)
  /\ \A m \in Ids : task[m] # "none" => Stored(m)
  /\ \A m \in pend : Stored(m)
  /\ \A r \in Requests : req[r].pc = "put" => ~Stored(req[r].id)
  /\ \A r, q \in Requests :
       req[r].pc = "put" /\ req[q].pc = "put" /\ req[r].id = req[q].id => r = q
  /\ \A r \in Requests : req[r].pc \in {"enqueue", "delete"} => Stored(req[r].id)
  /\ \A r \in Requests : req[r].pc = "delete" => status[req[r].id] # "queued"
  /\ \A w \in Workers : wk[w].pc # "idle" => Stored(wk[w].id)

LEMMA RowHttp ==
  ASSUME TInv, RowInv, NEW r \in Requests,
         SendMessage(r) \/ ResendMessage(r) \/ DeleteMessage(r) \/ HttpStep(r)
  PROVE  RowInv'
<1> USE DEF RowInv, Stored, IdleReq
<1>0. /\ req \in [Requests -> ReqType] /\ \A q \in Requests : req[q].pc # "idle" => req[q].id \in Ids
      /\ status \in [Ids -> Statuses \cup {"none"}]
      /\ job \in [Ids -> {"none", "waiting", "completed", "failed"}]
      /\ task \in [Ids -> {"none", "pending", "active", "retry", "archived"}]
      /\ \A w \in Workers : wk[w].pc # "idle" => wk[w].id \in Ids
      /\ pend \subseteq Ids
  BY ZenonT(60) DEF TInv, TypeOK, ReqOK, WkOK
<1>1. CASE SendMessage(r) \/ ResendMessage(r) \/ FindExisting(r)
  <2>1. UNCHANGED <<pend, status, job, task, wk>>
    BY Zenon, <1>1 DEF SendMessage, ResendMessage, FindExisting, procVars, db, redis
  <2>2. \A q \in Requests \ {r} : req'[q] = req[q]
    BY ZenonT(60), <1>0, <1>1 DEF SendMessage, ResendMessage, FindExisting, Answer
  <2>3. \/ req'[r].pc = "idle"
        \/ req'[r].pc = "put" /\ req'[r].id \in Fresh
        \/ req'[r].pc = "relook"
    BY SMTT(60), <1>0, <1>1 DEF SendMessage, ResendMessage, FindExisting, Answer
  <2> QED
    BY SMTT(60), <1>0, <2>1, <2>2, <2>3 DEF Fresh
<1>3. CASE DeleteMessage(r)
  <2>1. PICK m \in Ids : /\ status[m] \notin {"none", "queued", "processing"}
                         /\ req' = [req EXCEPT ![r] = [IdleReq EXCEPT !.pc = "delete", !.id = m]]
    BY Zenon, <1>3 DEF DeleteMessage
  <2>2. req'[r].pc = "delete" /\ req'[r].id = m /\ \A q \in Requests \ {r} : req'[q] = req[q]
    BY ZenonT(60), <1>0, <2>1
  <2>3. UNCHANGED <<procVars, db, redis, wk>>
    BY Zenon, <1>3 DEF DeleteMessage
  <2> QED
    BY SMTT(60), <1>0, <2>1, <2>2, <2>3
<1>4. CASE PutMessage(r)
  <2>1. UNCHANGED <<pend, task, wk>> /\ req[r].pc = "put"
    BY Zenon, <1>4 DEF PutMessage, procVars, redis
  <2>2. \A q \in Requests \ {r} : req'[q] = req[q]
    BY SMTT(60), <1>0, <1>4 DEF PutMessage
  <2>3. \/ /\ UNCHANGED <<status, job>>
           /\ req'[r].pc \in {"idle", "relook"}
        \/ /\ status' = [status EXCEPT ![req[r].id] = "queued"]
           /\ job' = [job EXCEPT ![req[r].id] = "waiting"]
           /\ req'[r].pc = "enqueue" /\ req'[r].id = req[r].id
    BY SMTT(60), <1>0, <1>4 DEF PutMessage, ReqType, db
  <2>4. CASE UNCHANGED <<status, job>> /\ req'[r].pc \in {"idle", "relook"}
    BY SMTT(60), <1>0, <2>1, <2>2, <2>4
  <2>5. ASSUME status' = [status EXCEPT ![req[r].id] = "queued"],
               job' = [job EXCEPT ![req[r].id] = "waiting"],
               req'[r].pc = "enqueue" /\ req'[r].id = req[r].id
        PROVE  RowInv'
    <3>1. \A m \in Ids \ {req[r].id} : job'[m] = job[m] /\ status'[m] = status[m]
      BY ZenonT(60), <1>0, <2>5
    <3>2. req[r].id \in Ids /\ job'[req[r].id] = "waiting"
      BY Zenon, <1>0, <2>1, <2>5
    <3> QED
      BY SMTT(60), <1>0, <2>1, <2>2, <2>5, <3>1, <3>2
  <2> QED
    BY Zenon, <2>3, <2>4, <2>5
<1>6. CASE Enqueue(r)
  BY SMTT(60), <1>0, <1>6 DEF NewTask, Enqueue, Answer
<1>7. CASE DeleteRow(r)
  BY SMTT(60), <1>0, <1>7 DEF DeleteRow
<1> QED
  BY Zenon, <1>1, <1>3, <1>4, <1>6, <1>7 DEF HttpStep

\* Handlers write rows that exist and never put one back to queued.
LEMMA RowHandler ==
  ASSUME TInv, TInv', RowInv, NEW w \in Workers, TakeTask(w) \/ AbandonTask(w) \/ HandlerStep(w)
  PROVE  RowInv'
<1>0. UNCHANGED <<req, pend>>
  BY Zenon DEF TakeTask, AbandonTask, HandlerStep, LimiterWait, LookupSender, Send, RecordFailed, AfterFailure,
         RecordJobFailed, RecordSent, RecordJobCompleted, AfterSend, Return
<1>1. \/ job' = job
      \/ wk[w].pc # "idle" /\ \E s \in {"failed", "completed"} : UpdateQueueJob(wk[w].id, s)
  BY Zenon DEF TakeTask, AbandonTask, HandlerStep, LimiterWait, LookupSender, Send, RecordFailed, AfterFailure,
         RecordJobFailed, RecordSent, RecordJobCompleted, AfterSend, Return
<1>2. \A m \in Ids : Stored(m) <=> Stored(m)'
  <2>1. job \in [Ids -> {"none", "waiting", "completed", "failed"}]
    BY Zenon DEF TInv, TypeOK
  <2>2. wk[w].pc # "idle" => job[wk[w].id] # "none"
    BY Zenon DEF RowInv, Stored
  <2> QED
    BY Zenon, <1>1, <2>1, <2>2 DEF Stored, UpdateQueueJob
<1>3. \A m \in Ids : status'[m] = status[m] \/ (status[m] # "none" /\ status'[m] # "queued")
  BY ZenonT(60) DEF TakeTask, AbandonTask, HandlerStep, LimiterWait, LookupSender, Send,
         RecordFailed, AfterFailure, RecordJobFailed, RecordSent, RecordJobCompleted, AfterSend, Return,
         UpdateMessageStatus, TInv, TypeOK
<1>4. \A m \in Ids : task'[m] # "none" => task[m] # "none" \/ (wk[w].pc # "idle" /\ m = wk[w].id)
  <2>1. \/ task' = task
        \/ \E m \in Ids : task[m] # "none" /\ task' = [task EXCEPT ![m] = "active"]
        \/ wk[w].pc # "idle" /\ RetryOrArchive(wk[w].id)
        \/ task' = [task EXCEPT ![wk[w].id] = "none"]
    BY Zenon DEF TakeTask, AbandonTask, HandlerStep, LimiterWait, LookupSender, Send, RecordFailed, AfterFailure,
           RecordJobFailed, RecordSent, RecordJobCompleted, AfterSend, Return
  <2> QED
    BY ZenonT(120), <2>1 DEF RetryOrArchive, TInv, TypeOK
<1>5. \A u \in Workers : wk'[u].pc # "idle" => Stored(wk'[u].id)
  <2>1. CASE TakeTask(w)
    <3>1. PICK m \in Ids :
            /\ task[m] = "pending"
            /\ wk' = [wk EXCEPT ![w] = [IdleWk EXCEPT !.pc = "wait", !.id = m, !.live = TRUE]]
      BY Zenon, <2>1 DEF TakeTask
    <3>2. wk'[w].id = m /\ \A u \in Workers \ {w} : wk'[u] = wk[u]
      BY SMTT(60), <3>1 DEF IdleWk, TInv, TypeOK
    <3> QED
      BY Zenon, <3>1, <3>2 DEF RowInv
  <2>2. CASE AbandonTask(w) \/ Return(w)
    BY SMTT(60), <2>2 DEF AbandonTask, Return, RowInv, IdleWk, WkType, TInv, TypeOK
  <2>4. CASE Send(w)
    <3>1. wk[w].pc # "idle" /\ wk'[w].id = wk[w].id /\ \A u \in Workers \ {w} : wk'[u] = wk[u]
      BY SMTT(60), <2>4 DEF Send, Goto, WkType, TInv, TypeOK
    <3> QED
      BY Zenon, <3>1 DEF RowInv
  <2>3. CASE HandlerStep(w) /\ ~Return(w) /\ ~Send(w)
    <3>1. wk[w].pc # "idle" /\ \E pc, res : Goto(w, pc, res)
      BY Zenon, <2>3 DEF HandlerStep, LimiterWait, LookupSender, RecordFailed, AfterFailure, RecordJobFailed,
                  RecordSent, RecordJobCompleted, AfterSend
    <3> QED
      BY SMTT(60), <3>1 DEF Goto, RowInv, WkType, TInv, TypeOK
  <2> QED
    BY Zenon, <2>1, <2>2, <2>3, <2>4 DEF HandlerStep
<1> QED
  BY SMTT(60), <1>0, <1>2, <1>3, <1>4, <1>5 DEF RowInv, TInv, TypeOK, ReqOK, WkOK

LEMMA RowRest ==
  ASSUME TInv, RowInv,
         \/ \E h \in Receivers : ReceiptRead(h) \/ ReceiptStep(h)
         \/ \E m \in Ids : PromoteRetry(m) \/ LeaseExpired(m) \/ RecoverJob(m)
         \/ Crash \/ CloseDatabase \/ Exit \/ Restart \/ RecoverDone
  PROVE  RowInv'
<1> USE DEF RowInv, Stored, TInv, TypeOK
<1>1. ASSUME NEW h \in Receivers, ReceiptRead(h) \/ ReceiptStep(h)
      PROVE  RowInv'
  BY SMTT(60), <1>1 DEF ReceiptRead, GetMessageByWAID, ReceiptStep, ReceiptUpdate, UpdateMessageReceipt, ReceiptDispatch,
     RcOK, RcType, ReqOK
<1>2. ASSUME NEW m \in Ids, PromoteRetry(m) \/ LeaseExpired(m) \/ RecoverJob(m)
      PROVE  RowInv'
  <2>1. UNCHANGED <<status, job, req, wk>> /\ pend' \subseteq pend
    BY Zenon, <1>2 DEF NewTask, PromoteRetry, LeaseExpired, Orphaned, RecoverJob, procVars, db
  <2>2. task[m] # "none" \/ m \in pend
    BY Zenon, <1>2 DEF NewTask, PromoteRetry, LeaseExpired, Orphaned, RecoverJob
  <2>3. \A o \in Ids \ {m} : task'[o] = task[o]
    BY ZenonT(60), <1>2 DEF NewTask, PromoteRetry, LeaseExpired, Orphaned, RecoverJob, RetryOrArchive, redis
  <2> QED
    BY ZenonT(60), <2>1, <2>2, <2>3
<1>3. CASE Crash
  BY ZenonT(60), <1>3 DEF Crash, GoroutinesDie, IdleReq, IdleWk
<1>5. CASE Exit
  <2>1. \A m \in Ids : task'[m] # "none" => Stored(m)
    BY Zenon, <1>5 DEF Exit, WkOK
  <2> QED
    BY ZenonT(60), <1>5, <2>1 DEF Exit, GoroutinesDie, IdleReq, IdleWk
<1>4. CASE CloseDatabase \/ Restart \/ RecoverDone
  BY SMTT(60), <1>4 DEF CloseDatabase, Restart, PendingQueueJobs, RecoverDone
<1> QED
  BY ZenonT(60), <1>1, <1>2, <1>3, <1>4, <1>5

LEMMA RowInvariant == Spec => []RowInv
<1>1. Init => RowInv
  BY SMTT(60) DEF Init, RowInv, Stored, IdleReq, IdleWk
<1>2. TInv /\ TInv' /\ RowInv /\ [Next]_vars => RowInv'
  <2>1. RowInv /\ UNCHANGED vars => RowInv'
    BY Zenon DEF vars, RowInv, Stored
  <2> QED
    BY Zenon, <2>1, RowHttp, RowHandler, RowRest DEF Next
<1> QED
  BY <1>1, <1>2, TypeInvariant, PTL DEF Spec

----------------------------------------------------------------------------
(* What a step can do to a row and to the transmissions.  The properties   *)
(* of messages below are about these six effects instead of the actions.   *)

Write(m, s, n) == status' = [status EXCEPT ![m] = s] /\ waId' = [waId EXCEPT ![m] = n]

StoredKept == \A m \in Ids : Stored(m)' <=> Stored(m)

Quiet == UNCHANGED <<status, waId, sends>> /\ StoredKept

Transmitted(w) ==
  /\ Send(w) /\ wk[w].id \in Ids
  /\ sends' = [sends EXCEPT ![wk[w].id] = @ + 1]
  /\ UNCHANGED <<status, waId>> /\ StoredKept

Inserted(m) ==
  /\ ~Stored(m) /\ \A n \in Ids : Stored(n)' <=> Stored(n) \/ n = m
  /\ Write(m, "queued", waId[m]) /\ UNCHANGED <<sends, wk>>

Erased(m) ==
  /\ Stored(m) /\ status[m] # "queued" /\ StoredKept
  /\ Write(m, "none", 0) /\ UNCHANGED <<sends, wk>>

Attempted(w, m) ==
  /\ status[m] # "none" /\ StoredKept /\ UNCHANGED sends
  /\ wk[w].id = m /\ wk'[w].pc # "sent"
  /\ \/ Write(m, "failed", 0)
     \/ wk[w].pc = "sent" /\ Write(m, "sent", wk[w].wa)

Acknowledged(h, m) ==
  /\ rc[h].pc = "update" /\ rc[h].id = m /\ waId[m] = rc[h].wa
  /\ status[m] \in {"sent", "delivered"} /\ StoredKept
  /\ Write(m, rc[h].st, waId[m]) /\ UNCHANGED <<sends, wk>>

Effect ==
  \/ Quiet
  \/ \E w \in Workers : Transmitted(w)
  \/ \E m \in Ids : \/ Inserted(m) \/ Erased(m)
                    \/ \E w \in Workers : Attempted(w, m)
                    \/ \E h \in Receivers : Acknowledged(h, m)

LEMMA EffectHttp ==
  ASSUME TInv, RowInv, NEW r \in Requests,
         SendMessage(r) \/ ResendMessage(r) \/ DeleteMessage(r) \/ HttpStep(r)
  PROVE  Effect
<1>1. CASE UNCHANGED <<db, sends>>
  BY Zenon, <1>1 DEF Effect, Quiet, StoredKept, Stored
<1>2. CASE PutMessage(r) /\ ~UNCHANGED <<db, sends>>
  <2>1. req[r].id \in Ids
    BY Zenon, <1>2 DEF PutMessage, TInv, ReqOK
  <2>2. Inserted(req[r].id)
    BY SMTT(60), <1>2, <2>1 DEF PutMessage, Inserted, Stored, Write, RowInv, TInv, TypeOK
  <2> QED
    BY Zenon, <2>1, <2>2 DEF Effect
<1>3. CASE DeleteRow(r) /\ ~UNCHANGED <<db, sends>>
  <2>1. req[r].id \in Ids
    BY Zenon, <1>3 DEF DeleteRow, TInv, ReqOK
  <2>2. Erased(req[r].id)
    BY Zenon, <1>3, <2>1 DEF DeleteRow, Erased, Stored, StoredKept, Write, RowInv
  <2> QED
    BY Zenon, <2>1, <2>2 DEF Effect
<1> QED
  BY Zenon, <1>1, <1>2, <1>3 DEF NewTask, HttpStep, SendMessage, ResendMessage, DeleteMessage, FindExisting, Enqueue

LEMMA EffectHandler ==
  ASSUME TInv, RowInv, NEW w \in Workers, TakeTask(w) \/ AbandonTask(w) \/ HandlerStep(w)
  PROVE  Effect
<1> DEFINE m == wk[w].id
<1>1. CASE UNCHANGED <<db, sends>>
  BY Zenon, <1>1 DEF Effect, Quiet, StoredKept, Stored
<1>2. CASE Send(w) /\ ~UNCHANGED <<db, sends>>
  <2>1. Transmitted(w)
    BY Zenon, <1>2 DEF Send, Transmitted, StoredKept, Stored, TInv, WkOK
  <2> QED
    BY Zenon, <2>1 DEF Effect
<1>3. CASE RecordFailed(w) \/ RecordSent(w)
  <2>1. m \in Ids /\ UNCHANGED <<job, sends>> /\ wk[w].wa \in Nat
    BY Zenon, <1>3 DEF RecordFailed, AfterFailure, RecordSent, TInv, WkOK, WkType
  <2>2. wk'[w].pc # "sent"
    BY SMTT(60), <1>3 DEF RecordFailed, AfterFailure, RecordSent, Goto, TInv, TypeOK, WkType
  <2>3. CASE UNCHANGED <<status, waId>>
    BY Zenon, <2>1, <2>3 DEF Effect, Quiet, StoredKept, Stored
  <2>4. CASE ~UNCHANGED <<status, waId>>
    <3>1. Attempted(w, m)
      BY Zenon, <1>3, <2>1, <2>2, <2>4
      DEF RecordFailed, AfterFailure, RecordSent, UpdateMessageStatus, Attempted, Write, StoredKept, Stored
    <3> QED
      BY Zenon, <2>1, <3>1 DEF Effect
  <2> QED
    BY Zenon, <2>3, <2>4
<1>4. CASE RecordJobFailed(w) \/ RecordJobCompleted(w)
  <2>1. UNCHANGED <<status, waId, sends>>
    BY ZenonT(60), <1>4 DEF RecordJobFailed, RecordJobCompleted, AfterSend
  <2>2. StoredKept
    BY SMTT(60), <1>4 DEF RecordJobFailed, RecordJobCompleted, AfterSend, UpdateQueueJob, StoredKept, Stored,
                RowInv, TInv, TypeOK
  <2> QED
    BY Zenon, <2>1, <2>2 DEF Effect, Quiet
<1> QED
  BY Zenon, <1>1, <1>2, <1>3, <1>4
  DEF TakeTask, AbandonTask, HandlerStep, LimiterWait, LookupSender, Return

LEMMA StepEffect == TInv /\ RowInv /\ [Next]_vars => Effect
<1> SUFFICES ASSUME TInv, RowInv, [Next]_vars PROVE Effect
  BY Zenon
<1>1. CASE UNCHANGED <<db, sends>>
  BY Zenon, <1>1 DEF Effect, Quiet, StoredKept, Stored
<1>2. ASSUME NEW h \in Receivers, ReceiptUpdate(h), ~UNCHANGED <<db, sends>>
      PROVE  Effect
  <2>1. rc[h].id \in Ids
    BY Zenon, <1>2 DEF ReceiptUpdate, TInv, RcOK
  <2>2. Acknowledged(h, rc[h].id)
    BY Zenon, <1>2, <2>1 DEF ReceiptUpdate, UpdateMessageReceipt, Acknowledged, Write, StoredKept,
                      Stored, TInv, TypeOK
  <2> QED
    BY Zenon, <2>1, <2>2 DEF Effect
<1>3. CASE \/ \E h \in Receivers : ReceiptRead(h) \/ ReceiptDispatch(h)
           \/ \E m \in Ids : PromoteRetry(m) \/ LeaseExpired(m) \/ RecoverJob(m)
           \/ Crash \/ CloseDatabase \/ Exit \/ Restart \/ RecoverDone
  BY Zenon, <1>1, <1>3 DEF NewTask, ReceiptRead, GetMessageByWAID, ReceiptDispatch, PromoteRetry, LeaseExpired, Orphaned, RecoverJob,
     Crash, CloseDatabase, Exit, Restart, RecoverDone
<1> QED
  BY Zenon, <1>1, <1>2, <1>3, EffectHttp, EffectHandler DEF Next, ReceiptStep, vars

----------------------------------------------------------------------------
(* SentWasAccepted.  The strengthening is about the handler that has sent  *)
(* and not stored yet: the id it carries is one WhatsApp gave out.         *)

\* A handler is at "sent" because it was, or because it has just sent.
LEMMA SentPcs ==
  ASSUME TInv, [Next]_vars, NEW u \in Workers, wk'[u].pc = "sent"
  PROVE  /\ wk'[u].id = wk[u].id /\ wk[u].id \in Ids
         /\ \/ wk[u].pc = "sent" /\ wk'[u].wa = wk[u].wa
            \/ wk[u].pc = "send" /\ Transmitted(u) /\ wk'[u].wa = sends[wk[u].id] + 1
<1>0. wk \in [Workers -> WkType] /\ WkOK(wk[u])
  BY Zenon DEF TInv, TypeOK
<1>1. CASE wk' = wk
  BY Zenon, <1>0, <1>1 DEF WkOK
<1>2. ASSUME NEW w \in Workers, TakeTask(w) \/ AbandonTask(w) \/ Return(w)
      PROVE  wk'[u].id = wk[u].id /\ wk[u].pc = "sent" /\ wk'[u].wa = wk[u].wa
  <2>1. CASE TakeTask(w)
    <3>1. wk'[w].pc = "wait" /\ (u # w => wk'[u] = wk[u])
      BY Zenon, <1>0, <2>1 DEF TakeTask, IdleWk
    <3> QED
      BY Zenon, <3>1
  <2>2. CASE AbandonTask(w)
    BY Zenon, <1>0, <2>2 DEF AbandonTask, WkType
  <2>3. CASE Return(w)
    BY Zenon, <1>0, <2>3 DEF Return, IdleWk
  <2> QED
    BY Zenon, <1>2, <2>1, <2>2, <2>3
<1>3. ASSUME NEW w \in Workers, HandlerStep(w), ~Return(w), ~Send(w)
      PROVE  wk'[u].id = wk[u].id /\ wk[u].pc = "sent" /\ wk'[u].wa = wk[u].wa
  <2>1. \E pc \in {"lookup", "send", "failed", "jobFailed", "completed", "return"} : \E res :
          Goto(w, pc, res)
    BY Zenon, <1>3 DEF HandlerStep, LimiterWait, LookupSender, RecordFailed, AfterFailure, RecordJobFailed,
                RecordSent, RecordJobCompleted, AfterSend
  <2> QED
    BY ZenonT(60), <1>0, <2>1 DEF Goto, WkType
<1>4. ASSUME NEW w \in Workers, Send(w), w # u
      PROVE  wk'[u] = wk[u]
  BY Zenon, <1>0, <1>4 DEF Send, Goto
<1>5. CASE Send(u)
  <2>1. /\ wk' = [wk EXCEPT ![u].pc = "sent", ![u].wa = sends[wk[u].id] + 1]
        /\ sends' = [sends EXCEPT ![wk[u].id] = @ + 1]
    BY SMTT(60), <1>0, <1>5 DEF Send, Goto, WkType
  <2>2. wk'[u].id = wk[u].id /\ wk'[u].wa = sends[wk[u].id] + 1 /\ wk[u].pc = "send"
    BY ZenonT(60), <1>0, <1>5, <2>1 DEF Send, WkType
  <2>3. wk[u].id \in Ids
    BY Zenon, <1>0, <2>2 DEF WkOK
  <2>4. Transmitted(u)
    BY Zenon, <1>5, <2>1, <2>3 DEF Send, Transmitted, StoredKept, Stored
  <2> QED
    BY Zenon, <2>2, <2>3, <2>4
<1>6. CASE Crash \/ Exit
  BY SMTT(60), <1>6 DEF Crash, Exit, GoroutinesDie, IdleWk
<1>7. CASE \/ UNCHANGED vars
           \/ \E r \in Requests :
                SendMessage(r) \/ ResendMessage(r) \/ DeleteMessage(r) \/ HttpStep(r)
           \/ \E h \in Receivers : ReceiptRead(h) \/ ReceiptStep(h)
           \/ \E m \in Ids : PromoteRetry(m) \/ LeaseExpired(m) \/ RecoverJob(m)
           \/ CloseDatabase \/ Restart \/ RecoverDone
  BY Zenon, <1>1, <1>7 DEF NewTask, vars, HttpStep, SendMessage, ResendMessage, DeleteMessage, PutMessage,
     FindExisting, Enqueue, DeleteRow, ReceiptRead, ReceiptStep, ReceiptUpdate,
     ReceiptDispatch, PromoteRetry, LeaseExpired, Orphaned, RecoverJob, CloseDatabase, Restart, RecoverDone
<1> QED
  BY Zenon, <1>0, <1>2, <1>3, <1>4, <1>5, <1>6, <1>7 DEF Next, HandlerStep, WkOK

SentInv ==
  /\ SentWasAccepted
  /\ \A w \in Workers : wk[w].pc = "sent" => wk[w].wa \in 1 .. sends[wk[w].id]

LEMMA SentStep == TInv /\ RowInv /\ SentInv /\ [Next]_vars => SentInv'
<1> SUFFICES ASSUME TInv, RowInv, SentInv, [Next]_vars PROVE SentInv'
  BY Zenon
<1>0. /\ status \in [Ids -> Statuses \cup {"none"}] /\ waId \in [Ids -> Nat]
      /\ sends \in [Ids -> Nat]
  BY Zenon DEF TInv, TypeOK
<1>1. \A m \in Ids : sends'[m] \in Nat /\ sends'[m] >= sends[m]
  BY SMTT(60), <1>0, StepEffect
  DEF Effect, Quiet, Transmitted, Inserted, Erased, Attempted, Acknowledged
<1>2. ASSUME NEW u \in Workers, wk'[u].pc = "sent"
      PROVE  wk'[u].wa \in 1 .. sends'[wk'[u].id]
  <2>1. CASE wk[u].pc = "sent" /\ wk'[u].id = wk[u].id /\ wk'[u].wa = wk[u].wa /\ wk[u].id \in Ids
    BY SMTT(60), <1>0, <1>1, <2>1 DEF SentInv
  <2>2. CASE Transmitted(u) /\ wk'[u].id = wk[u].id /\ wk'[u].wa = sends[wk[u].id] + 1
    BY SMTT(60), <1>0, <2>2 DEF Transmitted
  <2> QED
    BY Zenon, <1>2, <2>1, <2>2, SentPcs
<1>3. SentWasAccepted'
  <2>1. CASE Quiet \/ \E w \in Workers : Transmitted(w)
    BY SMTT(60), <1>0, <2>1 DEF Quiet, Transmitted, SentInv, SentWasAccepted
  <2>2. ASSUME NEW m \in Ids, Inserted(m) \/ Erased(m)
        PROVE  SentWasAccepted'
    BY ZenonT(60), <1>0, <2>2 DEF Inserted, Erased, Write, SentInv, SentWasAccepted, RowInv
  <2>3. ASSUME NEW m \in Ids, NEW w \in Workers, Attempted(w, m)
        PROVE  SentWasAccepted'
    BY ZenonT(60), <1>0, <2>3 DEF Attempted, Write, SentInv, SentWasAccepted
  <2>4. ASSUME NEW m \in Ids, NEW h \in Receivers, Acknowledged(h, m)
        PROVE  SentWasAccepted'
    BY Zenon, <1>0, <2>4 DEF Acknowledged, Write, SentInv, SentWasAccepted, TInv, RcOK, RcType
  <2> QED
    BY Zenon, <2>1, <2>2, <2>3, <2>4, StepEffect DEF Effect
<1> QED
  BY Zenon, <1>2, <1>3 DEF SentInv

LEMMA SentInvariant == Spec => []SentInv
<1>1. Init => SentInv
  BY SMTT(60) DEF Init, SentInv, SentWasAccepted, IdleWk
<1> QED
  BY <1>1, TypeInvariant, RowInvariant, SentStep, PTL DEF Spec

\* What the gateway reports as sent, delivered or read was accepted by
\* WhatsApp under the stored wa_message_id, whatever the worker's attempts,
\* their failures, the receipts and the deletes do to the row in between.
THEOREM SentWasAcceptedAlways == Spec => []SentWasAccepted
  BY SentInvariant, PTL DEF SentInv

----------------------------------------------------------------------------
(* Receipts.  receiptMu makes the handler's read and its update one        *)
(* critical section: nobody else can make a row delivered in between.      *)

RcInv ==
  /\ \A g, h \in Receivers : rc[g].pc # "idle" /\ rc[h].pc # "idle" => g = h
  /\ \A h \in Receivers :
       rc[h].pc = "update" /\ rc[h].st = "delivered" => status[rc[h].id] # "delivered"

LEMMA RcPcs ==
  ASSUME TInv, [Next]_vars
  PROVE  \/ rc' = rc
         \/ \A h \in Receivers : rc'[h].pc = "idle"
         \/ \E h \in Receivers : ReceiptRead(h)
         \/ \E h \in Receivers : /\ ReceiptUpdate(h) \/ ReceiptDispatch(h)
                                /\ rc[h].pc # "idle" /\ rc'[h].pc # "update"
                                /\ \A g \in Receivers \ {h} : rc'[g] = rc[g]
<1>1. ASSUME NEW h \in Receivers, ReceiptUpdate(h) \/ ReceiptDispatch(h)
      PROVE  /\ rc[h].pc # "idle" /\ rc'[h].pc # "update"
             /\ \A g \in Receivers \ {h} : rc'[g] = rc[g]
  BY SMTT(60), <1>1 DEF ReceiptUpdate, ReceiptDispatch, IdleRc, TInv, TypeOK, RcType
<1>2. CASE Crash \/ Exit
  BY SMTT(60), <1>2 DEF Crash, Exit, GoroutinesDie, IdleRc
<1>3. CASE \/ \E r \in Requests :
                SendMessage(r) \/ ResendMessage(r) \/ DeleteMessage(r) \/ HttpStep(r)
           \/ \E w \in Workers : TakeTask(w) \/ AbandonTask(w) \/ HandlerStep(w)
           \/ \E m \in Ids : PromoteRetry(m) \/ LeaseExpired(m) \/ RecoverJob(m)
           \/ CloseDatabase \/ Restart \/ RecoverDone
  BY ZenonT(60), <1>3 DEF NewTask, HttpStep, SendMessage, ResendMessage, DeleteMessage, PutMessage, FindExisting,
     Enqueue, DeleteRow, TakeTask, AbandonTask, HandlerStep, LimiterWait, LookupSender, Send,
     RecordFailed, AfterFailure, RecordJobFailed, RecordSent, RecordJobCompleted, AfterSend, Return, PromoteRetry,
     LeaseExpired, Orphaned, RecoverJob, CloseDatabase, Restart, RecoverDone
<1> QED
  BY Zenon, <1>1, <1>2, <1>3 DEF Next, ReceiptStep, vars

LEMMA RcStep == TInv /\ RowInv /\ RcInv /\ [Next]_vars => RcInv'
<1> SUFFICES ASSUME TInv, RowInv, RcInv, [Next]_vars PROVE RcInv'
  BY Zenon
<1>0. /\ rc \in [Receivers -> RcType] /\ status \in [Ids -> Statuses \cup {"none"}]
      /\ \A h \in Receivers : rc[h].pc # "idle" => rc[h].id \in Ids
  BY Zenon DEF TInv, TypeOK, RcOK
<1>1. ASSUME NEW m \in Ids, status'[m] = "delivered", status[m] # "delivered"
      PROVE  \E h \in Receivers : rc[h].pc = "update" /\ rc[h].id = m /\ ReceiptUpdate(h)
  <2>1. PICK h \in Receivers : Acknowledged(h, m)
    BY ZenonT(60), <1>0, <1>1, StepEffect DEF Effect, Quiet, Transmitted, Inserted, Erased, Attempted,
       Acknowledged, Write
  <2>2. status' # status /\ wk' = wk /\ StoredKept
    BY Zenon, <1>1, <2>1 DEF Acknowledged
  <2>3. \E g \in Receivers : ReceiptUpdate(g)
    <3>1. ASSUME NEW r \in Requests, PutMessage(r) \/ DeleteRow(r)
          PROVE  status'[m] # "delivered" \/ status'[m] = status[m]
      BY Zenon, <1>0, <3>1 DEF PutMessage, DeleteRow
    <3>2. ASSUME NEW w \in Workers, RecordFailed(w) \/ RecordSent(w)
          PROVE  status'[m] # "delivered" \/ status'[m] = status[m]
      BY Zenon, <1>0, <3>2 DEF RecordFailed, AfterFailure, RecordSent, UpdateMessageStatus
    <3> QED
      BY ZenonT(60), <1>1, <2>2, <3>1, <3>2 DEF NewTask, Next, vars, HttpStep, SendMessage, ResendMessage,
         DeleteMessage, FindExisting, Enqueue, TakeTask, AbandonTask, HandlerStep, LimiterWait,
         LookupSender, Send, RecordJobFailed, RecordJobCompleted, AfterSend, Return, ReceiptRead,
         ReceiptStep, ReceiptDispatch, PromoteRetry, LeaseExpired, Orphaned, RecoverJob, Crash,
         CloseDatabase, Exit, Restart, RecoverDone
  <2> QED
    BY Zenon, <2>1, <2>3 DEF Acknowledged, ReceiptUpdate, RcInv
<1>2. CASE \A h \in Receivers : rc'[h].pc = "idle"
  BY Zenon, <1>2 DEF RcInv
<1>3. CASE \E h \in Receivers : ReceiptRead(h)
  <2>1. PICK h \in Receivers : ReceiptRead(h)
    BY Zenon, <1>3
  <2>2. PICK m \in Ids, st \in {"delivered", "read"} :
          /\ ReceiptAdvances(st, status[m])
          /\ rc' = [rc EXCEPT ![h] = [pc |-> "update", id |-> m, wa |-> waId[m], st |-> st]]
    BY Zenon, <2>1 DEF ReceiptRead, GetMessageByWAID
  <2>3. status' = status /\ \A g \in Receivers : rc[g].pc = "idle"
    BY Zenon, <2>1 DEF ReceiptRead, GetMessageByWAID, ReceiptLock
  <2> QED
    BY Zenon, <1>0, <2>2, <2>3 DEF ReceiptAdvances, RcInv
<1>4. CASE rc' = rc
  <2>1. \A h \in Receivers : ~ReceiptUpdate(h)
    BY SMTT(60), <1>0, <1>4 DEF ReceiptUpdate, IdleRc, RcType
  <2> QED
    BY Zenon, <1>0, <1>1, <1>4, <2>1 DEF RcInv
<1>5. CASE \E h \in Receivers : /\ rc[h].pc # "idle" /\ rc'[h].pc # "update"
                               /\ \A g \in Receivers \ {h} : rc'[g] = rc[g]
  BY ZenonT(60), <1>0, <1>5 DEF RcInv
<1> QED
  BY Zenon, <1>2, <1>3, <1>4, <1>5, RcPcs

LEMMA RcInvariant == Spec => []RcInv
<1>1. Init => RcInv
  BY SMTT(60) DEF Init, RcInv, IdleRc
<1> QED
  BY <1>1, TypeInvariant, RowInvariant, RcStep, PTL DEF Spec

\* handleReceipt moves a message only forward, from sent to delivered and from
\* either to read, although the worker and deleteMessage may change the row
\* between its read and its update.
THEOREM ReceiptsForward == Spec => ReceiptsMoveForward
<1> DEFINE Forward == \A m \in Ids : status'[m] # status[m] =>
                        /\ status'[m] = "delivered" => status[m] = "sent"
                        /\ status'[m] = "read" => status[m] \in {"sent", "delivered"}
<1>1. TInv /\ RowInv /\ RcInv /\ [Next]_vars => [Forward]_status
  <2> SUFFICES ASSUME TInv, RowInv, RcInv, [Next]_vars PROVE Forward
    BY Zenon
  <2>0. status \in [Ids -> Statuses \cup {"none"}]
    BY Zenon DEF TInv, TypeOK
  <2>1. CASE Quiet \/ \E w \in Workers : Transmitted(w)
    BY Zenon, <2>1 DEF Quiet, Transmitted
  <2>2. ASSUME NEW m \in Ids, Inserted(m) \/ Erased(m) \/ \E w \in Workers : Attempted(w, m)
        PROVE  Forward
    BY Zenon, <2>0, <2>2 DEF Inserted, Erased, Attempted, Write
  <2>3. ASSUME NEW m \in Ids, NEW h \in Receivers, Acknowledged(h, m)
        PROVE  Forward
    BY Zenon, <2>0, <2>3 DEF Acknowledged, Write, RcInv, TInv, RcOK, RcType
  <2> QED
    BY Zenon, <2>1, <2>2, <2>3, StepEffect DEF Effect
<1> QED
  BY <1>1, TypeInvariant, RowInvariant, RcInvariant, PTL DEF Spec, ReceiptsMoveForward

----------------------------------------------------------------------------
(* The contract.  Each effect is an action of MessageContract or a         *)
(* stuttering step of it.                                                  *)

LEMMA EffectRefines ==
  ASSUME TInv, RowInv, SentInv, RcInv, Effect
  PROVE  [Contract!Next]_(Contract!cvars)
<1> USE DEF ContractState, Stored
<1>0. /\ status \in [Ids -> Statuses \cup {"none"}] /\ sends \in [Ids -> Nat]
      /\ \A m \in Ids : status[m] # "none" => job[m] # "none"
  BY Zenon DEF TInv, TypeOK, RowInv
<1>1. CASE Quiet
  <2>1. ContractState' = ContractState
    BY Zenon, <1>1 DEF Quiet, StoredKept
  <2> QED
    BY Zenon, <1>1, <2>1 DEF Quiet, Contract!cvars
<1>2. ASSUME NEW w \in Workers, Transmitted(w)
      PROVE  Contract!Next
  <2>1. ContractState' = ContractState
    BY Zenon, <1>2 DEF Transmitted, StoredKept
  <2>2. Contract!Transmit(wk[w].id)
    BY Zenon, <1>2, <2>1 DEF Transmitted, Send, Contract!Transmit, RowInv, Statuses, TInv, TypeOK
  <2> QED
    BY Zenon, <1>2, <2>2 DEF Transmitted, Contract!Next
<1>3. ASSUME NEW m \in Ids, Inserted(m)
      PROVE  Contract!Next
  <2>1. ContractState[m] = "new" /\ ContractState' = [ContractState EXCEPT ![m] = "queued"]
    BY Zenon, <1>0, <1>3 DEF Inserted, Write
  <2> QED
    BY Zenon, <1>3, <2>1 DEF Inserted, Contract!Next, Contract!Accept, Contract!Move
<1>4. ASSUME NEW m \in Ids, Erased(m)
      PROVE  [Contract!Next]_(Contract!cvars)
  <2>1. CASE status[m] = "none"
    <3>1. ContractState' = ContractState
      BY Zenon, <1>0, <1>4, <2>1 DEF Erased, Write, StoredKept
    <3> QED
      BY Zenon, <1>4, <3>1 DEF Erased, Contract!cvars
  <2>2. CASE status[m] # "none"
    <3>1. /\ ContractState[m] \notin {"new", "queued", "deleted"}
          /\ ContractState' = [ContractState EXCEPT ![m] = "deleted"]
      BY Zenon, <1>0, <1>4, <2>2 DEF Erased, Write, StoredKept, Statuses
    <3> QED
      BY Zenon, <1>4, <3>1 DEF Erased, Contract!Next, Contract!Delete, Contract!Move
  <2> QED
    BY Zenon, <2>1, <2>2
<1>5. ASSUME NEW m \in Ids, NEW w \in Workers, Attempted(w, m)
      PROVE  Contract!Next
  <2>1. ContractState[m] \notin {"new", "deleted"} /\ sends' = sends
    BY Zenon, <1>0, <1>5 DEF Attempted, Statuses
  <2>2. CASE Write(m, "failed", 0)
    <3>1. ContractState' = [ContractState EXCEPT ![m] = "failed"]
      BY Zenon, <1>0, <1>5, <2>2 DEF Attempted, Write, StoredKept
    <3> QED
      BY Zenon, <2>1, <3>1 DEF Contract!Next, Contract!Failed, Contract!Move
  <2>3. CASE wk[w].pc = "sent" /\ Write(m, "sent", wk[w].wa)
    <3>1. ContractState' = [ContractState EXCEPT ![m] = "sent"]
      BY Zenon, <1>0, <1>5, <2>3 DEF Attempted, Write, StoredKept
    <3>2. sends[m] > 0
      BY SMTT(60), <1>0, <1>5, <2>3 DEF Attempted, SentInv
    <3> QED
      BY Zenon, <2>1, <3>1, <3>2 DEF Contract!Next, Contract!Sent, Contract!Move
  <2> QED
    BY Zenon, <1>5, <2>2, <2>3 DEF Attempted
<1>6. ASSUME NEW m \in Ids, NEW h \in Receivers, Acknowledged(h, m)
      PROVE  Contract!Next
  <2>1. /\ ContractState[m] = status[m] /\ sends' = sends
        /\ ContractState' = [ContractState EXCEPT ![m] = rc[h].st]
    BY Zenon, <1>0, <1>6 DEF Acknowledged, Write, StoredKept, TInv, RcOK, RcType
  <2>2. rc[h].st = "read" \/ (rc[h].st = "delivered" /\ status[m] = "sent")
    BY Zenon, <1>6 DEF Acknowledged, RcInv, TInv, RcOK, RcType
  <2> QED
    <3>1. Contract!Receipt(m)
      BY Zenon, <1>6, <2>1, <2>2 DEF Acknowledged, Contract!Receipt, Contract!Move
    <3> QED
      BY Zenon, <3>1 DEF Contract!Next
<1> QED
  BY Zenon, <1>1, <1>2, <1>3, <1>4, <1>5, <1>6 DEF Effect

\* The pipeline implements MessageContract: a stored message leaves queued
\* once and for good, is reported sent only after a transmission, moves
\* forward by receipts and is deleted only after it left queued.
THEOREM PipelineImplementsContract == Spec => ContractSpec
<1>1. Init => Contract!Init
  BY ZenonT(60) DEF Init, Contract!Init, ContractState
<1>2. TInv /\ RowInv /\ SentInv /\ RcInv /\ [Next]_vars => [Contract!Next]_(Contract!cvars)
  BY Zenon, StepEffect, EffectRefines
<1> QED
  BY <1>1, <1>2, TypeInvariant, RowInvariant, SentInvariant, RcInvariant, PTL
  DEF Spec, ContractSpec, Contract!Spec
----------------------------------------------------------------------------
(* Published once.  An id of WhatsApp is spent when it was given out and   *)
(* no handler is still to store it: it does not come back to the row.  A   *)
(* receipt has passed when the row, if it holds that id, is past it.       *)

Spent(m, n) ==
  /\ n \in 1 .. sends[m]
  /\ \A w \in Workers : wk[w].pc = "sent" /\ wk[w].id = m => wk[w].wa # n

Passed(m, n, st) == waId[m] = n => ~ReceiptAdvances(st, status[m])

OnceInv ==
  /\ \A v, w \in Workers : wk[v].pc = "sent" /\ wk[w].pc = "sent" /\ wk[v].id = wk[w].id
                           /\ wk[v].wa = wk[w].wa => v = w
  /\ \A m \in Ids : waId[m] # 0 => Spent(m, waId[m])
  /\ \A m \in Ids, n \in Nat, st \in {"delivered", "read"} :
       <<m, n, st>> \in published => Spent(m, n) /\ Passed(m, n, st)
  /\ \A h \in Receivers : rc[h].pc # "idle" =>
       /\ Spent(rc[h].id, rc[h].wa)
       /\ <<rc[h].id, rc[h].wa, rc[h].st>> \notin published
       /\ rc[h].pc = "dispatch" => Passed(rc[h].id, rc[h].wa, rc[h].st)

LEMMA SpentKept ==
  ASSUME TInv, RowInv, SentInv, [Next]_vars, NEW m \in Ids, NEW n, Spent(m, n)
  PROVE  Spent(m, n)'
<1>1. sends[m] \in Nat /\ sends'[m] \in Nat /\ sends'[m] >= sends[m]
  BY SMTT(60), StepEffect DEF TInv, TypeOK, Effect, Quiet, Transmitted, Inserted, Erased, Attempted, Acknowledged
<1>2. ASSUME NEW w \in Workers, wk'[w].pc = "sent", wk'[w].id = m
      PROVE  wk'[w].wa # n
  BY SMTT(60), <1>1, <1>2, SentPcs DEF Spent
<1> QED
  BY SMTT(60), <1>1, <1>2 DEF Spent

LEMMA PassedKept ==
  ASSUME TInv, RowInv, [Next]_vars, NEW m \in Ids, NEW n, NEW st, Spent(m, n), Passed(m, n, st)
  PROVE  Passed(m, n, st)'
<1> USE DEF Passed, ReceiptAdvances
<1>0. /\ status \in [Ids -> Statuses \cup {"none"}] /\ waId \in [Ids -> Nat] /\ n # 0
      /\ \A h \in Receivers : rc[h].st \in {"delivered", "read"}
  BY SMTT(60) DEF TInv, TypeOK, Spent, RcType
<1>1. CASE Quiet \/ \E w \in Workers : Transmitted(w)
  BY Zenon, <1>1 DEF Quiet, Transmitted
<1>2. ASSUME NEW k \in Ids, Inserted(k) \/ Erased(k)
      PROVE  Passed(m, n, st)'
  BY Zenon, <1>0, <1>2 DEF Inserted, Erased, Write
<1>3. ASSUME NEW k \in Ids, NEW w \in Workers, Attempted(w, k)
      PROVE  Passed(m, n, st)'
  BY Zenon, <1>0, <1>3 DEF Attempted, Write, Spent
<1>4. ASSUME NEW k \in Ids, NEW h \in Receivers, Acknowledged(h, k)
      PROVE  Passed(m, n, st)'
  BY Zenon, <1>0, <1>4 DEF Acknowledged, Write
<1> QED
  BY Zenon, <1>1, <1>2, <1>3, <1>4, StepEffect DEF Effect

LEMMA PublishedBy ==
  ASSUME TInv, [Next]_vars
  PROVE  \/ published' = published
         \/ \E h \in Receivers :
              /\ ReceiptDispatch(h)
              /\ published' = published \cup {<<rc[h].id, rc[h].wa, rc[h].st>>}
<1>1. ASSUME NEW h \in Receivers, ReceiptDispatch(h)
      PROVE  published' \in {published, published \cup {<<rc[h].id, rc[h].wa, rc[h].st>>}}
  BY Zenon, <1>1 DEF ReceiptDispatch
<1>2. ASSUME [Next]_vars, \A h \in Receivers : ~ReceiptDispatch(h)
      PROVE  published' = published
  BY ZenonT(60), <1>2 DEF NewTask, Next, vars, obs, HttpStep, SendMessage, ResendMessage, DeleteMessage, PutMessage,
     FindExisting, Enqueue, DeleteRow, TakeTask, AbandonTask, HandlerStep, LimiterWait,
     LookupSender, Send, RecordFailed, RecordJobFailed, RecordSent, RecordJobCompleted, Return,
     ReceiptRead, ReceiptStep, ReceiptUpdate, PromoteRetry, LeaseExpired, RecoverJob, Crash,
     CloseDatabase, Exit, Restart, RecoverDone
<1> QED
  BY Zenon, <1>1, <1>2

LEMMA OnceStep == TInv /\ RowInv /\ SentInv /\ RcInv /\ OnceInv /\ [Next]_vars => OnceInv'
<1> SUFFICES ASSUME TInv, RowInv, SentInv, RcInv, OnceInv, [Next]_vars PROVE OnceInv'
  BY Zenon
<1>0. /\ rc \in [Receivers -> RcType] /\ sends \in [Ids -> Nat]
      /\ status \in [Ids -> Statuses \cup {"none"}] /\ waId \in [Ids -> Nat]
      /\ \A h \in Receivers : /\ rc[h].pc # "idle" => rc[h].id \in Ids
                              /\ rc[h].wa \in Nat /\ rc[h].st \in {"delivered", "read"}
  BY Zenon DEF TInv, TypeOK, RcOK, RcType
<1>1. ASSUME NEW v \in Workers, NEW w \in Workers, wk'[v].pc = "sent", wk'[w].pc = "sent",
             wk'[v].id = wk'[w].id, wk'[v].wa = wk'[w].wa
      PROVE  v = w
  <2>1. CASE wk[v].pc = "sent" /\ wk[w].pc = "sent"
    BY ZenonT(60), <1>1, <2>1, SentPcs DEF OnceInv, Transmitted, Send
  <2>2. ASSUME NEW a \in Workers, NEW b \in Workers, wk[a].pc = "send", Transmitted(a),
               wk'[a].wa = sends[wk[a].id] + 1, wk[a].id \in Ids,
               wk[b].pc = "sent", wk[b].id = wk[a].id, wk'[b].wa = wk[b].wa
        PROVE  wk'[a].wa # wk'[b].wa
    BY SMTT(60), <1>0, <2>2 DEF SentInv
  <2>3. CASE wk[v].pc = "send" /\ wk[w].pc = "send" /\ v # w
    <3>1. wk'[w] = wk[w]
      BY ZenonT(60), <1>1, <2>3, SentPcs DEF Transmitted, Send, Goto, TInv, TypeOK
    <3> QED
      BY Zenon, <1>1, <2>3, <3>1
  <2> QED
    BY ZenonT(60), <1>1, <2>1, <2>2, <2>3, SentPcs
<1>2. ASSUME NEW m \in Ids, waId'[m] # 0 PROVE Spent(m, waId[m])'
  <2>1. CASE waId'[m] = waId[m]
    BY SMTT(60), <1>2, <2>1, SpentKept DEF OnceInv, Spent
  <2>2. CASE waId'[m] # waId[m]
    <3>1. PICK w \in Workers : /\ Attempted(w, m) /\ wk[w].pc = "sent" /\ wk[w].id = m
                               /\ waId'[m] = wk[w].wa
      BY ZenonT(60), <1>0, <1>2, <2>2, StepEffect DEF Effect, Quiet, Transmitted, Inserted, Erased, Attempted,
         Acknowledged, Write
    <3>2. sends' = sends /\ wk'[w].pc # "sent" /\ wk[w].wa \in 1 .. sends[m]
      BY Zenon, <3>1 DEF Attempted, SentInv
    <3>3. ASSUME NEW u \in Workers, wk'[u].pc = "sent", wk'[u].id = m PROVE wk'[u].wa # wk[w].wa
      BY SMTT(60), <1>0, <3>1, <3>2, <3>3, SentPcs DEF OnceInv
    <3> QED
      BY Zenon, <3>1, <3>2, <3>3 DEF Spent
  <2> QED
    BY Zenon, <2>1, <2>2
<1>3. ASSUME NEW m \in Ids, NEW n \in Nat, NEW st \in {"delivered", "read"}, <<m, n, st>> \in published'
      PROVE  Spent(m, n)' /\ Passed(m, n, st)'
  <2>1. Spent(m, n) /\ Passed(m, n, st)
    <3>1. CASE <<m, n, st>> \in published
      BY ZenonT(60), <3>1 DEF OnceInv
    <3>2. CASE <<m, n, st>> \notin published
      BY SMTT(60), <1>3, <3>2, PublishedBy DEF OnceInv, ReceiptDispatch
    <3> QED
      BY Zenon, <3>1, <3>2
  <2> QED
    BY Zenon, <2>1, SpentKept, PassedKept
<1> DEFINE SpentNext(m, n) == /\ n \in 1 .. sends'[m]
                              /\ \A w \in Workers : wk'[w].pc = "sent" /\ wk'[w].id = m => wk'[w].wa # n
           PassedNext(m, n, st) == waId'[m] = n => ~ReceiptAdvances(st, status'[m])
<1>4. \A m \in Ids, n \in Nat, st \in {"delivered", "read"} :
        Spent(m, n) => SpentNext(m, n) /\ (Passed(m, n, st) => PassedNext(m, n, st))
  <2> SUFFICES ASSUME NEW m \in Ids, NEW n \in Nat, NEW st \in {"delivered", "read"}, Spent(m, n)
               PROVE  SpentNext(m, n) /\ (Passed(m, n, st) => PassedNext(m, n, st))
    BY Zenon
  <2>1. SpentNext(m, n)
    BY Zenon, SpentKept DEF Spent
  <2>2. Passed(m, n, st) => PassedNext(m, n, st)
    BY Zenon, PassedKept DEF Passed
  <2> QED
    BY Zenon, <2>1, <2>2
<1>5. ASSUME NEW h \in Receivers, rc'[h].pc # "idle"
      PROVE  /\ SpentNext(rc'[h].id, rc'[h].wa)
             /\ <<rc'[h].id, rc'[h].wa, rc'[h].st>> \notin published'
             /\ rc'[h].pc = "dispatch" => PassedNext(rc'[h].id, rc'[h].wa, rc'[h].st)
  <2> HIDE DEF SpentNext, PassedNext
  <2>1. CASE rc' = rc
    <3>1. published' = published
      BY SMTT(60), <1>0, <2>1, PublishedBy DEF ReceiptDispatch, IdleRc
    <3> QED
      BY Zenon, <1>0, <1>4, <1>5, <2>1, <3>1 DEF OnceInv
  <2>2. ASSUME NEW g \in Receivers, ReceiptRead(g)
        PROVE  /\ SpentNext(rc'[h].id, rc'[h].wa) /\ rc'[h].pc = "update"
               /\ <<rc'[h].id, rc'[h].wa, rc'[h].st>> \notin published'
    <3>1. PICK m \in Ids, st \in {"delivered", "read"} :
            /\ waId[m] # 0 /\ ReceiptAdvances(st, status[m])
            /\ rc' = [rc EXCEPT ![g] = [pc |-> "update", id |-> m, wa |-> waId[m], st |-> st]]
      BY Zenon, <2>2 DEF ReceiptRead, GetMessageByWAID
    <3>2. published' = published /\ rc[h].pc = "idle"
      BY Zenon, <2>2 DEF ReceiptRead, ReceiptLock, obs
    <3>3. rc'[h] = [pc |-> "update", id |-> m, wa |-> waId[m], st |-> st]
      BY Zenon, <1>0, <1>5, <3>1, <3>2
    <3>4. Spent(m, waId[m]) /\ <<m, waId[m], st>> \notin published /\ waId[m] \in Nat
      BY Zenon, <1>0, <3>1 DEF OnceInv, Passed
    <3> QED
      BY SMTT(60), <1>4, <3>2, <3>3, <3>4
  <2>3. ASSUME NEW g \in Receivers, ReceiptUpdate(g), \A k \in Receivers \ {g} : rc'[k] = rc[k]
        PROVE  /\ SpentNext(rc'[h].id, rc'[h].wa)
               /\ <<rc'[h].id, rc'[h].wa, rc'[h].st>> \notin published'
               /\ rc'[h].pc = "dispatch" => PassedNext(rc'[h].id, rc'[h].wa, rc'[h].st)
    <3>1. rc[g].pc = "update" /\ UNCHANGED <<waId, published>> /\ h = g
      BY Zenon, <1>5, <2>3 DEF ReceiptUpdate, obs, RcInv
    <3>2. /\ rc'[h].id = rc[h].id /\ rc'[h].wa = rc[h].wa /\ rc'[h].st = rc[h].st
          /\ UpdateMessageReceipt(rc[h].id, rc[h].wa, rc[h].st)
      BY SMTT(60), <1>0, <1>5, <2>3, <3>1 DEF ReceiptUpdate, IdleRc, RcType
    <3>3. PassedNext(rc[h].id, rc[h].wa, rc[h].st)
      BY Zenon, <1>0, <3>1, <3>2 DEF PassedNext, UpdateMessageReceipt, ReceiptAdvances
    <3> QED
      BY Zenon, <1>0, <1>4, <3>1, <3>2, <3>3 DEF OnceInv
  <2>4. ASSUME NEW g \in Receivers, ReceiptDispatch(g), \A k \in Receivers \ {g} : rc'[k] = rc[k]
        PROVE  FALSE
    BY Zenon, <1>0, <1>5, <2>4 DEF ReceiptDispatch, IdleRc, RcInv
  <2> QED
    BY Zenon, <1>5, <2>1, <2>2, <2>3, <2>4, RcPcs
<1> QED
  BY Zenon, <1>1, <1>2, <1>3, <1>5 DEF OnceInv, Spent, Passed

\* handleReceipt publishes no receipt of one WhatsApp id twice, whatever
\* receipts come again or out of order and whatever the worker and
\* deleteMessage do to the row between its read, its update and its event.
THEOREM PublishedOnceAlways == Spec => []ReceiptPublishedOnce
<1>1. Init => OnceInv
  BY SMTT(60) DEF Init, OnceInv, IdleWk, IdleRc
<1>2. OnceInv => ReceiptPublishedOnce
  BY Zenon DEF OnceInv, ReceiptPublishedOnce
<1> QED
  BY <1>1, <1>2, TypeInvariant, RowInvariant, SentInvariant, RcInvariant, OnceStep, PTL DEF Spec
----------------------------------------------------------------------------
(* Idempotency keys.  A stored message goes by its key until it is         *)
(* deleted, and answers name messages that went by the key asked for.      *)

GoesBy(m, k) == Stored(m) /\ (status[m] # "none" => key[m] = k)

KeyInv ==
  /\ \A m, n \in Ids : status[m] # "none" /\ status[n] # "none" /\ key[m] = key[n]
                       /\ key[m] # NoKey => m = n
  /\ \A a \in answers : GoesBy(a.id, a.key)
  /\ \A r \in Requests : req[r].pc = "enqueue" => GoesBy(req[r].id, req[r].key)

\* A row appears by an insert that the unique index lets through.
Insert(r) ==
  /\ PutMessage(r) /\ req[r].pc = "put" /\ req[r].id \in Ids /\ IndexAccepts(req[r].key)
  /\ status' = [status EXCEPT ![req[r].id] = "queued"]
  /\ key' = [key EXCEPT ![req[r].id] = req[r].key]
  /\ job' = [job EXCEPT ![req[r].id] = "waiting"]

LEMMA KeySteps ==
  ASSUME TInv, RowInv, [Next]_vars
  PROVE  \/ \E r \in Requests : Insert(r)
         \/ \A m \in Ids : status'[m] # "none" => status[m] # "none" /\ key'[m] = key[m]
<1>0. /\ status \in [Ids -> Statuses \cup {"none"}] /\ key \in [Ids -> Keys \cup {NoKey}]
      /\ \A r \in Requests : req[r].pc # "idle" => req[r].id \in Ids
  BY Zenon DEF TInv, TypeOK, ReqOK
<1> DEFINE Same == \A m \in Ids : status'[m] # "none" => status[m] # "none" /\ key'[m] = key[m]
<1>1. ASSUME NEW r \in Requests, PutMessage(r) PROVE Insert(r) \/ Same
  BY Zenon, <1>0, <1>1 DEF PutMessage, Insert, db
<1>2. ASSUME NEW r \in Requests, DeleteRow(r) PROVE Same
  BY Zenon, <1>0, <1>2 DEF DeleteRow, db
<1>3. ASSUME NEW w \in Workers, RecordFailed(w) \/ RecordSent(w) PROVE Same
  BY Zenon, <1>0, <1>3 DEF RecordFailed, RecordSent, UpdateMessageStatus
<1>4. ASSUME NEW h \in Receivers, ReceiptUpdate(h) PROVE Same
  BY Zenon, <1>0, <1>4 DEF ReceiptUpdate, UpdateMessageReceipt
<1>5. CASE UNCHANGED <<status, key>>
  BY Zenon, <1>5
<1> QED
  BY ZenonT(60), <1>1, <1>2, <1>3, <1>4, <1>5 DEF NewTask, Next, vars, db, HttpStep, SendMessage, ResendMessage,
     DeleteMessage, FindExisting, Enqueue, TakeTask, AbandonTask, HandlerStep, LimiterWait,
     LookupSender, Send, RecordJobFailed, RecordJobCompleted, Return, ReceiptRead,
     ReceiptStep, ReceiptDispatch, PromoteRetry, LeaseExpired, RecoverJob, Crash,
     CloseDatabase, Exit, Restart, RecoverDone

LEMMA AnsweredBy ==
  ASSUME TInv, [Next]_vars
  PROVE  \/ answers' = answers
         \/ \E m \in Ids, k \in Keys \cup {NoKey} :
              /\ m \in Holders(k)
              /\ answers' = answers \cup {[key |-> k, id |-> m, code |-> 200]}
         \/ \E r \in Requests :
              /\ req[r].pc = "enqueue"
              /\ answers' = answers \cup {[key |-> req[r].key, id |-> req[r].id, code |-> 202]}
<1>1. ASSUME NEW r \in Requests, SendMessage(r)
      PROVE  \/ answers' = answers
             \/ \E m \in Ids, k \in Keys \cup {NoKey} :
                  /\ m \in Holders(k)
                  /\ answers' = answers \cup {[key |-> k, id |-> m, code |-> 200]}
  BY ZenonT(60), <1>1 DEF SendMessage, Answer, Holders
<1>2. ASSUME NEW r \in Requests, FindExisting(r)
      PROVE  \/ answers' = answers
             \/ \E m \in Ids, k \in Keys \cup {NoKey} :
                  /\ m \in Holders(k)
                  /\ answers' = answers \cup {[key |-> k, id |-> m, code |-> 200]}
  BY ZenonT(60), <1>2 DEF FindExisting, Answer, Holders, TInv, TypeOK, ReqType
<1>3. ASSUME NEW r \in Requests, Enqueue(r)
      PROVE  \/ answers' = answers
             \/ /\ req[r].pc = "enqueue"
                /\ answers' = answers \cup {[key |-> req[r].key, id |-> req[r].id, code |-> 202]}
  BY Zenon, <1>3 DEF Enqueue, Answer
<1>4. ASSUME [Next]_vars, \A r \in Requests : ~SendMessage(r) /\ ~FindExisting(r) /\ ~Enqueue(r)
      PROVE  answers' = answers
  BY ZenonT(60), <1>4 DEF Next, vars, obs, HttpStep, ResendMessage, DeleteMessage, PutMessage,
     DeleteRow, TakeTask, AbandonTask, HandlerStep, LimiterWait,
     LookupSender, Send, RecordFailed, RecordJobFailed, RecordSent, RecordJobCompleted, Return,
     ReceiptRead, ReceiptStep, ReceiptUpdate, ReceiptDispatch, PromoteRetry, LeaseExpired, RecoverJob,
     Crash, CloseDatabase, Exit, Restart, RecoverDone
<1> QED
  BY SMTT(60), <1>1, <1>2, <1>3, <1>4

\* A handler is at Enqueue because it was, or because it has just inserted.
LEMMA EnqueuePcs ==
  ASSUME TInv, [Next]_vars, NEW q \in Requests, req'[q].pc = "enqueue"
  PROVE  \/ req'[q] = req[q]
         \/ Insert(q) /\ req'[q].id = req[q].id /\ req'[q].key = req[q].key
<1>0. req \in [Requests -> ReqType] /\ ReqOK(req[q])
  BY ZenonT(60) DEF TInv, TypeOK
<1>1. ASSUME NEW r \in Requests, SendMessage(r) \/ ResendMessage(r) \/ FindExisting(r) \/ Enqueue(r)
      PROVE  req'[q] = req[q]
  <2>1. req'[r].pc # "enqueue" /\ \A p \in Requests \ {r} : req'[p] = req[p]
    BY SMTT(60), <1>0, <1>1 DEF SendMessage, ResendMessage, FindExisting, Enqueue, Answer, IdleReq
  <2> QED
    BY Zenon, <2>1
<1>2. ASSUME NEW r \in Requests, DeleteMessage(r) \/ DeleteRow(r)
      PROVE  req'[q] = req[q]
  <2>1. CASE DeleteMessage(r)
    <3>1. req'[r].pc = "delete" /\ \A p \in Requests \ {r} : req'[p] = req[p]
      BY Zenon, <1>0, <2>1 DEF DeleteMessage, IdleReq
    <3> QED
      BY Zenon, <3>1
  <2>2. CASE DeleteRow(r)
    BY Zenon, <1>0, <2>2 DEF DeleteRow, IdleReq
  <2> QED
    BY Zenon, <1>2, <2>1, <2>2
<1>3. ASSUME NEW r \in Requests, PutMessage(r)
      PROVE  \/ req'[q] = req[q]
             \/ Insert(q) /\ req'[q].id = req[q].id /\ req'[q].key = req[q].key
  <2>1. CASE r # q
    BY Zenon, <1>0, <1>3, <2>1 DEF PutMessage
  <2>2. CASE r = q
    <3>1. /\ req[q].pc = "put" /\ IndexAccepts(req[q].key)
          /\ status' = [status EXCEPT ![req[q].id] = "queued"]
          /\ key' = [key EXCEPT ![req[q].id] = req[q].key]
          /\ job' = [job EXCEPT ![req[q].id] = "waiting"]
          /\ req' = [req EXCEPT ![q].pc = "enqueue"]
      BY SMTT(60), <1>0, <1>3, <2>2 DEF PutMessage, IdleReq, ReqType
    <3> QED
      BY Zenon, <1>0, <1>3, <2>2, <3>1 DEF Insert, ReqOK, ReqType
  <2> QED
    BY Zenon, <2>1, <2>2
<1>4. CASE Crash \/ Exit
  BY SMTT(60), <1>4 DEF Crash, Exit, GoroutinesDie, IdleReq
<1>5. CASE req' = req
  BY Zenon, <1>5
<1> QED
  BY ZenonT(60), <1>1, <1>2, <1>3, <1>4, <1>5 DEF NewTask, Next, vars, HttpStep, TakeTask, AbandonTask,
     HandlerStep, LimiterWait, LookupSender, Send, RecordFailed, RecordJobFailed, RecordSent,
     RecordJobCompleted, Return, ReceiptRead, ReceiptStep, ReceiptUpdate, ReceiptDispatch,
     PromoteRetry, LeaseExpired, RecoverJob, CloseDatabase, Restart, RecoverDone

LEMMA KeyStep == TInv /\ RowInv /\ KeyInv /\ [Next]_vars => KeyInv'
<1> SUFFICES ASSUME TInv, RowInv, KeyInv, [Next]_vars PROVE KeyInv'
  BY Zenon
<1> USE DEF Stored
<1> DEFINE GoesByNext(m, k) == job'[m] # "none" /\ (status'[m] # "none" => key'[m] = k)
<1>0. /\ status \in [Ids -> Statuses \cup {"none"}] /\ key \in [Ids -> Keys \cup {NoKey}]
      /\ job \in [Ids -> {"none", "waiting", "completed", "failed"}]
      /\ \A a \in answers : a.id \in Ids
      /\ \A r \in Requests : req[r].pc # "idle" => req[r].id \in Ids
  BY Zenon DEF TInv, TypeOK, ReqOK
<1>1. \A m \in Ids : \A k : GoesBy(m, k) => GoesByNext(m, k)
  <2> SUFFICES ASSUME NEW m \in Ids, NEW k, GoesBy(m, k) PROVE GoesByNext(m, k)
    BY Zenon
  <2>1. job[m] # "none" => job'[m] # "none"
    BY Zenon, StepEffect DEF Effect, Quiet, Transmitted, Inserted, Erased, Attempted, Acknowledged, StoredKept
  <2>2. ASSUME NEW r \in Requests, Insert(r) PROVE m # req[r].id
    BY Zenon, <2>2 DEF Insert, GoesBy, RowInv
  <2> QED
    BY Zenon, <1>0, <2>1, <2>2, KeySteps DEF GoesBy, Insert
<1>2. ASSUME NEW m \in Ids, NEW n \in Ids, status'[m] # "none", status'[n] # "none",
             key'[m] = key'[n], key'[m] # NoKey
      PROVE  m = n
  <2>1. ASSUME NEW r \in Requests, Insert(r) PROVE m = n
    BY SMTT(60), <1>0, <1>2, <2>1 DEF Insert, IndexAccepts, Holders, KeyInv
  <2>2. CASE \A i \in Ids : status'[i] # "none" => status[i] # "none" /\ key'[i] = key[i]
    BY Zenon, <1>2, <2>2 DEF KeyInv
  <2> QED
    BY ZenonT(60), <2>1, <2>2, KeySteps
<1>3. ASSUME NEW a \in answers' PROVE GoesByNext(a.id, a.key)
  <2>1. a.id \in Ids /\ GoesBy(a.id, a.key)
    <3>1. CASE a \in answers
      BY Zenon, <1>0, <3>1 DEF KeyInv
    <3>2. ASSUME NEW m \in Ids, NEW k, m \in Holders(k), a = [key |-> k, id |-> m, code |-> 200]
          PROVE  a.id \in Ids /\ GoesBy(a.id, a.key)
      BY Zenon, <3>2 DEF Holders, GoesBy, RowInv
    <3>3. ASSUME NEW r \in Requests, req[r].pc = "enqueue",
                 a = [key |-> req[r].key, id |-> req[r].id, code |-> 202]
          PROVE  a.id \in Ids /\ GoesBy(a.id, a.key)
      BY Zenon, <1>0, <3>3 DEF KeyInv
    <3> QED
      BY ZenonT(60), <1>3, <3>1, <3>2, <3>3, AnsweredBy
  <2> QED
    BY Zenon, <1>1, <2>1
<1>4. ASSUME NEW q \in Requests, req'[q].pc = "enqueue" PROVE GoesByNext(req'[q].id, req'[q].key)
  <2>1. CASE req'[q] = req[q]
    BY Zenon, <1>0, <1>1, <1>4, <2>1 DEF KeyInv
  <2>2. CASE Insert(q) /\ req'[q].id = req[q].id /\ req'[q].key = req[q].key
    BY Zenon, <1>0, <2>2 DEF Insert
  <2> QED
    BY Zenon, <1>4, <2>1, <2>2, EnqueuePcs
<1> QED
  BY Zenon, <1>2, <1>3, <1>4 DEF KeyInv, GoesBy

\* Requests of sendMessage with one idempotency key are answered with one
\* message, until it is deleted: the unique index decides between inserts
\* that race, and the loser looks the row of the winner up.
THEOREM SameKeyAlways == Spec => []SameKeySameMessage
<1>1. Init => KeyInv
  BY SMTT(60) DEF Init, KeyInv, IdleReq
<1>2. TInv /\ KeyInv => SameKeySameMessage
  BY SMTT(60) DEF TInv, TypeOK, KeyInv, GoesBy, SameKeySameMessage
<1> QED
  BY <1>1, <1>2, TypeInvariant, RowInvariant, KeyStep, PTL DEF Spec
=============================================================================
