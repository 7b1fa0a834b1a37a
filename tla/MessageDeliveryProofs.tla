----------------------- MODULE MessageDeliveryProofs -----------------------
(***************************************************************************)
(* Proofs about how often MessagePipeline sends a message and whether it   *)
(* forgets one: AtMostOncePerLife, QueuedIsWaiting, NoStrandedMessage,     *)
(* DuplicatesBounded.                                                      *)
(***************************************************************************)
EXTENDS MessagePipelineProofs

USE DEF procVars, db, redis, obs

----------------------------------------------------------------------------
(* What a step does to tasks and handlers, as facts about one message or   *)
(* one handler: the theorems that follow count transmissions, tries        *)
(* and stops, and look at the actions only through these views.            *)

\* The other handlers stay where they are.
OnlyHandler(w) == \A u \in Workers \ {w} : wk'[u] = wk[u]

\* w goes on with its message and its context.
Walks(w) ==
  /\ wk[w].id \in Ids /\ wk'[w].id = wk[w].id /\ wk'[w].live = wk[w].live
  /\ OnlyHandler(w)
  /\ UNCHANGED <<proc, stops, pend, task, tries, req>>

\* The task of m is now in state s, with n tries; the other tasks are kept.
TaskNow(m, s, n) ==
  /\ task'[m] = s /\ tries'[m] = n
  /\ \A o \in Ids \ {m} : task'[o] = task[o] /\ tries'[o] = tries[o]

GivesUp(m) ==
  \/ tries[m] < MaxRetry /\ TaskNow(m, "retry", tries[m] + 1)
  \/ tries[m] >= MaxRetry /\ TaskNow(m, "archived", tries[m])

LEMMA RetryView ==
  ASSUME TInv, NEW m \in Ids, RetryOrArchive(m)
  PROVE  GivesUp(m)
  BY SMTT(60), PipelineAssumption DEF RetryOrArchive, MayRetry, GivesUp, TaskNow, TInv, TypeOK

\* A handler that went on with Goto.
LEMMA GotoView ==
  ASSUME TInv, NEW w \in Workers, NEW pc, NEW res, Goto(w, pc, res)
  PROVE  /\ wk'[w].pc = pc /\ wk'[w].res = res /\ wk'[w].id = wk[w].id
         /\ wk'[w].live = wk[w].live /\ OnlyHandler(w)
  BY SMTT(60) DEF Goto, OnlyHandler, TInv, TypeOK, WkType

LEMMA TakeView ==
  ASSUME TInv, NEW w \in Workers, TakeTask(w)
  PROVE  \E m \in Ids :
           /\ proc \in {"up", "draining"} /\ wk[w].pc = "idle" /\ task[m] = "pending"
           /\ TaskNow(m, "active", tries[m])
           /\ wk'[w].pc = "wait" /\ wk'[w].id = m /\ wk'[w].live /\ OnlyHandler(w)
           /\ UNCHANGED <<proc, stops, pend, status, job, req, sends>>
<1>1. PICK m \in Ids :
        /\ task[m] = "pending"
        /\ task' = [task EXCEPT ![m] = "active"]
        /\ wk' = [wk EXCEPT ![w] = [IdleWk EXCEPT !.pc = "wait", !.id = m, !.live = TRUE]]
  BY Zenon DEF TakeTask
<1>2. TaskNow(m, "active", tries[m])
  BY SMTT(60), <1>1 DEF TakeTask, TaskNow, TInv, TypeOK
<1>3. wk'[w].pc = "wait" /\ wk'[w].id = m /\ wk'[w].live /\ OnlyHandler(w)
  BY SMTT(60), <1>1 DEF IdleWk, OnlyHandler, TInv, TypeOK
<1> QED
  BY Zenon, <1>1, <1>2, <1>3 DEF TakeTask

LEMMA AbandonView ==
  ASSUME TInv, NEW w \in Workers, AbandonTask(w)
  PROVE  /\ "timeout" \in Faults /\ wk[w].pc # "idle" /\ wk[w].live /\ wk[w].id \in Ids
         /\ GivesUp(wk[w].id)
         /\ wk'[w].pc = wk[w].pc /\ wk'[w].id = wk[w].id /\ ~wk'[w].live /\ OnlyHandler(w)
         /\ UNCHANGED <<proc, stops, pend, status, job, req, sends>>
<1>1. wk[w].pc # "idle" /\ wk[w].live /\ wk[w].id \in Ids
  BY Zenon DEF AbandonTask, TInv, WkOK
<1>2. wk'[w].pc = wk[w].pc /\ wk'[w].id = wk[w].id /\ ~wk'[w].live /\ OnlyHandler(w)
  BY SMTT(60) DEF AbandonTask, OnlyHandler, TInv, TypeOK, WkType
<1> QED
  BY Zenon, <1>1, <1>2, RetryView DEF AbandonTask

LEMMA ReturnView ==
  ASSUME TInv, NEW w \in Workers, Return(w)
  PROVE  /\ wk[w].pc = "return" /\ wk[w].id \in Ids
         /\ \/ ~wk[w].live /\ UNCHANGED <<task, tries>>
            \/ wk[w].live /\ wk[w].res = "retry" /\ GivesUp(wk[w].id)
            \/ wk[w].live /\ wk[w].res = "done" /\ TaskNow(wk[w].id, "none", 0)
         /\ wk'[w].pc = "idle" /\ ~wk'[w].live /\ OnlyHandler(w)
         /\ UNCHANGED <<proc, stops, pend, status, job, req, sends>>
<1>1. wk[w].pc = "return" /\ wk[w].id \in Ids
  BY Zenon DEF Return, TInv, WkOK
<1>2. wk'[w].pc = "idle" /\ ~wk'[w].live /\ OnlyHandler(w)
  BY SMTT(60) DEF Return, OnlyHandler, IdleWk, TInv, TypeOK
<1>3. wk[w].res = "done" /\ task' = [task EXCEPT ![wk[w].id] = "none"]
        /\ tries' = [tries EXCEPT ![wk[w].id] = 0] => TaskNow(wk[w].id, "none", 0)
  BY SMTT(60), <1>1 DEF TaskNow, TInv, TypeOK
<1> QED
  BY Zenon, <1>1, <1>2, <1>3, RetryView DEF Return

\* The calls of the handler between its first and its return.
Handles(w) ==
  \/ LimiterWait(w) \/ LookupSender(w) \/ Send(w) \/ RecordFailed(w) \/ RecordJobFailed(w)
  \/ RecordSent(w) \/ RecordJobCompleted(w)

LEMMA HandlesWalks ==
  ASSUME TInv, NEW w \in Workers, Handles(w)
  PROVE  Walks(w) /\ wk[w].pc # "idle"
<1>0. wk[w].pc # "idle" /\ wk[w].id \in Ids
  BY Zenon DEF Handles, LimiterWait, LookupSender, Send, RecordFailed, RecordJobFailed, RecordSent,
               RecordJobCompleted, TInv, WkOK
<1>1. UNCHANGED <<proc, stops, pend, task, tries, req>>
  BY Zenon DEF Handles, LimiterWait, LookupSender, Send, RecordFailed, RecordJobFailed, RecordSent,
               RecordJobCompleted
<1>2. CASE \E pc, res : Goto(w, pc, res)
  BY Zenon, <1>0, <1>1, <1>2, GotoView DEF Walks
<1>3. CASE wk' = [wk EXCEPT ![w].pc = "sent", ![w].wa = sends[wk[w].id] + 1]
  <2>1. wk'[w].id = wk[w].id /\ wk'[w].live = wk[w].live /\ OnlyHandler(w)
    BY SMTT(60), <1>3 DEF OnlyHandler, TInv, TypeOK, WkType
  <2> QED
    BY Zenon, <1>0, <1>1, <2>1 DEF Walks
<1> QED
  BY Zenon, <1>0, <1>2, <1>3 DEF Handles, LimiterWait, LookupSender, Send, RecordFailed,
     RecordJobFailed, RecordSent, RecordJobCompleted

To(w, pc, res) == wk'[w].pc = pc /\ wk'[w].res = res

Counted(m) == sends'[m] = sends[m] + 1 /\ \A o \in Ids \ {m} : sends'[o] = sends[o]

\* The row of m may have changed, but not to queued.
Settled(m) ==
  status'[m] # "queued" /\ \A o \in Ids \ {m} : status'[o] = status[o]

JobOf(m) == \A o \in Ids \ {m} : job'[o] = job[o]

\* Where each call leads, and what it does to the row and the transmissions.
Leads(w) ==
  LET m == wk[w].id  live == wk[w].live IN
  \/ /\ wk[w].pc = "wait" /\ UNCHANGED <<status, job, sends>>
     /\ \/ live /\ DbUp /\ To(w, "lookup", "retry")
        \/ (~live \/ "wait" \in Faults \/ DbFails) /\ To(w, "return", "retry")
  \/ /\ wk[w].pc = "lookup" /\ UNCHANGED <<status, job, sends>>
     /\ To(w, "send", "retry") \/ To(w, "failed", "retry")
  \/ /\ wk[w].pc = "send" /\ UNCHANGED <<status, job>>
     /\ \/ Counted(m) /\ wk'[w].pc = "sent"
        \/ Counted(m) /\ "lost" \in Faults /\ To(w, "failed", "retry")
        \/ UNCHANGED sends /\ wk'[w].pc = "failed"
  \/ /\ wk[w].pc = "failed" /\ UNCHANGED <<job, sends>> /\ To(w, "jobFailed", wk[w].res)
     /\ (DbUp /\ Settled(m)) \/ (DbFails /\ UNCHANGED status)
  \/ /\ wk[w].pc = "jobFailed" /\ UNCHANGED <<status, sends>> /\ To(w, "return", wk[w].res)
     /\ (DbUp /\ JobOf(m)) \/ UNCHANGED job
  \/ /\ wk[w].pc = "sent" /\ UNCHANGED <<job, sends>>
     /\ \/ live /\ DbUp /\ Settled(m) /\ To(w, "completed", "done")
        \/ (~live \/ DbFails) /\ UNCHANGED status /\ To(w, "return", "retry")
  \/ /\ wk[w].pc = "completed" /\ UNCHANGED <<status, sends>> /\ To(w, "return", "done")
     /\ (DbUp /\ JobOf(m)) \/ UNCHANGED job

LEMMA HandlesView ==
  ASSUME TInv, NEW w \in Workers, Handles(w)
  PROVE  Leads(w)
<1>0. /\ wk[w].id \in Ids /\ sends \in [Ids -> Nat] /\ status \in [Ids -> Statuses \cup {"none"}]
      /\ job \in [Ids -> {"none", "waiting", "completed", "failed"}]
  BY Zenon, HandlesWalks DEF Walks, TInv, TypeOK
<1>1. \A pc, res : Goto(w, pc, res) => To(w, pc, res)
  BY Zenon, GotoView DEF To
<1>2. \A s \in {"failed", "sent"} : \A n : UpdateMessageStatus(wk[w].id, s, n) => Settled(wk[w].id)
  BY SMTT(60), <1>0 DEF UpdateMessageStatus, Settled
<1>3. \A s : UpdateQueueJob(wk[w].id, s) => JobOf(wk[w].id)
  BY Zenon, <1>0 DEF UpdateQueueJob, JobOf
<1>4. CASE LimiterWait(w) \/ LookupSender(w)
  BY Zenon, <1>1, <1>4 DEF LimiterWait, LookupSender, Leads
<1>5. CASE Send(w)
  <2>1. sends' = [sends EXCEPT ![wk[w].id] = @ + 1] => Counted(wk[w].id)
    BY Zenon, <1>0 DEF Counted
  <2>2. wk' = [wk EXCEPT ![w].pc = "sent", ![w].wa = sends[wk[w].id] + 1] => wk'[w].pc = "sent"
    BY SMTT(60) DEF TInv, TypeOK, WkType
  <2>3. CASE UNCHANGED sends /\ \E res : Goto(w, "failed", res)
    BY Zenon, <1>1, <1>5, <2>3 DEF Send, Leads, To
  <2>4. CASE ~(UNCHANGED sends /\ \E res : Goto(w, "failed", res))
    BY Zenon, <1>1, <1>5, <2>1, <2>2, <2>4 DEF Send, Leads
  <2> QED
    BY Zenon, <2>3, <2>4
<1>6. CASE RecordFailed(w) \/ RecordSent(w)
  BY Zenon, <1>1, <1>2, <1>6 DEF RecordFailed, RecordSent, AfterFailure, Leads
<1>7. CASE RecordJobFailed(w) \/ RecordJobCompleted(w)
  BY Zenon, <1>1, <1>3, <1>7 DEF RecordJobFailed, RecordJobCompleted, AfterSend, Leads
<1> QED
  BY Zenon, <1>4, <1>5, <1>6, <1>7 DEF Handles

\* NewTask finds the id free, or the caller skips it.
NewTaskView(m) ==
  \/ task[m] = "none" /\ TaskNow(m, "pending", 0)
  \/ UNCHANGED <<task, tries>>

LEMMA EnqueueView ==
  ASSUME TInv, NEW r \in Requests, Enqueue(r)
  PROVE  /\ req[r].pc = "enqueue" /\ req[r].id \in Ids /\ NewTaskView(req[r].id)
         /\ "redis" \notin Faults /\ task[req[r].id] = "none" =>
              TaskNow(req[r].id, "pending", 0)
         /\ req'[r].pc = "idle" /\ \A q \in Requests \ {r} : req'[q] = req[q]
         /\ UNCHANGED <<proc, stops, pend, status, job, wk, sends>>
<1>1. req[r].pc = "enqueue" /\ req[r].id \in Ids
  BY Zenon DEF Enqueue, TInv, ReqOK
<1>2. req' = [req EXCEPT ![r] = IdleReq]
  BY Zenon DEF Enqueue, Answer
<1>3. req'[r].pc = "idle" /\ \A q \in Requests \ {r} : req'[q] = req[q]
  BY Zenon, <1>2 DEF IdleReq, TInv, TypeOK
<1>4. NewTask(req[r].id) => TaskNow(req[r].id, "pending", 0)
  BY SMTT(60), <1>1 DEF NewTask, TaskNow, TInv, TypeOK
<1> QED
  BY Zenon, <1>1, <1>3, <1>4 DEF Enqueue, NewTask, NewTaskView

\* What neither touches a task nor a handler nor the process.
Aside ==
  \/ \E r \in Requests :
       \/ SendMessage(r) \/ ResendMessage(r) \/ DeleteMessage(r) \/ PutMessage(r)
       \/ FindExisting(r) \/ DeleteRow(r)
  \/ \E h \in Receivers : ReceiptRead(h) \/ ReceiptStep(h)

LEMMA AsideView ==
  ASSUME Aside
  PROVE  UNCHANGED <<proc, stops, pend, task, tries, wk, sends>>
  BY ZenonT(60) DEF Aside, SendMessage, ResendMessage, DeleteMessage, PutMessage, FindExisting,
     DeleteRow, ReceiptRead, ReceiptStep, ReceiptUpdate, ReceiptDispatch

\* Asynq's scheduler and Recover.
Schedules(m) == PromoteRetry(m) \/ LeaseExpired(m) \/ RecoverJob(m)

LEMMA SchedulesView ==
  ASSUME TInv, NEW m \in Ids, Schedules(m)
  PROVE  /\ UNCHANGED <<proc, stops, status, job, req, wk, sends>>
         /\ \/ /\ proc = "up" /\ task[m] = "retry" /\ pend' = pend
               /\ TaskNow(m, "pending", tries[m])
            \/ proc = "up" /\ task[m] = "active" /\ Orphaned(m) /\ pend' = pend /\ GivesUp(m)
            \/ /\ proc = "recovering" /\ m \in pend /\ pend' = pend \ {m}
               /\ NewTaskView(m) /\ (task[m] = "none" => TaskNow(m, "pending", 0))
<1>1. NewTask(m) => task[m] = "none" /\ TaskNow(m, "pending", 0)
  BY SMTT(60) DEF NewTask, TaskNow, TInv, TypeOK
<1>2. PromoteRetry(m) => TaskNow(m, "pending", tries[m])
  BY SMTT(60) DEF PromoteRetry, TaskNow, TInv, TypeOK
<1> QED
  BY Zenon, <1>1, <1>2, RetryView DEF Schedules, PromoteRetry, LeaseExpired, RecoverJob, NewTaskView

\* The process dies with its goroutines.
AllIdle ==
  /\ \A r \in Requests : req'[r].pc = "idle"
  /\ \A w \in Workers : wk'[w].pc = "idle" /\ ~wk'[w].live

LEMMA AllIdleView == GoroutinesDie => AllIdle
  BY SMTT(60) DEF GoroutinesDie, AllIdle, IdleReq, IdleWk

LEMMA ExitView ==
  ASSUME TInv, OneLiveHandler, Exit
  PROVE  /\ proc = "draining" /\ proc' = "down" /\ AllIdle
         /\ UNCHANGED <<stops, pend, status, job, tries, sends>>
         /\ \A m \in Ids :
              \/ Orphaned(m) /\ task'[m] = task[m]
              \/ ~Orphaned(m) /\ task[m] = "active" /\ task'[m] = "pending"
<1>1. \A m \in Ids : IF \E w \in Workers : wk[w].id = m /\ wk[w].live
                      THEN task'[m] = "pending" ELSE task'[m] = task[m]
  BY Zenon DEF Exit
<1>2. \A m \in Ids : ~Orphaned(m) => task[m] = "active"
  BY Zenon DEF Orphaned, OneLiveHandler
<1> QED
  BY Zenon, <1>1, <1>2, AllIdleView DEF Exit, Orphaned

LEMMA NextViews ==
  ASSUME [Next]_vars
  PROVE  \/ UNCHANGED vars \/ Aside \/ \E r \in Requests : Enqueue(r)
         \/ \E w \in Workers : TakeTask(w) \/ AbandonTask(w) \/ Return(w) \/ Handles(w)
         \/ \E m \in Ids : Schedules(m)
         \/ Crash \/ CloseDatabase \/ Exit \/ Restart \/ RecoverDone
  BY ZenonT(60) DEF Next, Aside, Handles, Schedules, HttpStep, HandlerStep

----------------------------------------------------------------------------
(* Where a message comes from.  A request that is about to enqueue is the  *)
(* only one for its message and finds no task, and nothing runs while the  *)
(* process is down or recovers.                                            *)

Resting == proc \in {"down", "recovering"}

FlowInv ==
  /\ \A r \in Requests : req[r].pc = "enqueue" => task[req[r].id] = "none"
  /\ \A r, q \in Requests :
       req[r].pc = "enqueue" /\ req[q].pc = "enqueue" /\ req[r].id = req[q].id => r = q
  /\ Resting => \A r \in Requests : req[r].pc = "idle"
  /\ Resting => \A w \in Workers : wk[w].pc = "idle"
  /\ proc = "draining" => stops > 0
  /\ \A m \in Ids : tries[m] <= MaxRetry

\* A task appears for a request at Enqueue, or while nothing runs.
LEMMA TaskBorn ==
  ASSUME TInv, OneLiveHandler, FlowInv, [Next]_vars, NEW m \in Ids, task[m] = "none", task'[m] # "none"
  PROVE  \/ \E r \in Requests : req[r].pc = "enqueue" /\ req[r].id = m /\ req'[r].pc = "idle"
         \/ \A r \in Requests : req'[r].pc = "idle"
<1>1. ASSUME NEW r \in Requests, Enqueue(r)
      PROVE  req[r].pc = "enqueue" /\ req[r].id = m /\ req'[r].pc = "idle"
  BY Zenon, <1>1, EnqueueView DEF TaskNow, NewTaskView
<1>2. ASSUME NEW w \in Workers, TakeTask(w) PROVE FALSE
  BY ZenonT(60), <1>2, TakeView DEF TaskNow
<1>3. ASSUME NEW w \in Workers, AbandonTask(w) PROVE FALSE
  BY ZenonT(60), <1>3, AbandonView DEF GivesUp, TaskNow, OneLiveHandler
<1>4. ASSUME NEW w \in Workers, Return(w) PROVE FALSE
  BY ZenonT(60), <1>4, ReturnView DEF GivesUp, TaskNow, OneLiveHandler
<1>5. ASSUME NEW w \in Workers, Handles(w) PROVE FALSE
  BY Zenon, <1>5, HandlesWalks DEF Walks
<1>6. ASSUME NEW o \in Ids, Schedules(o) PROVE \A r \in Requests : req'[r].pc = "idle"
  BY ZenonT(60), <1>6, SchedulesView DEF GivesUp, TaskNow, NewTaskView, FlowInv, Resting
<1>7. CASE Crash \/ CloseDatabase \/ Restart \/ RecoverDone
  BY Zenon, <1>7 DEF Crash, CloseDatabase, Restart, RecoverDone
<1>8. CASE Exit
  BY Zenon, <1>8, ExitView DEF AllIdle
<1>9. CASE UNCHANGED vars \/ Aside
  BY Zenon, <1>9, AsideView DEF vars
<1> QED
  BY Zenon, <1>1, <1>2, <1>3, <1>4, <1>5, <1>6, <1>7, <1>8, <1>9, NextViews

LEMMA FlowStep == TInv /\ OneLiveHandler /\ RowInv /\ FlowInv /\ [Next]_vars => FlowInv'
<1> SUFFICES ASSUME TInv, OneLiveHandler, RowInv, FlowInv, [Next]_vars PROVE FlowInv'
  BY Zenon
<1>1. ASSUME NEW q \in Requests, req'[q].pc = "enqueue" PROVE task'[req'[q].id] = "none"
  <2>1. CASE req'[q] = req[q]
    <3>1. req[q].id \in Ids /\ task[req[q].id] = "none"
      BY Zenon, <1>1, <2>1 DEF FlowInv, TInv, ReqOK
    <3>2. ASSUME NEW r \in Requests, req[r].pc = "enqueue", req[r].id = req[q].id PROVE r = q
      BY Zenon, <1>1, <2>1, <3>2 DEF FlowInv
    <3> QED
      BY Zenon, <1>1, <2>1, <3>1, <3>2, TaskBorn
  <2>2. CASE Insert(q) /\ req'[q].id = req[q].id
    BY Zenon, <2>2 DEF Insert, PutMessage, RowInv, Stored
  <2> QED
    BY Zenon, <1>1, <2>1, <2>2, EnqueuePcs
<1>2. ASSUME NEW r \in Requests, NEW q \in Requests, req'[r].pc = "enqueue", req'[q].pc = "enqueue",
             req'[r].id = req'[q].id
      PROVE  r = q
  <2>1. CASE req'[r] = req[r] /\ req'[q] = req[q]
    BY Zenon, <1>2, <2>1 DEF FlowInv
  <2>2. ASSUME NEW p \in Requests, NEW o \in Requests, req'[p].id = req[p].id,
               Insert(p), req'[o] = req[o], req'[o].pc = "enqueue"
        PROVE  req'[p].id # req'[o].id
    BY Zenon, <2>2 DEF Insert, RowInv
  <2>3. CASE Insert(r) /\ Insert(q) /\ req'[r].id = req[r].id /\ req'[q].id = req[q].id
    <3>1. req[r].pc = "put" /\ req[q].pc = "put" /\ req[r].id = req[q].id
      BY Zenon, <1>2, <2>3 DEF Insert
    <3> QED
      BY Zenon, <3>1 DEF RowInv
  <2> QED
    BY Zenon, <1>2, <2>1, <2>2, <2>3, EnqueuePcs
<1>3. ASSUME Resting'
      PROVE  /\ \A r \in Requests : req'[r].pc = "idle"
             /\ \A w \in Workers : wk'[w].pc = "idle"
  <2>1. CASE Crash \/ Exit
    BY Zenon, <2>1, AllIdleView DEF Crash, Exit, AllIdle
  <2>2. CASE UNCHANGED <<req, wk>> /\ Resting
    BY Zenon, <2>2 DEF FlowInv
  <2>3. ASSUME ~Crash, ~Exit PROVE Resting
    BY Zenon, <1>3, <2>3, NextViews, AsideView, EnqueueView, TakeView, AbandonView, ReturnView,
       HandlesWalks, SchedulesView
    DEF Walks, Resting, CloseDatabase, Restart, RecoverDone, vars
  <2>4. ASSUME Resting, ~Crash, ~Exit PROVE UNCHANGED <<req, wk>>
    <3>1. \A r \in Requests : req[r].pc = "idle"
      BY Zenon, <2>4 DEF FlowInv
    <3>2. \A w \in Workers : wk[w].pc = "idle"
      BY Zenon, <2>4 DEF FlowInv
    <3>3. ~Aside \/ UNCHANGED req
      BY ZenonT(60), <2>4, <3>1 DEF Aside, Resting, SendMessage, ResendMessage, DeleteMessage, PutMessage,
         FindExisting, DeleteRow, ReceiptRead, ReceiptStep, ReceiptUpdate, ReceiptDispatch
    <3>4. ASSUME NEW w \in Workers PROVE ~TakeTask(w) /\ ~AbandonTask(w) /\ ~Return(w) /\ ~Handles(w)
      BY ZenonT(60), <2>4, <3>2, TakeView, AbandonView, ReturnView, HandlesWalks DEF Resting
    <3>5. ASSUME NEW r \in Requests PROVE ~Enqueue(r)
      BY Zenon, <3>1 DEF Enqueue
    <3> QED
      BY ZenonT(60), <2>4, <3>3, <3>4, <3>5, NextViews, AsideView, SchedulesView
      DEF CloseDatabase, Restart, RecoverDone, vars
  <2> QED
    BY Zenon, <2>1, <2>2, <2>3, <2>4
<1>4. proc' = "draining" => stops' > 0
  <2>1. CASE CloseDatabase
    BY SMTT(60), <2>1 DEF CloseDatabase, TInv, TypeOK
  <2>2. ASSUME ~CloseDatabase, proc' = "draining" PROVE proc = "draining" /\ stops' = stops
    BY ZenonT(60), <2>2, NextViews, AsideView, EnqueueView, TakeView, AbandonView, ReturnView,
       HandlesWalks, SchedulesView
    DEF Walks, Crash, Exit, Restart, RecoverDone, vars
  <2> QED
    BY Zenon, <2>1, <2>2 DEF FlowInv
<1>5. ASSUME NEW m \in Ids PROVE tries'[m] <= MaxRetry
  <2>1. tries[m] <= MaxRetry /\ MaxRetry \in Nat /\ tries \in [Ids -> Nat]
    BY Zenon, PipelineAssumption DEF FlowInv, TInv, TypeOK
  <2>2. \A n \in Ids : \A k : TaskNow(n, k, 0) => tries'[m] <= MaxRetry
    BY SMTT(60), <2>1 DEF TaskNow
  <2>3. \A n \in Ids : \A k : TaskNow(n, k, tries[n]) => tries'[m] <= MaxRetry
    BY SMTT(60), <2>1 DEF TaskNow
  <2>4. \A n \in Ids : GivesUp(n) => tries'[m] <= MaxRetry
    BY SMTT(60), <2>1 DEF TaskNow, GivesUp
  <2>5. CASE tries' = tries
    BY Zenon, <2>1, <2>5
  <2> QED
    BY ZenonT(60), <2>2, <2>3, <2>4, <2>5, NextViews, AsideView, EnqueueView, TakeView, AbandonView,
       ReturnView, HandlesWalks, SchedulesView
    DEF NewTaskView, Walks, Crash, CloseDatabase, Exit, Restart, RecoverDone, vars
<1> QED
  BY Zenon, <1>1, <1>2, <1>3, <1>4, <1>5 DEF FlowInv

LEMMA FlowInvariant == Spec => []FlowInv
<1>1. Init => FlowInv
  BY SMTT(60), PipelineAssumption DEF Init, FlowInv, Resting, IdleReq, IdleWk
<1> QED
  BY <1>1, TypeInvariant, OneLiveHandlerAlways, RowInvariant, FlowStep, PTL DEF Spec

Waits(m) == \E r \in Requests : req[r].pc = "enqueue" /\ req[r].id = m

\* m is not stored yet, or the request that stored it has not enqueued it.
New(m) == ~Stored(m) \/ Waits(m)

\* A request waits for a message that it stored itself.
LEMMA NewShrinks ==
  ASSUME TInv, RowInv, [Next]_vars, NEW m \in Ids, New(m)'
  PROVE  New(m)
<1>1. Stored(m) => Stored(m)'
  BY Zenon, StepEffect DEF Effect, Quiet, Transmitted, Inserted, Erased, Attempted, Acknowledged,
     StoredKept
<1>2. Waits(m)' => Waits(m) \/ ~Stored(m)
  <2> SUFFICES ASSUME NEW q \in Requests, req'[q].pc = "enqueue", req'[q].id = m
               PROVE  Waits(m) \/ ~Stored(m)
    BY Zenon DEF Waits
  <2> QED
    BY Zenon, EnqueuePcs DEF Waits, Insert, RowInv
<1> QED
  BY Zenon, <1>1, <1>2 DEF New

----------------------------------------------------------------------------
(* AtMostOncePerLife.  Without lost answers, abandoned handlers and        *)
(* database errors every handler is live, so a message has one handler at  *)
(* a time, and one that has sent ends with "done".  A message that may     *)
(* still be sent in this life was sent at most once in each earlier one.   *)

Reliable == "lost" \notin Faults /\ "timeout" \notin Faults /\ "db" \notin Faults

AllLive == \A w \in Workers : wk[w].pc # "idle" => wk[w].live

LEMMA LiveAlways ==
  ASSUME "timeout" \notin Faults
  PROVE  Spec => []AllLive
<1>1. Init => AllLive
  BY SMTT(60) DEF Init, AllLive, IdleWk
<1>2. TInv /\ OneLiveHandler /\ AllLive /\ [Next]_vars => AllLive'
  <2> SUFFICES ASSUME TInv, OneLiveHandler, AllLive, [Next]_vars, NEW u \in Workers, wk'[u].pc # "idle"
               PROVE  wk'[u].live
    BY Zenon DEF AllLive
  <2>1. ASSUME NEW w \in Workers, TakeTask(w) PROVE wk'[u].live
    BY Zenon, <2>1, TakeView DEF OnlyHandler, AllLive
  <2>2. ASSUME NEW w \in Workers, AbandonTask(w) PROVE FALSE
    BY Zenon, <2>2, AbandonView
  <2>3. ASSUME NEW w \in Workers, Return(w) PROVE wk'[u].live
    BY Zenon, <2>3, ReturnView DEF OnlyHandler, AllLive
  <2>4. ASSUME NEW w \in Workers, Handles(w) PROVE wk'[u].live
    BY Zenon, <2>4, HandlesWalks DEF Walks, OnlyHandler, AllLive
  <2>5. CASE Crash \/ Exit
    BY Zenon, <2>5, AllIdleView DEF Crash, Exit, AllIdle
  <2>6. CASE wk' = wk
    BY Zenon, <2>6 DEF AllLive
  <2> QED
    BY Zenon, <2>1, <2>2, <2>3, <2>4, <2>5, <2>6, NextViews, AsideView, EnqueueView, SchedulesView
    DEF CloseDatabase, Restart, RecoverDone, vars
<1> QED
  BY <1>1, <1>2, TypeInvariant, OneLiveHandlerAlways, PTL DEF Spec

\* The handler of an attempt that was not accepted.
Unsent(w) ==
  \/ wk[w].pc \in {"wait", "lookup", "send", "failed", "jobFailed"}
  \/ wk[w].pc = "return" /\ wk[w].res = "retry"

\* m may still be transmitted in this life of the process.
Unspent(m) ==
  \/ task[m] \in {"pending", "retry"}
  \/ task[m] = "active" /\ \A w \in Workers : wk[w].live /\ wk[w].id = m => Unsent(w)
  \/ New(m)

\* w may transmit m although the process drains: it is past the limiter.
Sends(w, m) == wk[w].live /\ wk[w].id = m /\ wk[w].pc \in {"lookup", "send"}

LifeOK(m) ==
  /\ sends[m] <= 1 + stops
  /\ proc = "up" /\ Unspent(m) => sends[m] <= stops
  /\ proc # "up" => sends[m] <= stops
  /\ proc = "draining" => \A w \in Workers : Sends(w, m) => sends[m] < stops

LifeInv == \A m \in Ids : LifeOK(m)

\* A step that leaves the transmissions of m and the process alone.
LEMMA LifeKept ==
  ASSUME NEW m, LifeOK(m), UNCHANGED <<proc, stops>>, sends'[m] = sends[m],
         proc = "up" /\ Unspent(m)' => Unspent(m),
         proc = "draining" => \A w \in Workers : Sends(w, m)' => Sends(w, m)
  PROVE  LifeOK(m)'
  BY Zenon DEF LifeOK

\* The one live handler of m decides whether m is still to be sent.
LEMMA UnsentHandler ==
  ASSUME OneLiveHandler, NEW w \in Workers, wk[w].live, Unsent(w)
  PROVE  Unspent(wk[w].id)
  BY Zenon DEF OneLiveHandler, Unspent

\* Steps of the handler of another message.
LEMMA UnspentElse ==
  ASSUME TInv, RowInv, [Next]_vars, NEW m \in Ids, NEW w \in Workers, OnlyHandler(w),
         wk[w].live => wk[w].id # m, wk'[w].live => wk'[w].id # m, task'[m] = task[m]
  PROVE  /\ Unspent(m)' => Unspent(m)
         /\ \A u \in Workers : Sends(u, m)' => Sends(u, m)
<1>1. New(m)' => New(m)
  BY Zenon, NewShrinks
<1>2. \A u \in Workers : u # w => wk'[u] = wk[u]
  BY Zenon DEF OnlyHandler
<1>3. \A u \in Workers : Sends(u, m)' => Sends(u, m)
  BY Zenon, <1>2 DEF Sends
<1>4. ASSUME \A u \in Workers : wk'[u].live /\ wk'[u].id = m => Unsent(u)',
             NEW u \in Workers, wk[u].live, wk[u].id = m
      PROVE  Unsent(u)
  BY Zenon, <1>2, <1>4 DEF Unsent
<1> QED
  BY Zenon, <1>1, <1>3, <1>4 DEF Unspent

LEMMA LifeHandler ==
  ASSUME Reliable, TInv, OneLiveHandler, RowInv, FlowInv, AllLive, [Next]_vars, NEW m \in Ids, LifeOK(m),
         NEW w \in Workers, TakeTask(w) \/ Return(w) \/ Handles(w)
  PROVE  LifeOK(m)'
<1>0. New(m)' => Unspent(m)
  BY Zenon, NewShrinks DEF Unspent
<1>1. CASE TakeTask(w)
  <2>1. PICK n \in Ids :
           /\ wk[w].pc = "idle" /\ task[n] = "pending" /\ TaskNow(n, "active", tries[n])
           /\ wk'[w].pc = "wait" /\ wk'[w].id = n /\ OnlyHandler(w)
           /\ UNCHANGED <<proc, stops, pend, sends>>
    BY Zenon, <1>1, TakeView
  <2>2. ~wk[w].live
    BY Zenon, <2>1 DEF TInv, WkOK
  <2>3. \A u \in Workers : Sends(u, m)' => Sends(u, m)
    BY Zenon, <2>1 DEF Sends, OnlyHandler
  <2>4. Unspent(m)' => Unspent(m)
    <3>1. CASE m = n
      BY Zenon, <2>1, <3>1 DEF Unspent
    <3>2. CASE m # n
      BY Zenon, <2>1, <2>2, <3>2, UnspentElse DEF TaskNow
    <3> QED
      BY Zenon, <3>1, <3>2
  <2> QED
    BY Zenon, <2>1, <2>3, <2>4, LifeKept
<1>2. CASE Return(w)
  <2>0. /\ wk[w].pc = "return" /\ wk[w].live /\ wk[w].id \in Ids /\ ~wk'[w].live /\ OnlyHandler(w)
        /\ UNCHANGED <<proc, stops, sends>>
    BY Zenon, <1>2, ReturnView DEF AllLive
  <2>1. \A u \in Workers : Sends(u, m)' => Sends(u, m)
    BY Zenon, <2>0 DEF Sends, OnlyHandler
  <2>2. CASE m = wk[w].id /\ wk[w].res = "retry"
    <3>1. Unspent(m)
      BY Zenon, <2>0, <2>2, UnsentHandler DEF Unsent
    <3> QED
      BY Zenon, <2>0, <2>1, <3>1, LifeKept
  <2>3. CASE m = wk[w].id /\ TaskNow(m, "none", 0)
    <3>1. Unspent(m)' => Unspent(m)
      BY Zenon, <1>0, <2>3 DEF Unspent, TaskNow
    <3> QED
      BY Zenon, <2>0, <2>1, <3>1, LifeKept
  <2>4. CASE m # wk[w].id
    <3>1. task'[m] = task[m]
      BY Zenon, <1>2, <2>4, ReturnView DEF GivesUp, TaskNow
    <3> QED
      BY Zenon, <2>0, <2>1, <2>4, <3>1, UnspentElse, LifeKept
  <2> QED
    BY Zenon, <1>2, <2>0, <2>2, <2>3, <2>4, ReturnView
<1>3. CASE Handles(w)
  <2>0. Walks(w) /\ Leads(w) /\ wk[w].live /\ task[wk[w].id] = "active"
    BY Zenon, <1>3, HandlesWalks, HandlesView DEF AllLive, OneLiveHandler
  <2>1. CASE m # wk[w].id
    <3>1. sends'[m] = sends[m]
      BY Zenon, <2>0, <2>1 DEF Leads, Counted
    <3> QED
      BY Zenon, <2>0, <2>1, <3>1, UnspentElse, LifeKept DEF Walks
  <2>2. ASSUME m = wk[w].id, sends'[m] = sends[m], Unsent(w) PROVE LifeOK(m)'
    <3>1. Unspent(m)
      BY Zenon, <2>0, <2>2, UnsentHandler
    <3>2. proc = "draining" => \A u \in Workers : Sends(u, m)' => Sends(u, m)
      BY Zenon, <2>0, <2>2 DEF Walks, Leads, To, DbUp, Sends, OnlyHandler
    <3> QED
      BY Zenon, <2>0, <2>2, <3>1, <3>2, LifeKept DEF Walks
  <2>3. ASSUME m = wk[w].id, wk'[w].pc \in {"sent", "completed", "return"},
               proc = "up" => ~Unsent(w)'
        PROVE  /\ proc = "up" => ~Unspent(m)'
               /\ \A u \in Workers : ~Sends(u, m)'
    <3>1. ~New(m)'
      <4>1. task[m] = "active"
        BY Zenon, <2>0, <2>3
      <4>2. Stored(m) /\ ~Waits(m)
        BY Zenon, <4>1 DEF RowInv, FlowInv, Waits
      <4> QED
        BY Zenon, <4>2, NewShrinks DEF New
    <3>2. task'[m] = "active" /\ wk'[w].live /\ wk'[w].id = m
      BY Zenon, <2>0, <2>3 DEF Walks
    <3>3. proc = "up" => ~Unspent(m)'
      BY Zenon, <2>3, <3>1, <3>2 DEF Unspent
    <3>4. \A u \in Workers : u # w => ~(wk'[u].live /\ wk'[u].id = m)
      BY Zenon, <2>0, <2>3 DEF Walks, OnlyHandler, OneLiveHandler
    <3>5. ~Sends(w, m)'
      BY Zenon, <2>3 DEF Sends
    <3> QED
      BY Zenon, <3>3, <3>4, <3>5 DEF Sends
  <2>4. CASE m = wk[w].id /\ wk[w].pc = "send" /\ Counted(m) /\ wk'[w].pc = "sent"
    <3>1. Unspent(m) /\ Sends(w, m)
      BY Zenon, <2>0, <2>4, UnsentHandler DEF Unsent, Sends
    <3>2. (proc = "up" => ~Unspent(m)') /\ \A u \in Workers : ~Sends(u, m)'
      BY Zenon, <2>3, <2>4 DEF Unsent
    <3>3. proc \in {"up", "draining"}
      BY Zenon, <2>4 DEF FlowInv, Resting, TInv, TypeOK
    <3>4. (proc = "up" => sends[m] <= stops) /\ (proc = "draining" => sends[m] < stops)
      BY Zenon, <3>1 DEF LifeOK
    <3>5. /\ sends'[m] <= 1 + stops /\ (proc = "draining" => sends'[m] <= stops)
      BY SMTT(60), <2>4, <3>3, <3>4 DEF Counted, TInv, TypeOK
    <3> QED
      BY Zenon, <2>0, <3>2, <3>3, <3>5 DEF LifeOK, Walks
  <2>5. CASE m = wk[w].id /\ wk[w].pc \in {"sent", "completed"}
    <3>1. wk'[w].pc \in {"completed", "return"} /\ sends' = sends
      BY ZenonT(60), <2>0, <2>5 DEF Leads, To
    <3>2. proc = "up" => wk'[w].res = "done"
      BY Zenon, <2>0, <2>5 DEF Leads, To, DbFails, DbUp, Reliable
    <3>3. (proc = "up" => ~Unspent(m)') /\ \A u \in Workers : ~Sends(u, m)'
      BY Zenon, <2>3, <2>5, <3>1, <3>2 DEF Unsent
    <3> QED
      BY Zenon, <2>0, <3>1, <3>3, LifeKept DEF Walks
  <2>6. CASE m = wk[w].id /\ wk[w].pc \in {"wait", "lookup", "send", "failed", "jobFailed"} /\ sends' = sends
    BY Zenon, <2>2, <2>6 DEF Unsent
  <2> QED
    BY Zenon, <2>0, <2>1, <2>4, <2>5, <2>6 DEF Leads, Reliable
<1> QED
  BY Zenon, <1>1, <1>2, <1>3

LEMMA LifeOthers ==
  ASSUME TInv, OneLiveHandler, RowInv, FlowInv, [Next]_vars, NEW m \in Ids, LifeOK(m),
         UNCHANGED vars \/ Aside \/ (\E r \in Requests : Enqueue(r)) \/ \E n \in Ids : Schedules(n)
  PROVE  LifeOK(m)'
<1>0. New(m)' => New(m)
  BY Zenon, NewShrinks
<1>1. UNCHANGED <<proc, stops, wk, sends>>
  BY Zenon, AsideView, EnqueueView, SchedulesView DEF vars
<1>2. \A w \in Workers : Sends(w, m)' => Sends(w, m)
  BY Zenon, <1>1 DEF Sends
<1>3. CASE task'[m] = task[m]
  <2>1. Unspent(m)' => Unspent(m)
    BY Zenon, <1>0, <1>1, <1>3 DEF Unspent, Unsent
  <2> QED
    BY Zenon, <1>1, <1>2, <2>1, LifeKept
<1>4. CASE Unspent(m) \/ proc # "up"
  BY Zenon, <1>1, <1>2, <1>4, LifeKept
<1>5. ASSUME NEW r \in Requests, Enqueue(r) PROVE task'[m] = task[m] \/ Unspent(m)
  <2>1. CASE m = req[r].id
    BY Zenon, <1>5, <2>1, EnqueueView DEF Unspent, New, Waits
  <2>2. CASE m # req[r].id
    BY Zenon, <1>5, <2>2, EnqueueView DEF NewTaskView, TaskNow
  <2> QED
    BY Zenon, <2>1, <2>2
<1>6. ASSUME NEW n \in Ids, Schedules(n) PROVE task'[m] = task[m] \/ Unspent(m) \/ proc # "up"
  <2>1. CASE m = n
    BY Zenon, <1>6, <2>1, SchedulesView DEF Unspent, Orphaned
  <2>2. CASE m # n
    BY Zenon, <1>6, <2>2, SchedulesView DEF NewTaskView, GivesUp, TaskNow
  <2> QED
    BY Zenon, <2>1, <2>2
<1> QED
  BY Zenon, <1>3, <1>4, <1>5, <1>6, AsideView DEF vars

LEMMA LifeProcess ==
  ASSUME Reliable, TInv, OneLiveHandler, NEW m \in Ids, LifeOK(m),
         Crash \/ CloseDatabase \/ Exit \/ Restart \/ RecoverDone
  PROVE  LifeOK(m)'
<1>0. sends[m] \in Nat /\ stops \in Nat /\ sends' = sends
  BY Zenon DEF TInv, TypeOK, Crash, CloseDatabase, Exit, Restart, RecoverDone
<1>1. CASE Crash
  BY SMTT(60), <1>0, <1>1 DEF Crash, LifeOK
<1>2. CASE CloseDatabase
  <2>1. ASSUME NEW w \in Workers, Sends(w, m)' PROVE sends[m] <= stops
    BY Zenon, <1>2, <2>1, UnsentHandler DEF CloseDatabase, Sends, Unsent, LifeOK
  <2>2. proc' = "draining" /\ stops' = stops + 1 /\ sends[m] <= 1 + stops
    BY Zenon, <1>2 DEF CloseDatabase, LifeOK
  <2>3. sends'[m] <= stops' /\ sends'[m] <= 1 + stops' /\ (sends[m] <= stops => sends'[m] < stops')
    BY SMTT(60), <1>0, <2>2
  <2> QED
    BY Zenon, <2>1, <2>2, <2>3 DEF LifeOK
<1>3. CASE Exit \/ Restart \/ RecoverDone
  <2>1. stops' = stops /\ proc # "up" /\ proc' # "draining"
    BY Zenon, <1>3 DEF Exit, Restart, RecoverDone
  <2> QED
    BY Zenon, <1>0, <2>1 DEF LifeOK
<1> QED
  BY Zenon, <1>1, <1>2, <1>3

\* As long as no answer of WhatsApp is lost, no handler abandoned and no
\* statement fails, the worker transmits a message once per life of the
\* process: failed attempts and their retries, the requeueing of a shutdown,
\* expired leases and Recover repeat nothing that was accepted in this life.
THEOREM OncePerLifeWhenReliable ==
  ASSUME Reliable
  PROVE  Spec => []AtMostOncePerLife
<1>1. Init => LifeInv
  BY SMTT(60) DEF Init, LifeInv, LifeOK
<1>2. TInv /\ OneLiveHandler /\ RowInv /\ FlowInv /\ AllLive /\ LifeInv /\ [Next]_vars => LifeInv'
  <2> SUFFICES ASSUME TInv, OneLiveHandler, RowInv, FlowInv, AllLive, LifeInv, [Next]_vars,
                      NEW m \in Ids
               PROVE  LifeOK(m)'
    BY Zenon DEF LifeInv
  <2>1. LifeOK(m)
    BY Zenon DEF LifeInv
  <2>2. \A w \in Workers : ~AbandonTask(w)
    BY Zenon DEF AbandonTask, Reliable
  <2> QED
    BY Zenon, <2>1, <2>2, NextViews, LifeHandler, LifeOthers, LifeProcess
<1>3. LifeInv => AtMostOncePerLife
  BY Zenon DEF LifeInv, LifeOK, AtMostOncePerLife
<1>4. Spec => []AllLive
  BY Zenon, LiveAlways DEF Reliable
<1> QED
  BY <1>1, <1>2, <1>3, <1>4, TypeInvariant, OneLiveHandlerAlways, RowInvariant, FlowInvariant,
     PTL DEF Spec

----------------------------------------------------------------------------
(* QueuedIsWaiting.  The handler writes the message before its job, so a   *)
(* handler that is about to write the job has settled the message, unless  *)
(* the pool is closed; then it cannot write the job either.                *)

Wrote(w) == wk[w].pc = "completed" \/ (proc = "up" /\ wk[w].pc = "jobFailed")

WroteOK(w) == Wrote(w) => status[wk[w].id] # "queued"

TablesInv == QueuedIsWaiting /\ \A w \in Workers : WroteOK(w)

\* A row becomes queued by its insert alone.
LEMMA QueuedBefore ==
  ASSUME TInv, RowInv, [Next]_vars, NEW m \in Ids, status'[m] = "queued"
  PROVE  status[m] = "queued" \/ ~Stored(m)
<1>1. CASE Quiet \/ \E w \in Workers : Transmitted(w)
  BY Zenon, <1>1 DEF Quiet, Transmitted
<1>2. ASSUME NEW n \in Ids, Inserted(n) PROVE status[m] = "queued" \/ ~Stored(m)
  BY Zenon, <1>2 DEF Inserted, Write, TInv, TypeOK
<1>3. ASSUME NEW n \in Ids, NEW s, NEW k, s # "queued", Write(n, s, k) PROVE status[m] = "queued"
  BY Zenon, <1>3 DEF Write, TInv, TypeOK
<1>4. ASSUME NEW h \in Receivers, NEW n \in Ids, Acknowledged(h, n) PROVE rc[h].st # "queued"
  BY SMTT(60), <1>4 DEF Acknowledged, TInv, RcOK, RcType
<1> QED
  BY Zenon, <1>1, <1>2, <1>3, <1>4, StepEffect DEF Effect, Erased, Attempted, Acknowledged

LEMMA WroteStep ==
  ASSUME "db" \notin Faults, TInv, RowInv, FlowInv, [Next]_vars, \A w \in Workers : WroteOK(w),
         NEW u \in Workers
  PROVE  WroteOK(u)'
<1> USE DEF WroteOK, Wrote
<1>0. ASSUME wk[u].pc # "idle", status[wk[u].id] # "queued" PROVE status'[wk[u].id] # "queued"
  BY Zenon, <1>0, QueuedBefore DEF TInv, WkOK, RowInv
<1>1. CASE wk'[u].pc = wk[u].pc /\ wk'[u].id = wk[u].id /\ (proc' = proc \/ proc' # "up")
  BY Zenon, <1>0, <1>1
<1>2. ASSUME NEW w \in Workers, TakeTask(w) PROVE WroteOK(u)'
  <2>1. (wk'[w].pc = "wait" /\ OnlyHandler(w)) /\ proc' = proc
    BY Zenon, <1>2, TakeView
  <2> QED
    BY Zenon, <1>1, <2>1 DEF OnlyHandler
<1>3. ASSUME NEW w \in Workers, Return(w) PROVE WroteOK(u)'
  <2>1. (wk'[w].pc = "idle" /\ OnlyHandler(w)) /\ proc' = proc
    BY Zenon, <1>3, ReturnView
  <2> QED
    BY Zenon, <1>1, <2>1 DEF OnlyHandler
<1>4. ASSUME NEW w \in Workers, Handles(w) PROVE WroteOK(u)'
  <2>1. Walks(w) /\ Leads(w) /\ wk[w].pc # "idle"
    BY Zenon, <1>4, HandlesWalks, HandlesView
  <2>2. CASE u # w
    BY Zenon, <1>1, <2>1, <2>2 DEF Walks, OnlyHandler
  <2>3. CASE u = w
    <3>1. proc' = proc /\ wk'[w].id = wk[w].id
      BY Zenon, <2>1 DEF Walks
    <3>2. DbFails => proc # "up"
      BY Zenon DEF DbFails, DbUp
    <3> QED
      BY ZenonT(60), <1>0, <2>1, <2>3, <3>1, <3>2 DEF Leads, To, Settled
  <2> QED
    BY Zenon, <2>2, <2>3
<1>5. CASE Crash \/ Exit
  BY Zenon, <1>5, AllIdleView DEF Crash, Exit, AllIdle
<1>6. CASE Restart \/ RecoverDone
  <2>1. wk'[u].pc = "idle"
    BY Zenon, <1>6 DEF Restart, RecoverDone, FlowInv, Resting
  <2> QED
    BY Zenon, <2>1
<1>7. CASE UNCHANGED vars \/ Aside \/ (\E r \in Requests : Enqueue(r)) \/ (\E m \in Ids : Schedules(m))
           \/ CloseDatabase
  BY Zenon, <1>1, <1>7, AsideView, EnqueueView, SchedulesView DEF vars, CloseDatabase
<1>8. ASSUME NEW w \in Workers, AbandonTask(w) PROVE WroteOK(u)'
  <2>1. wk'[u].pc = wk[u].pc /\ wk'[u].id = wk[u].id /\ proc' = proc
    BY SMTT(60), <1>8 DEF AbandonTask, procVars, TInv, TypeOK, WkType
  <2> QED
    BY Zenon, <1>1, <2>1
<1> QED
  BY Zenon, <1>2, <1>3, <1>4, <1>5, <1>6, <1>7, <1>8, NextViews

\* A waiting row stays as it is while its message is queued.
LEMMA JobKept ==
  ASSUME TInv, RowInv, FlowInv, [Next]_vars, \A w \in Workers : WroteOK(w), NEW m \in Ids,
         status[m] = "queued", Stored(m)
  PROVE  job'[m] = job[m]
<1>1. ASSUME Aside PROVE job'[m] = job[m]
  <2>1. ASSUME NEW r \in Requests, PutMessage(r) PROVE job'[m] = job[m]
    <3>1. m # req[r].id
      BY Zenon, <2>1 DEF PutMessage, RowInv
    <3> QED
      BY Zenon, <2>1, <3>1 DEF PutMessage, TInv, TypeOK
  <2> QED
    BY ZenonT(60), <1>1, <2>1 DEF Aside, SendMessage, ResendMessage, DeleteMessage, FindExisting,
     DeleteRow, ReceiptRead, ReceiptStep, ReceiptUpdate, ReceiptDispatch
<1>2. ASSUME NEW w \in Workers, Handles(w) PROVE job'[m] = job[m]
  <2>1. Leads(w) /\ wk[w].pc # "idle"
    BY Zenon, <1>2, HandlesView, HandlesWalks
  <2>2. proc # "draining" => proc = "up"
    BY Zenon, <2>1 DEF FlowInv, Resting, TInv, TypeOK
  <2>3. Wrote(w) => wk[w].id # m
    BY Zenon DEF WroteOK
  <2> QED
    BY Zenon, <2>1, <2>2, <2>3 DEF Leads, JobOf, DbUp, Wrote
<1> QED
  BY Zenon, <1>1, <1>2, NextViews, EnqueueView, TakeView, AbandonView, ReturnView, SchedulesView
  DEF vars, Crash, CloseDatabase, Exit, Restart, RecoverDone

\* A row that is inserted is queued, and waiting in the other table.
LEMMA InsertedWaits ==
  ASSUME TInv, RowInv, [Next]_vars, NEW m \in Ids, ~Stored(m), status'[m] = "queued"
  PROVE  job'[m] = "waiting"
<1>1. status[m] # "queued"
  BY Zenon DEF RowInv
<1>2. PICK r \in Requests : Insert(r)
  BY Zenon, <1>1, KeySteps DEF RowInv
<1> QED
  BY Zenon, <1>1, <1>2 DEF Insert, TInv, TypeOK

\* While no statement fails but for a closed pool, a queued message has its
\* waiting queue_jobs row for Recover to find: neither crashes nor shutdowns
\* between the two UPDATEs of NewWorker, nor abandoned handlers that write
\* beside their successors, nor failing enqueues part the two tables.
THEOREM QueuedAlwaysWaiting ==
  ASSUME "db" \notin Faults
  PROVE  Spec => []QueuedIsWaiting
<1>1. Init => TablesInv
  BY SMTT(60) DEF Init, TablesInv, QueuedIsWaiting, WroteOK, Wrote, IdleWk
<1>2. TInv /\ RowInv /\ FlowInv /\ TablesInv /\ [Next]_vars => TablesInv'
  <2> SUFFICES ASSUME TInv, RowInv, FlowInv, TablesInv, [Next]_vars PROVE TablesInv'
    BY Zenon
  <2>1. \A w \in Workers : WroteOK(w)'
    BY Zenon, WroteStep DEF TablesInv
  <2>2. ASSUME NEW m \in Ids, status'[m] = "queued" PROVE job'[m] = "waiting"
    <3>1. CASE ~Stored(m)
      BY Zenon, <2>2, <3>1, InsertedWaits
    <3>2. CASE Stored(m)
      <4>1. status[m] = "queued"
        BY Zenon, <2>2, <3>2, QueuedBefore
      <4> QED
        BY Zenon, <3>2, <4>1, JobKept DEF TablesInv, QueuedIsWaiting
    <3> QED
      BY Zenon, <3>1, <3>2
  <2> QED
    BY Zenon, <2>1, <2>2 DEF TablesInv, QueuedIsWaiting
<1>3. TablesInv => QueuedIsWaiting
  BY Zenon DEF TablesInv
<1> QED
  BY <1>1, <1>2, <1>3, TypeInvariant, RowInvariant, FlowInvariant, PTL DEF Spec

----------------------------------------------------------------------------
(* NoStrandedMessage.  Four faults do strand a message: an enqueue that    *)
(* fails, a limiter that gives up, an abandoned handler and a statement    *)
(* that fails leave a row queued that nobody will look at again.  Without  *)
(* them a try is lost unrecorded only to a stop of the process, so that a  *)
(* queued message has counted no more tries than there were stops.         *)

Dependable ==
  "redis" \notin Faults /\ "wait" \notin Faults /\ "timeout" \notin Faults /\ "db" \notin Faults

\* The one query of Recover returns every waiting job.
RecoverAll == \A S \in SUBSET Ids : Cardinality(S) \in 0 .. RecoverLimit

\* A stop has cost m its current attempt, which is not counted yet.
Losing(m) ==
  \/ proc = "draining" /\ task[m] \in {"pending", "active"}
  \/ task[m] = "active" /\ Orphaned(m)

Tally(m) == IF Losing(m) THEN tries[m] + 1 ELSE tries[m]

Found(m) ==
  \/ /\ task[m] = "none"
     /\ Waits(m) \/ proc \in {"draining", "down"} \/ (proc = "recovering" /\ m \in pend)
  \/ task[m] \in {"pending", "active", "retry"} /\ Tally(m) <= stops
  \/ task[m] = "archived" /\ MaxRetry < stops

QueuedOK(m) == status[m] = "queued" => job[m] = "waiting" /\ Found(m)

\* A handler records its result before it returns, unless the pool is closed.
Recorded(w) ==
  wk[w].pc = "completed" \/ (proc = "up" /\ wk[w].pc \in {"jobFailed", "return"})

RecordedOK(w) == Recorded(w) => status[wk[w].id] # "queued"

KeptInv == (\A m \in Ids : QueuedOK(m)) /\ (\A w \in Workers : RecordedOK(w))

LEMMA RecordedStep ==
  ASSUME Dependable, TInv, OneLiveHandler, RowInv, FlowInv, AllLive, [Next]_vars, KeptInv,
         NEW u \in Workers
  PROVE  RecordedOK(u)'
<1> USE DEF RecordedOK, Recorded
<1>0. ASSUME wk[u].pc # "idle", status[wk[u].id] # "queued" PROVE status'[wk[u].id] # "queued"
  BY Zenon, <1>0, QueuedBefore DEF TInv, WkOK, RowInv
<1>1. CASE wk'[u] = wk[u] /\ (proc' = proc \/ proc' # "up")
  BY Zenon, <1>0, <1>1 DEF KeptInv
<1>2. ASSUME NEW w \in Workers, TakeTask(w) PROVE RecordedOK(u)'
  <2>1. (wk'[w].pc = "wait" /\ OnlyHandler(w)) /\ proc' = proc
    BY Zenon, <1>2, TakeView
  <2> QED
    BY Zenon, <1>1, <2>1 DEF OnlyHandler
<1>3. ASSUME NEW w \in Workers, Return(w) PROVE RecordedOK(u)'
  <2>1. (wk'[w].pc = "idle" /\ OnlyHandler(w)) /\ proc' = proc
    BY Zenon, <1>3, ReturnView
  <2> QED
    BY Zenon, <1>1, <2>1 DEF OnlyHandler
<1>4. ASSUME NEW w \in Workers, Handles(w) PROVE RecordedOK(u)'
  <2>1. Walks(w) /\ Leads(w) /\ wk[w].live /\ wk[w].pc # "idle"
    BY Zenon, <1>4, HandlesWalks, HandlesView DEF AllLive
  <2>2. CASE u # w
    BY Zenon, <1>1, <2>1, <2>2 DEF Walks, OnlyHandler
  <2>3. CASE u = w
    <3>1. proc' = proc /\ wk'[w].id = wk[w].id
      BY Zenon, <2>1 DEF Walks
    <3>2. DbFails => proc # "up"
      BY Zenon DEF DbFails, DbUp, Dependable
    <3>3. RecordedOK(w)
      BY Zenon DEF KeptInv
    <3> QED
      BY ZenonT(60), <1>0, <2>1, <2>3, <3>1, <3>2, <3>3 DEF Leads, To, Settled, Dependable
  <2> QED
    BY Zenon, <2>2, <2>3
<1>5. CASE Crash \/ Exit
  BY Zenon, <1>5, AllIdleView DEF Crash, Exit, AllIdle
<1>6. CASE Restart \/ RecoverDone
  <2>1. wk'[u].pc = "idle"
    BY Zenon, <1>6 DEF Restart, RecoverDone, FlowInv, Resting
  <2> QED
    BY Zenon, <2>1
<1>7. CASE UNCHANGED vars \/ Aside \/ (\E r \in Requests : Enqueue(r)) \/ (\E m \in Ids : Schedules(m))
           \/ CloseDatabase
  BY Zenon, <1>1, <1>7, AsideView, EnqueueView, SchedulesView DEF vars, CloseDatabase
<1> QED
  BY Zenon, <1>2, <1>3, <1>4, <1>5, <1>6, <1>7, NextViews DEF AbandonTask, Dependable

\* A request that waits goes on waiting until it enqueues or dies.
LEMMA WaitsKept ==
  ASSUME TInv, NEW m, Waits(m), UNCHANGED vars \/ Aside
  PROVE  Waits(m)'
<1>0. PICK q \in Requests : req[q].pc = "enqueue" /\ req[q].id = m
  BY Zenon DEF Waits
<1>1. ASSUME NEW r \in Requests,
             \/ SendMessage(r) \/ ResendMessage(r) \/ DeleteMessage(r) \/ PutMessage(r)
             \/ FindExisting(r) \/ DeleteRow(r)
      PROVE  req'[q] = req[q]
  <2>1. r # q
    BY Zenon, <1>0, <1>1 DEF SendMessage, ResendMessage, DeleteMessage, PutMessage, FindExisting, DeleteRow
  <2> QED
    BY ZenonT(60), <1>1, <2>1 DEF SendMessage, ResendMessage, DeleteMessage, PutMessage, FindExisting,
       DeleteRow, Answer, TInv, TypeOK
<1>2. ASSUME \/ UNCHANGED vars
             \/ \E h \in Receivers : ReceiptRead(h) \/ ReceiptStep(h)
      PROVE  req' = req
  BY Zenon, <1>2 DEF vars, ReceiptRead, ReceiptStep, ReceiptUpdate, ReceiptDispatch
<1> QED
  BY Zenon, <1>0, <1>1, <1>2 DEF Aside, Waits

\* m keeps its place: nothing that Found looks at has got worse.
LEMMA FoundKept ==
  ASSUME TInv, NEW m \in Ids, Found(m), UNCHANGED <<proc, stops>>, m \in pend => m \in pend',
         task'[m] = task[m], tries'[m] = tries[m], Waits(m) => Waits(m)', Orphaned(m)' => Orphaned(m)
  PROVE  Found(m)'
<1>1. Losing(m)' => Losing(m)
  BY Zenon DEF Losing
<1>2. tries[m] \in Nat /\ stops \in Nat
  BY Zenon DEF TInv, TypeOK
<1>3. Tally(m) <= stops => Tally(m)' <= stops'
  BY SMTT(60), <1>1, <1>2 DEF Tally
<1> QED
  BY Zenon, <1>3 DEF Found

\* Giving up a try that a stop has cost: it is counted, or it was the last.
LEMMA FoundGivesUp ==
  ASSUME TInv, FlowInv, NEW m \in Ids, Found(m), task[m] = "active", Losing(m), GivesUp(m), stops' = stops
  PROVE  Found(m)'
<1>1. tries[m] \in Nat /\ stops \in Nat /\ MaxRetry \in Nat /\ tries[m] + 1 <= stops
  BY Zenon, PipelineAssumption DEF TInv, TypeOK, Found, Tally
<1>2. CASE tries[m] < MaxRetry /\ TaskNow(m, "retry", tries[m] + 1)
  <2>1. task'[m] = "retry" /\ ~Losing(m)'
    BY Zenon, <1>2 DEF TaskNow, Losing
  <2> QED
    BY Zenon, <1>1, <1>2, <2>1 DEF Found, Tally, TaskNow
<1>3. CASE tries[m] >= MaxRetry /\ TaskNow(m, "archived", tries[m])
  <2>1. MaxRetry < stops'
    BY SMTT(60), <1>1, <1>3
  <2> QED
    BY Zenon, <1>3, <2>1 DEF Found, TaskNow
<1> QED
  BY Zenon, <1>2, <1>3 DEF GivesUp

LEMMA FoundNewTask ==
  ASSUME TInv, FlowInv, NEW m \in Ids, TaskNow(m, "pending", 0), UNCHANGED <<proc, stops>>
  PROVE  Found(m)'
<1>1. stops \in Nat /\ (proc = "draining" => stops > 0)
  BY Zenon DEF TInv, TypeOK, FlowInv
<1>2. Tally(m)' <= stops'
  BY SMTT(60), <1>1 DEF Tally, Losing, TaskNow
<1> QED
  BY Zenon, <1>2 DEF Found, TaskNow

LEMMA FoundHandler ==
  ASSUME Dependable, TInv, OneLiveHandler, FlowInv, AllLive, KeptInv, NEW m \in Ids, status[m] = "queued",
         Found(m), NEW w \in Workers, TakeTask(w) \/ Return(w) \/ Handles(w)
  PROVE  Found(m)'
<1>1. CASE TakeTask(w)
  <2>1. PICK n \in Ids :
           /\ wk[w].pc = "idle" /\ task[n] = "pending" /\ TaskNow(n, "active", tries[n])
           /\ wk'[w].id = n /\ wk'[w].live /\ OnlyHandler(w) /\ UNCHANGED <<proc, stops, pend, req>>
    BY Zenon, <1>1, TakeView
  <2>2. CASE m # n
    <3>1. Orphaned(m)' => Orphaned(m)
      BY Zenon, <2>1, <2>2 DEF Orphaned, OnlyHandler, TInv, WkOK
    <3> QED
      BY Zenon, <2>1, <2>2, <3>1, FoundKept DEF TaskNow, Waits
  <2>3. CASE m = n
    <3>1. ~Orphaned(m)'
      BY Zenon, <2>1, <2>3 DEF Orphaned
    <3>2. task'[m] = "active" /\ tries'[m] = tries[m] /\ Tally(m) <= stops
      BY Zenon, <2>1, <2>3 DEF TaskNow, Found
    <3>3. Losing(m)' <=> Losing(m)
      BY Zenon, <2>1, <2>3, <3>1, <3>2 DEF Losing
    <3>4. Tally(m)' <= stops'
      BY Zenon, <2>1, <3>2, <3>3 DEF Tally
    <3> QED
      BY Zenon, <3>2, <3>4 DEF Found
  <2> QED
    BY Zenon, <2>2, <2>3
<1>2. CASE Return(w)
  <2>0. /\ wk[w].pc = "return" /\ wk[w].live /\ wk[w].id \in Ids /\ ~wk'[w].live /\ OnlyHandler(w)
        /\ UNCHANGED <<proc, stops, pend, req>>
        /\ GivesUp(wk[w].id) \/ TaskNow(wk[w].id, "none", 0)
    BY Zenon, <1>2, ReturnView DEF AllLive
  <2>1. CASE m # wk[w].id
    <3>1. task'[m] = task[m] /\ tries'[m] = tries[m]
      BY Zenon, <2>0, <2>1 DEF GivesUp, TaskNow
    <3>2. Orphaned(m)' => Orphaned(m)
      BY Zenon, <2>0, <2>1 DEF Orphaned, OnlyHandler
    <3> QED
      BY Zenon, <2>0, <3>1, <3>2, FoundKept DEF Waits
  <2>2. CASE m = wk[w].id
    <3>1. proc = "draining"
      BY Zenon, <2>0, <2>2 DEF KeptInv, RecordedOK, Recorded, FlowInv, Resting, TInv, TypeOK
    <3>2. task[m] = "active"
      BY Zenon, <2>0, <2>2 DEF OneLiveHandler
    <3>3. CASE GivesUp(m)
      BY Zenon, <2>0, <3>1, <3>2, <3>3, FoundGivesUp DEF Losing
    <3>4. CASE TaskNow(m, "none", 0)
      BY Zenon, <2>0, <3>1, <3>4 DEF Found, TaskNow
    <3> QED
      BY Zenon, <2>0, <2>2, <3>3, <3>4
  <2> QED
    BY Zenon, <2>1, <2>2
<1>3. CASE Handles(w)
  <2>1. Walks(w)
    BY Zenon, <1>3, HandlesWalks
  <2>2. Orphaned(m)' => Orphaned(m)
    BY Zenon, <2>1 DEF Walks, OnlyHandler, Orphaned
  <2> QED
    BY Zenon, <2>1, <2>2, FoundKept DEF Walks, Waits
<1> QED
  BY Zenon, <1>1, <1>2, <1>3

LEMMA FoundOthers ==
  ASSUME Dependable, TInv, OneLiveHandler, FlowInv, NEW m \in Ids, Found(m),
         UNCHANGED vars \/ Aside \/ (\E r \in Requests : Enqueue(r)) \/ \E n \in Ids : Schedules(n)
  PROVE  Found(m)'
<1>0. wk' = wk => (Orphaned(m)' => Orphaned(m))
  BY Zenon DEF Orphaned
<1>1. CASE UNCHANGED vars \/ Aside
  <2>1. UNCHANGED <<proc, stops, pend, task, tries, wk>>
    BY Zenon, <1>1, AsideView DEF vars
  <2> QED
    BY Zenon, <1>0, <1>1, <2>1, WaitsKept, FoundKept
<1>2. ASSUME NEW r \in Requests, Enqueue(r) PROVE Found(m)'
  <2>1. CASE m = req[r].id
    BY Zenon, <1>2, <2>1, EnqueueView, FoundNewTask DEF FlowInv, Dependable
  <2>2. CASE m # req[r].id
    <3>1. Waits(m) => Waits(m)'
      BY Zenon, <1>2, <2>2, EnqueueView DEF Waits
    <3>2. task'[m] = task[m] /\ tries'[m] = tries[m]
      BY Zenon, <1>2, <2>2, EnqueueView DEF NewTaskView, TaskNow
    <3> QED
      BY Zenon, <1>0, <1>2, <3>1, <3>2, EnqueueView, FoundKept
  <2> QED
    BY Zenon, <2>1, <2>2
<1>3. ASSUME NEW n \in Ids, Schedules(n) PROVE Found(m)'
  <2>0. UNCHANGED <<proc, stops, wk, req>>
    BY Zenon, <1>3, SchedulesView
  <2>1. CASE m # n
    <3>1. task'[m] = task[m] /\ tries'[m] = tries[m] /\ (m \in pend => m \in pend')
      BY Zenon, <1>3, <2>1, SchedulesView DEF NewTaskView, GivesUp, TaskNow
    <3> QED
      BY Zenon, <1>0, <2>0, <3>1, FoundKept DEF Waits
  <2>2. CASE m = n /\ proc = "up" /\ task[m] = "retry" /\ TaskNow(m, "pending", tries[m])
    <3>1. Tally(m) <= stops /\ ~Losing(m)' /\ ~Losing(m) /\ task'[m] = "pending" /\ tries'[m] = tries[m]
      BY Zenon, <2>0, <2>2 DEF Found, Losing, TaskNow
    <3> QED
      BY Zenon, <2>0, <3>1 DEF Found, Tally
  <2>3. CASE m = n /\ task[m] = "active" /\ Orphaned(m) /\ GivesUp(m)
    BY Zenon, <2>0, <2>3, FoundGivesUp DEF Losing
  <2>4. CASE m = n /\ TaskNow(m, "pending", 0)
    BY Zenon, <2>0, <2>4, FoundNewTask
  <2>5. CASE task[m] # "none" /\ UNCHANGED <<task, tries>>
    <3>1. Losing(m)' <=> Losing(m)
      BY Zenon, <2>0, <2>5 DEF Losing, Orphaned
    <3> QED
      BY Zenon, <2>0, <2>5, <3>1 DEF Found, Tally
  <2> QED
    BY Zenon, <1>3, <2>1, <2>2, <2>3, <2>4, <2>5, SchedulesView DEF NewTaskView
<1> QED
  BY Zenon, <1>1, <1>2, <1>3

LEMMA FoundProcess ==
  ASSUME Dependable, RecoverAll, TInv, OneLiveHandler, FlowInv, NEW m \in Ids, Found(m),
         job[m] = "waiting", Crash \/ CloseDatabase \/ Exit \/ Restart \/ RecoverDone
  PROVE  Found(m)'
<1>0. tries[m] \in Nat /\ stops \in Nat /\ MaxRetry \in Nat /\ tries' = tries
  BY Zenon, PipelineAssumption DEF TInv, TypeOK, Crash, CloseDatabase, Exit, Restart, RecoverDone
<1>1. CASE Crash \/ CloseDatabase
  <2>1. task' = task /\ stops' = stops + 1 /\ proc' \in {"draining", "down"}
    BY Zenon, <1>1 DEF Crash, CloseDatabase
  <2>2. Tally(m) <= stops => Tally(m)' <= stops'
    BY SMTT(60), <1>0, <2>1 DEF Tally
  <2>3. MaxRetry < stops => MaxRetry < stops'
    BY SMTT(60), <1>0, <2>1
  <2> QED
    BY Zenon, <2>1, <2>2, <2>3 DEF Found
<1>2. CASE Exit
  <2>0. stops' = stops /\ proc = "draining" /\ proc' = "down"
    BY Zenon, <1>2, ExitView
  <2>1. CASE Orphaned(m) /\ task'[m] = task[m]
    <3>1. Losing(m)' => Losing(m)
      BY Zenon, <2>0, <2>1 DEF Losing
    <3>2. Tally(m) <= stops => Tally(m)' <= stops'
      BY SMTT(60), <1>0, <2>0, <3>1 DEF Tally
    <3> QED
      BY Zenon, <2>0, <2>1, <3>2 DEF Found
  <2>2. CASE task[m] = "active" /\ task'[m] = "pending"
    <3>1. Tally(m) <= stops /\ ~Losing(m)'
      BY Zenon, <2>0, <2>2 DEF Found, Losing
    <3>2. Tally(m)' <= stops'
      BY SMTT(60), <1>0, <2>0, <3>1 DEF Tally
    <3> QED
      BY Zenon, <2>2, <3>2 DEF Found
  <2> QED
    BY Zenon, <1>2, <2>1, <2>2, ExitView
<1>3. CASE Restart
  <2>1. Cardinality(PendingQueueJobs) \in 0 .. RecoverLimit
    BY Zenon DEF PendingQueueJobs, RecoverAll
  <2>2. ~(Cardinality(PendingQueueJobs) > RecoverLimit)
    BY SMTT(60), <2>1, PipelineAssumption
  <2>4. proc = "down" /\ proc' = "recovering" /\ pend' = PendingQueueJobs /\ UNCHANGED <<stops, task, wk>>
    BY Zenon, <1>3, <2>2 DEF Restart, Dependable
  <2>5. m \in pend'
    BY Zenon, <2>4 DEF PendingQueueJobs
  <2>6. Losing(m)' <=> Losing(m)
    BY Zenon, <2>4 DEF Losing, Orphaned
  <2> QED
    BY Zenon, <1>0, <2>4, <2>5, <2>6 DEF Found, Tally
<1>4. CASE RecoverDone
  <2>1. proc = "recovering" /\ pend = {} /\ proc' = "up" /\ UNCHANGED <<stops, task, wk, req>>
    BY Zenon, <1>4 DEF RecoverDone, RecoverEnds, Dependable
  <2>2. Losing(m)' <=> Losing(m)
    BY Zenon, <2>1 DEF Losing, Orphaned
  <2> QED
    BY Zenon, <1>0, <2>1, <2>2 DEF Found, Tally, Waits
<1> QED
  BY Zenon, <1>1, <1>2, <1>3, <1>4

LEMMA QueuedStep ==
  ASSUME Dependable, RecoverAll, TInv, OneLiveHandler, RowInv, FlowInv, AllLive, KeptInv, [Next]_vars,
         NEW m \in Ids
  PROVE  QueuedOK(m)'
<1> SUFFICES ASSUME status'[m] = "queued" PROVE job'[m] = "waiting" /\ Found(m)'
  BY Zenon DEF QueuedOK
<1>1. CASE status[m] = "queued"
  <2>1. job[m] = "waiting" /\ Found(m) /\ Stored(m)
    BY Zenon, <1>1 DEF KeptInv, QueuedOK, RowInv
  <2>2. \A w \in Workers : ~AbandonTask(w)
    BY Zenon DEF AbandonTask, Dependable
  <2>3. Found(m)'
    BY Zenon, <1>1, <2>1, <2>2, NextViews, FoundHandler, FoundOthers, FoundProcess
  <2>4. \A w \in Workers : WroteOK(w)
    BY Zenon DEF KeptInv, RecordedOK, Recorded, WroteOK, Wrote
  <2> QED
    BY Zenon, <1>1, <2>1, <2>3, <2>4, JobKept
<1>2. CASE ~Stored(m) /\ status[m] # "queued"
  <2>1. PICK r \in Requests : PutMessage(r) /\ req[r].id = m /\ job'[m] = "waiting"
                              /\ req'[r].pc = "enqueue" /\ req'[r].id = m
    <3>1. PICK r \in Requests : Insert(r)
      BY Zenon, <1>2, KeySteps DEF RowInv
    <3>2. req[r].id = m /\ job'[m] = "waiting"
      BY Zenon, <1>2, <3>1 DEF Insert, TInv, TypeOK
    <3>3. req' = [req EXCEPT ![r].pc = "enqueue"]
      BY Zenon, <1>2, <3>1 DEF Insert, PutMessage
    <3>4. req'[r].pc = "enqueue" /\ req'[r].id = req[r].id
      BY SMTT(60), <3>3 DEF TInv, TypeOK, ReqType
    <3> QED
      BY Zenon, <3>1, <3>2, <3>4 DEF Insert
  <2>2. task'[m] = "none"
    BY Zenon, <1>2, <2>1 DEF PutMessage, RowInv
  <2> QED
    BY Zenon, <2>1, <2>2 DEF Found, Waits
<1> QED
  BY Zenon, <1>1, <1>2, QueuedBefore

\* No queued message is forgotten by the gateway while the process has
\* stopped at most MaxRetry times, provided that no enqueue, limiter or
\* statement fails and no handler is abandoned: PutMessage and Enqueue,
\* NewWorker and its retries, the requeueing of a shutdown, expired leases
\* and Recover hand the message on without losing it.
THEOREM NoneStrandedWhenDependable ==
  ASSUME Dependable, RecoverAll
  PROVE  Spec => [](stops <= MaxRetry => NoStrandedMessage)
<1>1. Init => KeptInv
  BY SMTT(60) DEF Init, KeptInv, QueuedOK, RecordedOK, Recorded, IdleWk
<1>2. TInv /\ OneLiveHandler /\ RowInv /\ FlowInv /\ AllLive /\ KeptInv /\ [Next]_vars => KeptInv'
  BY Zenon, RecordedStep, QueuedStep DEF KeptInv
<1>3. TInv /\ KeptInv => (stops <= MaxRetry => NoStrandedMessage)
  <2> SUFFICES ASSUME TInv, KeptInv, stops <= MaxRetry, NEW m \in Ids, status[m] = "queued"
               PROVE  \/ task[m] \in {"pending", "active", "retry"}
                      \/ \E r \in Requests : req[r].pc = "enqueue" /\ req[r].id = m
                      \/ /\ task[m] = "none" /\ job[m] = "waiting"
                         /\ proc \in {"draining", "down"} \/ m \in pend
    BY Zenon DEF NoStrandedMessage
  <2>1. job[m] = "waiting" /\ Found(m)
    BY Zenon DEF KeptInv, QueuedOK
  <2>2. ~(MaxRetry < stops)
    BY SMTT(60), PipelineAssumption DEF TInv, TypeOK
  <2> QED
    BY Zenon, <2>1, <2>2 DEF Found, Waits
<1>4. Spec => []AllLive
  BY Zenon, LiveAlways DEF Dependable
<1> QED
  BY <1>1, <1>2, <1>3, <1>4, TypeInvariant, OneLiveHandlerAlways, RowInvariant, FlowInvariant,
     PTL DEF Spec

----------------------------------------------------------------------------
(* DuplicatesBounded.  What a message may still cost in transmissions is   *)
(* paid for in advance: by the handlers that have not sent yet, by the     *)
(* tries Asynq has left for its task, by the request that is about to      *)
(* enqueue it, and by the re-enqueueing that follows a stop.  No step      *)
(* raises the sum, and each stop adds MaxRetry + 1 to what is allowed.     *)

Ready(m) == {w \in Workers : wk[w].pc \in {"wait", "lookup", "send"} /\ wk[w].id = m}

Left(m) ==
  IF task[m] \in {"pending", "retry"} THEN MaxRetry + 1 - tries[m]
  ELSE IF task[m] = "active" THEN MaxRetry - tries[m] ELSE 0

First(m) == IF New(m) THEN MaxRetry + 1 ELSE 0

\* A shutdown may requeue the task; a stop lets Recover enqueue it anew.
Requeued(m) ==
  \/ proc = "draining"
  \/ task[m] = "none" /\ (proc = "down" \/ (proc = "recovering" /\ m \in pend))

Reserve(m) == IF Requeued(m) THEN MaxRetry + 1 ELSE 0

Cost(m) == sends[m] + Cardinality(Ready(m)) + Left(m) + First(m) + Reserve(m)

BudgetInv == \A m \in Ids : Cost(m) <= (MaxRetry + 1) * (1 + stops)

LEMMA OneMoreStop == \A b, s \in Nat : b * (1 + (s + 1)) = b * (1 + s) + b
  BY SMTT(60)

CostOK(m) ==
  /\ sends[m] \in Nat /\ Cardinality(Ready(m)) \in Nat /\ Left(m) \in Nat
  /\ First(m) \in {0, MaxRetry + 1} /\ Reserve(m) \in {0, MaxRetry + 1}

\* The handlers that have not sent yet: what their number does when one
\* leaves, or comes with TakeTask.
ReadyCounts(m) ==
  /\ Ready(m)' \subseteq Ready(m) => Cardinality(Ready(m)') <= Cardinality(Ready(m))
  /\ \A w \in Ready(m) : Ready(m)' \subseteq Ready(m) \ {w} =>
        Cardinality(Ready(m)') + 1 <= Cardinality(Ready(m))
  /\ \A w : Ready(m)' = Ready(m) \cup {w} => Cardinality(Ready(m)') <= Cardinality(Ready(m)) + 1

LEMMA FirstShrinks ==
  ASSUME TInv, RowInv, [Next]_vars, NEW m \in Ids
  PROVE  First(m)' = First(m) \/ First(m)' = 0
  BY Zenon, NewShrinks DEF First

\* A step that neither stops the process nor makes m dearer.
NotDearer(m) == stops' = stops /\ Cost(m)' <= Cost(m)

\* Each part of the cost stays or falls.
LEMMA PartsFall ==
  ASSUME NEW m \in Ids, CostOK(m), CostOK(m)', stops' = stops, sends'[m] = sends[m],
         Cardinality(Ready(m)') <= Cardinality(Ready(m)), Left(m)' <= Left(m),
         First(m)' = First(m) \/ First(m)' = 0, Requeued(m)' => Requeued(m)
  PROVE  NotDearer(m)
<1>1. Reserve(m)' = Reserve(m) \/ Reserve(m)' = 0
  BY Zenon DEF Reserve
<1> QED
  BY SMTT(60), <1>1, PipelineAssumption DEF NotDearer, Cost, CostOK

\* Giving an active task up leaves the tries that were left.
LEMMA LeftGivesUp ==
  ASSUME TInv, FlowInv, NEW m \in Ids, NEW n \in Ids, task[n] = "active", GivesUp(n)
  PROVE  Left(m)' <= Left(m) /\ (task'[m] = "none" => task[m] = "none")
<1>1. tries[m] \in Nat /\ MaxRetry \in Nat /\ tries[m] <= MaxRetry
  BY Zenon, PipelineAssumption DEF TInv, TypeOK, FlowInv
<1>2. CASE m = n
  BY SMTT(60), <1>1, <1>2 DEF GivesUp, TaskNow, Left
<1>3. CASE m # n
  <2>1. task'[m] = task[m] /\ tries'[m] = tries[m]
    BY Zenon, <1>3 DEF GivesUp, TaskNow
  <2> QED
    BY SMTT(60), <1>1, <2>1 DEF Left
<1> QED
  BY Zenon, <1>2, <1>3

LEMMA LeftKept ==
  ASSUME TInv, NEW m \in Ids, task'[m] = task[m], tries'[m] = tries[m]
  PROVE  Left(m)' <= Left(m)
  BY SMTT(60), PipelineAssumption DEF Left, TInv, TypeOK

\* Handlers.
LEMMA CostHandler ==
  ASSUME TInv, OneLiveHandler, FlowInv, RowInv, [Next]_vars, NEW m \in Ids,
         CostOK(m), CostOK(m)', ReadyCounts(m),
         NEW w \in Workers, TakeTask(w) \/ AbandonTask(w) \/ Return(w) \/ Handles(w)
  PROVE  NotDearer(m)
<1>0. First(m)' = First(m) \/ First(m)' = 0
  BY Zenon, FirstShrinks
<1>1. CASE TakeTask(w)
  <2>1. PICK n \in Ids :
           /\ wk[w].pc = "idle" /\ task[n] = "pending" /\ TaskNow(n, "active", tries[n])
           /\ wk'[w].pc = "wait" /\ wk'[w].id = n /\ OnlyHandler(w)
           /\ UNCHANGED <<proc, stops, pend, sends>>
    BY Zenon, <1>1, TakeView
  <2>2. Requeued(m)' => Requeued(m)
    BY Zenon, <2>1 DEF Requeued, TaskNow
  <2>3. CASE m # n
    <3>1. Ready(m)' \subseteq Ready(m)
      BY Zenon, <2>1, <2>3 DEF Ready, OnlyHandler
    <3>2. Left(m)' <= Left(m)
      BY Zenon, <2>1, <2>3, LeftKept DEF TaskNow
    <3> QED
      BY Zenon, <1>0, <2>1, <2>2, <3>1, <3>2, PartsFall DEF ReadyCounts
  <2>4. CASE m = n
    <3>1. Ready(m)' = Ready(m) \cup {w}
      BY Zenon, <2>1, <2>4 DEF Ready, OnlyHandler
    <3>2. Cardinality(Ready(m)') <= Cardinality(Ready(m)) + 1
      BY Zenon, <3>1 DEF ReadyCounts
    <3>3. Left(m)' = Left(m) - 1
      BY SMTT(60), <2>1, <2>4, PipelineAssumption DEF Left, TaskNow, TInv, TypeOK
    <3>4. Reserve(m)' = Reserve(m) \/ Reserve(m)' = 0
      BY Zenon, <2>2 DEF Reserve
    <3> QED
      BY SMTT(60), <1>0, <2>1, <3>2, <3>3, <3>4, PipelineAssumption DEF NotDearer, Cost, CostOK
  <2> QED
    BY Zenon, <2>3, <2>4
<1>2. CASE AbandonTask(w)
  <2>1. Ready(m)' \subseteq Ready(m)
    BY Zenon, <1>2, AbandonView DEF Ready, OnlyHandler
  <2>2. Left(m)' <= Left(m) /\ (task'[m] = "none" => task[m] = "none")
    BY Zenon, <1>2, AbandonView, LeftGivesUp DEF OneLiveHandler
  <2>3. Requeued(m)' => Requeued(m)
    BY Zenon, <1>2, <2>2, AbandonView DEF Requeued
  <2> QED
    BY Zenon, <1>0, <1>2, <2>1, <2>2, <2>3, AbandonView, PartsFall DEF ReadyCounts
<1>3. CASE Return(w)
  <2>1. Ready(m)' \subseteq Ready(m)
    BY Zenon, <1>3, ReturnView DEF Ready, OnlyHandler
  <2>2. Left(m)' <= Left(m)
    <3>1. CASE UNCHANGED <<task, tries>>
      BY Zenon, <3>1, LeftKept
    <3>2. CASE wk[w].live /\ GivesUp(wk[w].id)
      BY Zenon, <1>3, <3>2, ReturnView, LeftGivesUp DEF OneLiveHandler
    <3>3. CASE TaskNow(wk[w].id, "none", 0) /\ m # wk[w].id
      BY Zenon, <3>3, LeftKept DEF TaskNow
    <3>4. CASE TaskNow(wk[w].id, "none", 0) /\ m = wk[w].id
      BY SMTT(60), <3>4 DEF TaskNow, Left, CostOK
    <3> QED
      BY Zenon, <1>3, <3>1, <3>2, <3>3, <3>4, ReturnView
  <2>3. Requeued(m)' => Requeued(m)
    <3>1. ~Resting
      BY Zenon, <1>3, ReturnView DEF FlowInv
    <3> QED
      BY Zenon, <1>3, <3>1, ReturnView DEF Requeued, Resting
  <2> QED
    BY Zenon, <1>0, <1>3, <2>1, <2>2, <2>3, ReturnView, PartsFall DEF ReadyCounts
<1>4. CASE Handles(w)
  <2>1. Walks(w) /\ Leads(w)
    BY Zenon, <1>4, HandlesWalks, HandlesView
  <2>2. Left(m)' <= Left(m) /\ (Requeued(m)' => Requeued(m)) /\ stops' = stops
    BY Zenon, <2>1, LeftKept DEF Walks, Requeued
  <2>3. Ready(m)' \subseteq Ready(m)
    BY Zenon, <2>1 DEF Walks, Leads, To, OnlyHandler, Ready
  <2>4. CASE sends'[m] = sends[m]
    BY Zenon, <1>0, <2>2, <2>3, <2>4, PartsFall DEF ReadyCounts
  <2>5. CASE sends'[m] # sends[m]
    <3>1. /\ wk[w].id = m /\ wk[w].pc = "send" /\ wk'[w].pc \in {"sent", "failed"}
          /\ sends'[m] = sends[m] + 1
      BY Zenon, <2>1, <2>5 DEF Leads, To, Counted
    <3>2. w \in Ready(m) /\ Ready(m)' \subseteq Ready(m) \ {w}
      BY Zenon, <2>3, <3>1 DEF Ready
    <3>3. Cardinality(Ready(m)') + 1 <= Cardinality(Ready(m))
      BY Zenon, <3>2 DEF ReadyCounts
    <3>4. Reserve(m)' = Reserve(m) \/ Reserve(m)' = 0
      BY Zenon, <2>2 DEF Reserve
    <3> QED
      BY SMTT(60), <1>0, <2>2, <3>1, <3>3, <3>4, PipelineAssumption DEF NotDearer, Cost, CostOK
  <2> QED
    BY Zenon, <2>4, <2>5
<1> QED
  BY Zenon, <1>1, <1>2, <1>3, <1>4

\* Requests, receipts, Asynq's scheduler and Recover.
LEMMA CostOthers ==
  ASSUME TInv, FlowInv, RowInv, [Next]_vars, NEW m \in Ids,
         CostOK(m), CostOK(m)', ReadyCounts(m),
         UNCHANGED vars \/ Aside \/ (\E r \in Requests : Enqueue(r)) \/ \E n \in Ids : Schedules(n)
  PROVE  NotDearer(m)
<1>0. First(m)' = First(m) \/ First(m)' = 0
  BY Zenon, FirstShrinks
<1>1. wk' = wk => Ready(m)' \subseteq Ready(m)
  BY Zenon DEF Ready
<1>2. ASSUME NEW n \in Ids, UNCHANGED <<wk, sends, proc, stops>>, pend' \subseteq pend,
             task[n] = "none", TaskNow(n, "pending", 0),
             m = n => First(m) + Reserve(m) > First(m)' + Reserve(m)'
      PROVE  NotDearer(m)
  <2>1. Requeued(m)' => Requeued(m)
    BY Zenon, <1>2 DEF Requeued, TaskNow
  <2>2. CASE m # n
    BY Zenon, <1>0, <1>1, <1>2, <2>1, <2>2, LeftKept, PartsFall DEF ReadyCounts, TaskNow
  <2>3. CASE m = n
    <3>1. Left(m) = 0 /\ Left(m)' = MaxRetry + 1
      BY SMTT(60), <1>2, <2>3, PipelineAssumption DEF Left, TaskNow
    <3>2. Cardinality(Ready(m)') <= Cardinality(Ready(m))
      BY Zenon, <1>1, <1>2 DEF ReadyCounts
    <3>3. Reserve(m)' = Reserve(m) \/ Reserve(m)' = 0
      BY Zenon, <2>1 DEF Reserve
    <3> QED
      BY SMTT(60), <1>0, <1>2, <2>3, <3>1, <3>2, <3>3, PipelineAssumption DEF NotDearer, Cost, CostOK
  <2> QED
    BY Zenon, <2>2, <2>3
<1>3. ASSUME UNCHANGED <<wk, sends, proc, stops, task, tries>>, pend' \subseteq pend
      PROVE  NotDearer(m)
  <2>1. Requeued(m)' => Requeued(m)
    BY Zenon, <1>3 DEF Requeued
  <2> QED
    BY Zenon, <1>0, <1>1, <1>3, <2>1, LeftKept, PartsFall DEF ReadyCounts
<1>4. ASSUME NEW r \in Requests, Enqueue(r) PROVE NotDearer(m)
  <2>1. /\ req[r].pc = "enqueue" /\ req[r].id \in Ids /\ NewTaskView(req[r].id)
        /\ req'[r].pc = "idle" /\ \A q \in Requests \ {r} : req'[q] = req[q]
        /\ UNCHANGED <<wk, sends, proc, stops, pend, job>>
    BY Zenon, <1>4, EnqueueView
  <2>2. ASSUME m = req[r].id, task[m] = "none", task'[m] = "pending"
        PROVE  First(m) + Reserve(m) > First(m)' + Reserve(m)'
    <3>1. Stored(m)' /\ ~Waits(m)' /\ Waits(m)
      BY Zenon, <2>1, <2>2 DEF FlowInv, RowInv, Stored, Waits
    <3>2. First(m) = MaxRetry + 1 /\ First(m)' = 0
      BY Zenon, <3>1 DEF First, New
    <3>3. Reserve(m)' = Reserve(m) \/ Reserve(m)' = 0
      BY Zenon, <2>1, <2>2 DEF Reserve, Requeued
    <3> QED
      BY SMTT(60), <3>2, <3>3, PipelineAssumption DEF CostOK
  <2> QED
    BY Zenon, <1>2, <1>3, <2>1, <2>2 DEF NewTaskView, TaskNow
<1>5. ASSUME NEW n \in Ids, Schedules(n) PROVE NotDearer(m)
  <2>0. UNCHANGED <<proc, stops, wk, sends>>
    BY Zenon, <1>5, SchedulesView
  <2>1. CASE task[n] = "retry" /\ pend' = pend /\ TaskNow(n, "pending", tries[n])
    <3>1. Left(m)' <= Left(m)
      BY SMTT(60), <2>1, LeftKept, PipelineAssumption DEF Left, TaskNow, TInv, TypeOK
    <3>2. Requeued(m)' => Requeued(m)
      BY Zenon, <2>0, <2>1 DEF Requeued, TaskNow
    <3> QED
      BY Zenon, <1>0, <1>1, <2>0, <3>1, <3>2, PartsFall DEF ReadyCounts
  <2>2. CASE task[n] = "active" /\ pend' = pend /\ GivesUp(n)
    <3>1. Left(m)' <= Left(m) /\ (Requeued(m)' => Requeued(m))
      BY Zenon, <2>0, <2>2, LeftGivesUp DEF Requeued
    <3> QED
      BY Zenon, <1>0, <1>1, <2>0, <3>1, PartsFall DEF ReadyCounts
  <2>3. CASE /\ proc = "recovering" /\ n \in pend /\ pend' = pend \ {n}
             /\ task[n] = "none" /\ TaskNow(n, "pending", 0)
    <3>1. ASSUME m = n PROVE First(m) + Reserve(m) > First(m)' + Reserve(m)'
      <4>1. Reserve(m) = MaxRetry + 1 /\ Reserve(m)' = 0
        BY Zenon, <2>0, <2>3, <3>1 DEF Reserve, Requeued, TaskNow
      <4> QED
        BY SMTT(60), <1>0, <4>1, PipelineAssumption DEF CostOK
    <3> QED
      BY Zenon, <1>2, <2>0, <2>3, <3>1
  <2>4. CASE UNCHANGED <<task, tries>> /\ pend' \subseteq pend
    BY Zenon, <1>3, <2>0, <2>4
  <2> QED
    BY Zenon, <1>5, <2>1, <2>2, <2>3, <2>4, SchedulesView DEF NewTaskView
<1>6. CASE UNCHANGED vars \/ Aside
  BY Zenon, <1>3, <1>6, AsideView DEF vars
<1> QED
  BY Zenon, <1>4, <1>5, <1>6

\* The process: a stop is paid for by the transmissions it allows.
LEMMA CostProcess ==
  ASSUME TInv, OneLiveHandler, FlowInv, RowInv, [Next]_vars, NEW m \in Ids,
         CostOK(m), CostOK(m)', ReadyCounts(m),
         Crash \/ CloseDatabase \/ Exit \/ Restart \/ RecoverDone
  PROVE  NotDearer(m) \/ (stops' = stops + 1 /\ Cost(m)' <= Cost(m) + (MaxRetry + 1))
<1>0. First(m)' = First(m) \/ First(m)' = 0
  BY Zenon, FirstShrinks
<1>1. CASE Crash \/ CloseDatabase
  <2>1. UNCHANGED <<task, tries, sends>> /\ stops' = stops + 1 /\ Ready(m)' \subseteq Ready(m)
    BY Zenon, <1>1, AllIdleView DEF Crash, CloseDatabase, AllIdle, Ready
  <2>2. Left(m)' <= Left(m) /\ Cardinality(Ready(m)') <= Cardinality(Ready(m))
    BY Zenon, <2>1, LeftKept DEF ReadyCounts
  <2>3. Reserve(m)' = Reserve(m) \/ Reserve(m)' = 0 \/ Reserve(m) = 0
    BY Zenon DEF Reserve
  <2> QED
    BY SMTT(60), <1>0, <2>1, <2>2, <2>3, PipelineAssumption DEF Cost, CostOK
<1>2. CASE Exit
  <2>1. Ready(m)' \subseteq Ready(m) /\ UNCHANGED <<stops, sends>>
    BY Zenon, <1>2, ExitView DEF AllIdle, Ready
  <2>2. Cardinality(Ready(m)') <= Cardinality(Ready(m))
    BY Zenon, <2>1 DEF ReadyCounts
  <2>3. CASE task'[m] = task[m]
    <3>1. Requeued(m)
      BY Zenon, <1>2, ExitView DEF Requeued
    <3> QED
      BY Zenon, <1>0, <1>2, <2>1, <2>2, <2>3, <3>1, ExitView, LeftKept, PartsFall
  <2>4. CASE task[m] = "active" /\ task'[m] = "pending"
    <3>1. Left(m)' = Left(m) + 1
      BY SMTT(60), <1>2, <2>4, ExitView, PipelineAssumption DEF Left, TInv, TypeOK
    <3>2. Reserve(m) = MaxRetry + 1 /\ Reserve(m)' = 0
      BY Zenon, <1>2, <2>4, ExitView DEF Reserve, Requeued
    <3> QED
      BY SMTT(60), <1>0, <2>1, <2>2, <3>1, <3>2, PipelineAssumption DEF NotDearer, Cost, CostOK
  <2> QED
    BY Zenon, <1>2, <2>3, <2>4, ExitView
<1>3. CASE Restart \/ RecoverDone
  <2>1. UNCHANGED <<stops, task, tries, wk, sends>> /\ Ready(m)' \subseteq Ready(m)
    BY Zenon, <1>3 DEF Restart, RecoverDone, Ready
  <2>2. Requeued(m)' => Requeued(m)
    BY Zenon, <1>3, <2>1 DEF Restart, RecoverDone, Requeued
  <2> QED
    BY Zenon, <1>0, <2>1, <2>2, LeftKept, PartsFall DEF ReadyCounts
<1> QED
  BY Zenon, <1>1, <1>2, <1>3

INSTANCE FiniteSetTheorems

LEMMA ReadyFinite ==
  ASSUME NEW m
  PROVE  IsFiniteSet(Ready(m)) /\ Cardinality(Ready(m)) \in Nat
<1>1. Ready(m) \in SUBSET Workers
  BY Zenon DEF Ready
<1> QED
  BY Zenon, <1>1, PipelineAssumption, FS_Subset, FS_CardinalityType

LEMMA ReadyShrinks ==
  ASSUME NEW m, Ready(m)' \subseteq Ready(m)
  PROVE  Cardinality(Ready(m)') <= Cardinality(Ready(m))
  BY Zenon, ReadyFinite, FS_Subset

LEMMA ReadyLoses ==
  ASSUME NEW m, NEW w \in Ready(m), Ready(m)' \subseteq Ready(m) \ {w}
  PROVE  Cardinality(Ready(m)') + 1 <= Cardinality(Ready(m))
<1>1. /\ IsFiniteSet(Ready(m) \ {w})
      /\ Cardinality(Ready(m) \ {w}) = Cardinality(Ready(m)) - 1
  BY Zenon, ReadyFinite, FS_RemoveElement
<1>2. /\ IsFiniteSet(Ready(m)')
      /\ Cardinality(Ready(m)') <= Cardinality(Ready(m) \ {w})
  BY Zenon, <1>1, FS_Subset
<1>3. Cardinality(Ready(m)) \in Nat /\ Cardinality(Ready(m)') \in Nat
  BY Zenon, <1>2, ReadyFinite, FS_CardinalityType
<1> QED
  BY SMTT(60), <1>1, <1>2, <1>3

LEMMA ReadyGains ==
  ASSUME NEW m, NEW w, Ready(m)' = Ready(m) \cup {w}
  PROVE  Cardinality(Ready(m)') <= Cardinality(Ready(m)) + 1
<1>1. Cardinality(Ready(m) \cup {w}) \in {Cardinality(Ready(m)), Cardinality(Ready(m)) + 1}
  BY Zenon, ReadyFinite, FS_AddElement
<1>2. Cardinality(Ready(m)) \in Nat
  BY Zenon, ReadyFinite
<1> QED
  BY SMTT(60), <1>1, <1>2

LEMMA ReadyIsCounted == \A m : ReadyCounts(m)
  BY Zenon, ReadyShrinks, ReadyLoses, ReadyGains DEF ReadyCounts

LEMMA CostType == TInv /\ FlowInv => \A m \in Ids : CostOK(m)
<1> SUFFICES ASSUME TInv, FlowInv, NEW m \in Ids PROVE CostOK(m)
  BY Zenon
<1>1. sends[m] \in Nat /\ tries[m] \in Nat /\ MaxRetry \in Nat /\ tries[m] <= MaxRetry
  BY Zenon, PipelineAssumption DEF TInv, TypeOK, FlowInv
<1>2. Left(m) \in Nat
  BY SMTT(60), <1>1 DEF Left
<1> QED
  BY Zenon, <1>1, <1>2, ReadyFinite DEF First, Reserve, CostOK

LEMMA BudgetStep ==
  ASSUME TInv, TInv', OneLiveHandler, RowInv, FlowInv, FlowInv', \A m \in Ids : CostOK(m),
         (\A m \in Ids : CostOK(m))', BudgetInv, [Next]_vars
  PROVE  BudgetInv'
<1> SUFFICES ASSUME NEW m \in Ids PROVE Cost(m)' <= (MaxRetry + 1) * (1 + stops')
  BY Zenon DEF BudgetInv
<1>0. CostOK(m) /\ CostOK(m)' /\ Cost(m) <= (MaxRetry + 1) * (1 + stops)
  BY Zenon DEF BudgetInv
<1>1. stops \in Nat /\ MaxRetry + 1 \in Nat
  BY SMTT(60), PipelineAssumption DEF TInv, TypeOK
<1>2. Cost(m) \in Nat /\ Cost(m)' \in Nat
  BY SMTT(60), <1>0, PipelineAssumption DEF CostOK, Cost
<1>3. NotDearer(m) \/ (stops' = stops + 1 /\ Cost(m)' <= Cost(m) + (MaxRetry + 1))
  BY Zenon, <1>0, NextViews, ReadyIsCounted, CostHandler, CostOthers, CostProcess
<1>4. (MaxRetry + 1) * (1 + (stops + 1)) = (MaxRetry + 1) * (1 + stops) + (MaxRetry + 1)
  BY Zenon, <1>1, OneMoreStop
<1>5. (MaxRetry + 1) * (1 + stops) \in Nat
  BY SMTT(60), <1>1
<1> DEFINE b == (MaxRetry + 1) * (1 + stops)
<1>6. CASE NotDearer(m)
  <2>1. Cost(m)' <= Cost(m) /\ stops' = stops /\ Cost(m) <= b /\ b \in Nat
    BY Zenon, <1>0, <1>5, <1>6 DEF NotDearer
  <2> HIDE DEF b
  <2>2. Cost(m)' <= b
    BY SMTT(60), <1>2, <2>1
  <2> QED
    BY Zenon, <2>1, <2>2 DEF b
<1>7. CASE stops' = stops + 1 /\ Cost(m)' <= Cost(m) + (MaxRetry + 1)
  <2>1. Cost(m) <= b /\ b \in Nat
    BY Zenon, <1>0, <1>5
  <2> HIDE DEF b
  <2>2. Cost(m)' <= b + (MaxRetry + 1)
    BY SMTT(60), <1>1, <1>2, <1>7, <2>1
  <2> QED
    BY Zenon, <1>4, <1>7, <2>2 DEF b
<1> QED
  BY Zenon, <1>3, <1>6, <1>7

\* A message is transmitted at most MaxRetry + 1 times per life of the
\* process, whatever fails in NewWorker's handler, in Asynq, Postgres or
\* Redis, however often Asynq abandons a handler that goes on, and whatever
\* shutdowns and Recover put back into the queue.
THEOREM DuplicatesAlwaysBounded == Spec => []DuplicatesBounded
<1>1. Init => BudgetInv
  <2> SUFFICES ASSUME Init, NEW m \in Ids PROVE Cost(m) <= (MaxRetry + 1) * (1 + stops)
    BY Zenon DEF BudgetInv
  <2>1. sends[m] = 0 /\ Left(m) = 0 /\ First(m) = MaxRetry + 1 /\ Reserve(m) = 0
    BY Zenon DEF Init, Left, First, New, Stored, Reserve, Requeued
  <2>2. Ready(m) = {}
    BY Zenon DEF Init, Ready, IdleWk
  <2>3. Cardinality(Ready(m)) = 0
    BY Zenon, <2>2, FS_EmptySet
  <2> QED
    BY SMTT(60), <2>1, <2>3, PipelineAssumption DEF Init, Cost
<1>2. (\A m \in Ids : CostOK(m)) /\ TInv /\ BudgetInv => DuplicatesBounded
  <2> SUFFICES ASSUME \A m \in Ids : CostOK(m), TInv, BudgetInv, NEW m \in Ids
               PROVE  sends[m] <= (MaxRetry + 1) * (1 + stops)
    BY Zenon DEF DuplicatesBounded
  <2>1. sends[m] <= Cost(m)
    BY SMTT(60), PipelineAssumption DEF Cost, CostOK
  <2>2. sends[m] \in Nat /\ Cost(m) \in Nat /\ (MaxRetry + 1) * (1 + stops) \in Nat
    BY SMTT(60), PipelineAssumption DEF CostOK, Cost, TInv, TypeOK
  <2>3. Cost(m) <= (MaxRetry + 1) * (1 + stops)
    BY Zenon DEF BudgetInv
  <2> QED
    BY SMTT(60), <2>1, <2>2, <2>3
<1> QED
  BY <1>1, <1>2, CostType, TypeInvariant, OneLiveHandlerAlways, RowInvariant, FlowInvariant,
     BudgetStep, PTL DEF Spec
=============================================================================
