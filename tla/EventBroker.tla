----------------------------- MODULE EventBroker -----------------------------
(***************************************************************************)
(* The fan-out of events to the admin console: Broker and Multi of         *)
(* internal/events, and the handler sseEvents of internal/httpapi that     *)
(* turns one subscription into one Server-Sent Events stream.              *)
(*                                                                         *)
(* A producer is a goroutine that calls Multi.Dispatch: a worker of the    *)
(* queue, a WhatsApp event handler, an HTTP handler.  It offers its event  *)
(* to every subscriber under the read lock of the broker and then calls    *)
(* the webhook dispatcher, outside the lock.  A stream is one request for  *)
(* /api/v1/events.  The payload of an event is its number.                 *)
(***************************************************************************)
EXTENDS Integers, Sequences, SequencesExt

CONSTANTS
    Producers,   \* goroutines that dispatch events
    Streams,     \* requests for /api/v1/events
    Cap,         \* the buffer of a subscriber's channel (32 in the code)
    MaxEvents    \* bound: events dispatched in a behaviour

ASSUME BrokerAssumption == Cap \in Nat \ {0} /\ MaxEvents \in Nat

Events == 1 .. MaxEvents

VARIABLES
    subscribers, \* Broker.subscribers: the streams whose channel is registered
    closed,      \* the channels that have been closed
    buf,         \* what each channel holds
    phase,       \* a producer: "idle", "offer" (holds the read lock), "post"
    todo,        \* the subscribers the range of a producer has still to visit
    cur,         \* the event a producer dispatches (0: none)
    pc,          \* a stream: "idle", "joining", "run", "leaving", "done"
    gone,        \* the streams whose request context has ended
    written,     \* what each stream has written to its client
    published,   \* how many events were dispatched
    owner,       \* who dispatched each event
    joined,      \* history: published when the stream subscribed
    overrun      \* history: streams that were offered an event when full

broker == <<subscribers, closed, buf>>
producer == <<phase, todo, cur, published, owner>>
stream == <<pc, gone, written>>
history == <<joined, overrun>>
vars == <<broker, producer, stream, history>>

\* NewBroker: no subscriber.
Init ==
    /\ subscribers = {} /\ closed = {} /\ buf = [s \in Streams |-> <<>>]
    /\ phase = [p \in Producers |-> "idle"] /\ todo = [p \in Producers |-> {}]
    /\ cur = [p \in Producers |-> 0] /\ published = 0 /\ owner = <<>>
    /\ pc = [s \in Streams |-> "idle"] /\ gone = {} /\ written = [s \in Streams |-> <<>>]
    /\ joined = [s \in Streams |-> 0] /\ overrun = {}

-----------------------------------------------------------------------------
\* sync.RWMutex: a reader that arrives while a writer waits stands behind it.
CanRLock == \A s \in Streams : pc[s] \notin {"joining", "leaving"}

\* Multi.Dispatch calls Broker.Dispatch, which takes the read lock.
StartDispatch(p) ==
    /\ phase[p] = "idle" /\ published < MaxEvents /\ CanRLock
    /\ published' = published + 1 /\ owner' = Append(owner, p)
    /\ cur' = [cur EXCEPT ![p] = published + 1]
    /\ todo' = [todo EXCEPT ![p] = subscribers]
    /\ phase' = [phase EXCEPT ![p] = "offer"]
    /\ UNCHANGED <<broker, stream, history>>

\* Mutant: the last place of the buffer stays free.
RoomOffByOne(s) == Len(buf[s]) + 1 < Cap

Room(s) == Len(buf[s]) < Cap

\* Mutant: no default clause, the send waits for room.
VisitBlocking(p, s) == s \in todo[p] /\ Room(s)

\* Mutant: the loop comes back to a subscriber it has served.
VisitAgain(p, s) == s \in subscribers

Visit(p, s) == s \in todo[p]

\* One round of the range: a send when there is room, else the default clause.
Offer(p, s) ==
    /\ phase[p] = "offer" /\ Visit(p, s)
    /\ todo' = [todo EXCEPT ![p] = @ \ {s}]
    /\ buf' = IF Room(s) THEN [buf EXCEPT ![s] = Append(@, cur[p])] ELSE buf
    /\ overrun' = IF Len(buf[s]) = Cap THEN overrun \cup {s} ELSE overrun
    /\ UNCHANGED <<subscribers, closed, phase, cur, published, owner, stream, joined>>

\* Broker.Dispatch returns nil and unlocks; Multi goes on to the webhooks.
EndDispatch(p) ==
    /\ phase[p] = "offer" /\ todo[p] = {}
    /\ phase' = [phase EXCEPT ![p] = "post"]
    /\ UNCHANGED <<broker, todo, cur, published, owner, stream, history>>

\* webhook.Dispatcher.Dispatch returns, with or without an error: Multi ends.
WebhooksDone(p) ==
    /\ phase[p] = "post"
    /\ phase' = [phase EXCEPT ![p] = "idle"] /\ cur' = [cur EXCEPT ![p] = 0]
    /\ UNCHANGED <<broker, todo, published, owner, stream, history>>

-----------------------------------------------------------------------------
\* A client asks for the stream; Subscribe waits for the lock.
Request(s) ==
    /\ pc[s] = "idle" /\ pc' = [pc EXCEPT ![s] = "joining"]
    /\ UNCHANGED <<broker, producer, gone, written, history>>

\* Mutant: the lock is not taken.
LockNever == TRUE

\* Mutant: the lock is that of Multi, which holds it during the webhooks.
LockOfMulti == \A p \in Producers : phase[p] = "idle"

\* b.mu.Lock(): a writer needs every reader gone.
Lock == \A p \in Producers : phase[p] # "offer"

\* Subscribe registers a new channel, and the handler enters its loop.
Subscribe(s) ==
    /\ pc[s] = "joining" /\ Lock
    /\ subscribers' = subscribers \cup {s}
    /\ joined' = [joined EXCEPT ![s] = published] /\ pc' = [pc EXCEPT ![s] = "run"]
    /\ UNCHANGED <<closed, buf, producer, gone, written, overrun>>

\* The client hangs up: the context of the request ends.
HangUp(s) ==
    /\ pc[s] \in {"joining", "run"} /\ s \notin gone
    /\ gone' = gone \cup {s}
    /\ UNCHANGED <<broker, producer, pc, written, history>>

\* The loop takes an event and writes it; the error of a write is ignored.
Receive(s) ==
    /\ pc[s] = "run" /\ buf[s] # <<>>
    /\ buf' = [buf EXCEPT ![s] = Tail(@)]
    /\ written' = IF s \in gone THEN written
                  ELSE [written EXCEPT ![s] = Append(@, Head(buf[s]))]
    /\ UNCHANGED <<subscribers, closed, producer, pc, gone, history>>

\* The loop sees the end of the context; the deferred unsubscribe needs the lock.
Leave(s) ==
    /\ pc[s] = "run" /\ s \in gone
    /\ pc' = [pc EXCEPT ![s] = "leaving"]
    /\ UNCHANGED <<broker, producer, gone, written, history>>

\* unsubscribe removes and closes the channel, once, under the lock.
Unsubscribe(s) ==
    /\ pc[s] = "leaving" /\ Lock
    /\ subscribers' = subscribers \ {s}
    /\ closed' = IF s \in subscribers THEN closed \cup {s} ELSE closed
    /\ pc' = [pc EXCEPT ![s] = "done"]
    /\ UNCHANGED <<buf, producer, gone, written, history>>

Next ==
    \/ \E p \in Producers : \/ StartDispatch(p) \/ EndDispatch(p) \/ WebhooksDone(p)
                            \/ \E s \in Streams : Offer(p, s)
    \/ \E s \in Streams : \/ Request(s) \/ Subscribe(s) \/ HangUp(s)
                          \/ Receive(s) \/ Leave(s) \/ Unsubscribe(s)

(***************************************************************************)
(* The goroutines run on: a dispatch visits its subscribers, and a stream  *)
(* that waits for the lock gets it.  Nothing is assumed of the client (it  *)
(* may read its connection or not, so Receive may never happen) nor of the *)
(* receivers of webhooks.                                                  *)
(***************************************************************************)
Fairness ==
    /\ \A p \in Producers :
          /\ WF_vars(EndDispatch(p))
          /\ \A s \in Streams : WF_vars(Offer(p, s))
    /\ \A s \in Streams :
          WF_vars(Subscribe(s)) /\ WF_vars(Leave(s)) /\ WF_vars(Unsubscribe(s))

Spec == Init /\ [][Next]_vars /\ Fairness

-----------------------------------------------------------------------------
(***************************************************************************)
(* No dispatch under way will send on a closed channel (which panics and   *)
(* ends the process): the lock keeps unsubscribe out of the range loop.    *)
(***************************************************************************)
NoSendOnClosed == \A p \in Producers : todo[p] \cap closed = {}

Received(s) == written[s] \o buf[s]

(***************************************************************************)
(* A stream gets the events of one goroutine in the order in which it      *)
(* dispatched them, each at most once, and none from before it subscribed. *)
(***************************************************************************)
InOrder ==
    \A s \in Streams :
        LET r == Received(s) IN
        /\ \A i \in DOMAIN r : r[i] > joined[s]
        /\ \A i, j \in DOMAIN r :
              i < j /\ owner[r[i]] = owner[r[j]] => r[i] < r[j]

(***************************************************************************)
(* A stream loses an event only by a full buffer: one that was never found *)
(* full and whose client is there has, in its buffer or on the wire, every *)
(* event whose dispatch began after it subscribed and has passed it.       *)
(***************************************************************************)
LossOnlyWhenFull ==
    \A s \in subscribers \ (overrun \cup gone) :
        \A n \in joined[s] + 1 .. published :
            \/ n \in Range(Received(s))
            \/ \E p \in Producers : cur[p] = n /\ s \in todo[p]

(***************************************************************************)
(* A dispatch leaves the broker although no client reads its stream: the   *)
(* worker and the WhatsApp handlers that dispatch are never held up by it. *)
(***************************************************************************)
DispatchEnds == \A p \in Producers : phase[p] = "offer" ~> phase[p] = "post"

(***************************************************************************)
(* A request for the stream is subscribed, and a client that left is       *)
(* unsubscribed, although webhooks may be posted for ever and the other    *)
(* streams may stand still.                                                *)
(***************************************************************************)
StreamsComeAndGo ==
    \A s \in Streams :
        /\ pc[s] = "joining" ~> pc[s] = "run"
        /\ pc[s] = "run" /\ s \in gone ~> pc[s] = "done"
=============================================================================
