-------------------------- MODULE EventBrokerProofs --------------------------
(***************************************************************************)
(* Proofs about EventBroker for any producers and streams, any buffer and  *)
(* any number of events.                                                   *)
(***************************************************************************)
EXTENDS EventBroker, SequenceTheorems, TLAPS

TypeOK ==
    /\ subscribers \in SUBSET Streams /\ closed \in SUBSET Streams
    /\ buf \in [Streams -> Seq(Nat)] /\ written \in [Streams -> Seq(Nat)]
    /\ phase \in [Producers -> {"idle", "offer", "post"}]
    /\ todo \in [Producers -> SUBSET Streams] /\ cur \in [Producers -> Nat]
    /\ pc \in [Streams -> {"idle", "joining", "run", "leaving", "done"}]
    /\ published \in Nat /\ owner \in Seq(Producers) /\ Len(owner) = published
    /\ joined \in [Streams -> Nat]

\* What the lock protects: a range in progress visits registered channels
\* only, and a registered channel is open.
LockInv ==
    /\ \A p \in Producers : /\ todo[p] \subseteq subscribers
                            /\ phase[p] # "offer" => todo[p] = {}
    /\ \A s \in Streams : /\ s \in subscribers <=> pc[s] \in {"run", "leaving"}
                          /\ s \in closed => pc[s] = "done"

\* A producer under way dispatches an event of its own.
CurInv ==
    \A p \in Producers : phase[p] # "idle" =>
        cur[p] \in 1..published /\ owner[cur[p]] = p

\* What a stream has received lies between its subscription and now, and before
\* every event that is still to be offered to it.
StreamInv ==
    \A s \in Streams :
        /\ joined[s] <= published /\ Len(buf[s]) <= Cap
        /\ pc[s] \in {"idle", "joining"} => buf[s] = <<>> /\ written[s] = <<>>
        /\ \A i \in 1..Len(Received(s)) :
              Received(s)[i] \in 1..published /\ Received(s)[i] > joined[s]
        /\ \A p \in Producers : s \in todo[p] =>
              /\ cur[p] > joined[s]
              /\ \A i \in 1..Len(Received(s)) :
                    owner[Received(s)[i]] = p => Received(s)[i] < cur[p]

BrokerInv == TypeOK /\ LockInv /\ CurInv /\ StreamInv /\ InOrder /\ LossOnlyWhenFull

-----------------------------------------------------------------------------
(* What appending to and taking from a channel does to what was received.  *)
LEMMA ReceivedOffer ==
    ASSUME NEW w \in Seq(Nat), NEW b \in Seq(Nat), NEW x \in Nat
    PROVE  w \o Append(b, x) = Append(w \o b, x)
<1>1. w \o Append(b, x) \in Seq(Nat) /\ Append(w \o b, x) \in Seq(Nat)
  BY SMTT(60)
<1>2. Len(w \o Append(b, x)) = Len(Append(w \o b, x))
  BY SMTT(60)
<1>3. \A i \in 1..Len(w \o Append(b, x)) : (w \o Append(b, x))[i] = Append(w \o b, x)[i]
  BY SMTT(60)
<1> QED
  BY ZenonT(60), <1>1, <1>2, <1>3, SeqEqual

LEMMA ReceivedWrite ==
    ASSUME NEW w \in Seq(Nat), NEW b \in Seq(Nat), b # <<>>
    PROVE  Append(w, Head(b)) \o Tail(b) = w \o b
<1>1. Head(b) = b[1] /\ Head(b) \in Nat /\ Tail(b) \in Seq(Nat) /\ Len(Tail(b)) = Len(b) - 1
      /\ \A i \in 1..Len(Tail(b)) : Tail(b)[i] = b[i + 1]
  BY SMTT(60)
<1>2. Append(w, Head(b)) \o Tail(b) \in Seq(Nat) /\ w \o b \in Seq(Nat)
  BY SMTT(60), <1>1
<1>3. Len(Append(w, Head(b)) \o Tail(b)) = Len(w \o b)
  BY SMTT(60), <1>1
<1>4. \A i \in 1..Len(w \o b) : (Append(w, Head(b)) \o Tail(b))[i] = (w \o b)[i]
  BY SMTT(60), <1>1
<1> QED
  BY ZenonT(60), <1>2, <1>3, <1>4, SeqEqual

\* Where an element was before the head of the channel behind w was dropped
Shift(w, i) == IF i <= Len(w) THEN i ELSE i + 1

LEMMA ReceivedDrop ==
    ASSUME NEW w \in Seq(Nat), NEW b \in Seq(Nat), b # <<>>
    PROVE  /\ Len(w \o Tail(b)) = Len(w \o b) - 1 /\ w \o Tail(b) \in Seq(Nat)
           /\ \A i \in 1..Len(w \o Tail(b)) :
                (w \o Tail(b))[i] = (w \o b)[Shift(w, i)]
<1>1. Tail(b) \in Seq(Nat) /\ Len(Tail(b)) = Len(b) - 1
      /\ \A i \in 1..Len(Tail(b)) : Tail(b)[i] = b[i + 1]
  BY SMTT(60)
<1> QED
  BY SMTT(60), <1>1 DEF Shift

LEMMA SeqDomain ==
    ASSUME NEW q \in Seq(Nat)
    PROVE  DOMAIN q = 1..Len(q) /\ Len(q) \in Nat
  BY SMTT(60)

LEMMA BrokerInit == Init => BrokerInv
<1> SUFFICES ASSUME Init PROVE BrokerInv
  BY ZenonT(60)
<1>1. TypeOK
  BY SMTT(60) DEF Init, TypeOK
<1>2. LockInv /\ CurInv
  BY ZenonT(60) DEF Init, LockInv, CurInv
<1>3. \A s \in Streams : Received(s) = <<>>
  BY SMTT(60) DEF Init, Received
<1>4. StreamInv
  BY SMTT(60), <1>3, BrokerAssumption DEF Init, StreamInv
<1>5. InOrder
  BY SMTT(60), <1>3 DEF InOrder
<1>6. LossOnlyWhenFull
  BY ZenonT(60) DEF Init, LossOnlyWhenFull
<1> QED
  BY ZenonT(60), <1>1, <1>2, <1>4, <1>5, <1>6 DEF BrokerInv

LEMMA TypeNext == TypeOK /\ [Next]_vars => TypeOK'
<1> SUFFICES ASSUME TypeOK, [Next]_vars PROVE TypeOK'
  BY ZenonT(60)
<1> USE DEF TypeOK, broker, producer, stream, history
<1>1. ASSUME NEW p \in Producers, StartDispatch(p) PROVE TypeOK'
  BY SMTT(60), <1>1 DEF StartDispatch
<1>2. ASSUME NEW p \in Producers, NEW s \in Streams, Offer(p, s) PROVE TypeOK'
  BY SMTT(60), <1>2 DEF Offer
<1>3. ASSUME NEW p \in Producers, EndDispatch(p) \/ WebhooksDone(p) PROVE TypeOK'
  <2>1. CASE EndDispatch(p)
    BY ZenonT(60), <2>1 DEF EndDispatch
  <2>2. CASE WebhooksDone(p)
    BY ZenonT(60), <2>2 DEF WebhooksDone
  <2> QED
    BY ZenonT(60), <1>3, <2>1, <2>2
<1>4. ASSUME NEW s \in Streams, Request(s) \/ HangUp(s) \/ Leave(s) PROVE TypeOK'
  BY ZenonT(60), <1>4 DEF Request, HangUp, Leave
<1>5. ASSUME NEW s \in Streams, Subscribe(s) \/ Unsubscribe(s) PROVE TypeOK'
  BY ZenonT(60), <1>5 DEF Subscribe, Unsubscribe
<1>6. ASSUME NEW s \in Streams, Receive(s) PROVE TypeOK'
  <2>1. Tail(buf[s]) \in Seq(Nat) /\ Append(written[s], Head(buf[s])) \in Seq(Nat)
    BY SMTT(60), <1>6 DEF Receive
  <2> QED
    BY Zenon, <1>6, <2>1 DEF Receive
<1>7. CASE UNCHANGED vars
  BY Zenon, <1>7 DEF vars
<1> QED
  BY SMTT(60), <1>1, <1>2, <1>3, <1>4, <1>5, <1>6, <1>7 DEF Next

LEMMA LockNext == TypeOK /\ LockInv /\ [Next]_vars => LockInv'
<1> SUFFICES ASSUME TypeOK, LockInv, [Next]_vars PROVE LockInv'
  BY Zenon
<1> USE DEF TypeOK, LockInv, broker, producer, stream, history
<1>1. ASSUME NEW p \in Producers, StartDispatch(p) PROVE LockInv'
  BY ZenonT(60), <1>1 DEF StartDispatch
<1>2. ASSUME NEW p \in Producers, NEW s \in Streams, Offer(p, s) PROVE LockInv'
  BY ZenonT(60), <1>2 DEF Offer
<1>3. ASSUME NEW p \in Producers, EndDispatch(p) \/ WebhooksDone(p) PROVE LockInv'
  BY ZenonT(60), <1>3 DEF EndDispatch, WebhooksDone
<1>4. ASSUME NEW s \in Streams, Request(s) \/ HangUp(s) \/ Leave(s) PROVE LockInv'
  BY ZenonT(60), <1>4 DEF Request, HangUp, Leave
<1>5. ASSUME NEW s \in Streams, Subscribe(s) \/ Unsubscribe(s) PROVE LockInv'
  <2>1. \A p \in Producers : todo[p] = {} /\ todo'[p] = {} /\ phase'[p] = phase[p]
    BY Zenon, <1>5 DEF Subscribe, Unsubscribe, Lock
  <2>2. CASE Subscribe(s)
    BY Zenon, <2>1, <2>2 DEF Subscribe
  <2>3. CASE Unsubscribe(s)
    BY SMTT(60), <2>1, <2>3 DEF Unsubscribe
  <2> QED
    BY Zenon, <1>5, <2>2, <2>3
<1>6. ASSUME NEW s \in Streams, Receive(s) PROVE LockInv'
  BY Zenon, <1>6 DEF Receive
<1>7. CASE UNCHANGED vars
  BY ZenonT(60), <1>7 DEF vars
<1> QED
  BY ZenonT(60), <1>1, <1>2, <1>3, <1>4, <1>5, <1>6, <1>7 DEF Next

LEMMA CurNext == TypeOK /\ CurInv /\ [Next]_vars => CurInv'
<1> SUFFICES ASSUME TypeOK, CurInv, [Next]_vars PROVE CurInv'
  BY Zenon
<1> USE DEF TypeOK, CurInv, broker, producer, stream, history
<1>1. ASSUME NEW p \in Producers, StartDispatch(p) PROVE CurInv'
  <2>1. /\ published' = published + 1 /\ cur'[p] = published + 1 /\ owner'[published + 1] = p
        /\ \A n \in 1..published : owner'[n] = owner[n]
    BY SMTT(60), <1>1 DEF StartDispatch
  <2>2. \A q \in Producers \ {p} : cur'[q] = cur[q] /\ phase'[q] = phase[q]
    BY Zenon, <1>1 DEF StartDispatch
  <2>3. published \in Nat /\ cur'[p] \in 1..published' /\ owner'[cur'[p]] = p
    BY SMTT(60), <2>1
  <2>4. ASSUME NEW q \in Producers \ {p}, phase'[q] # "idle"
        PROVE  cur'[q] \in 1..published' /\ owner'[cur'[q]] = q
    <3>1. cur[q] \in 1..published /\ owner[cur[q]] = q
      BY ZenonT(60), <2>2, <2>4
    <3> QED
      BY SMTT(60), <3>1, <2>1, <2>2, <2>3
  <2> QED
    BY Zenon, <2>3, <2>4
<1>2. ASSUME NEW p \in Producers, WebhooksDone(p) PROVE CurInv'
  BY Zenon, <1>2 DEF WebhooksDone
<1>3. ASSUME NEW p \in Producers, EndDispatch(p) PROVE CurInv'
  BY Zenon, <1>3 DEF EndDispatch
<1>4. CASE UNCHANGED <<phase, cur, published, owner>>
  BY Zenon, <1>4
<1> QED
  BY ZenonT(60), <1>1, <1>2, <1>3, <1>4 DEF Next, Offer, Request, Subscribe, HangUp, Receive, Leave, Unsubscribe, vars

(* A step that leaves everything received as it is.                        *)
LEMMA SameReceived ==
    ASSUME BrokerInv, UNCHANGED <<published, owner, joined, todo>>,
           \A s \in Streams : Received(s)' = Received(s) /\ Len(buf'[s]) <= Cap,
           \A s \in Streams : pc'[s] \in {"idle", "joining"} => buf'[s] = <<>> /\ written'[s] = <<>>,
           \A p \in Producers : todo[p] # {} => cur'[p] = cur[p],
           subscribers' \subseteq subscribers, overrun \subseteq overrun', gone \subseteq gone',
           subscribers \in SUBSET Streams
    PROVE  StreamInv' /\ InOrder' /\ LossOnlyWhenFull'
<1>1. StreamInv'
  BY SMTT(60) DEF BrokerInv, StreamInv
<1>2. InOrder'
  BY Zenon DEF BrokerInv, InOrder
<1>3. LossOnlyWhenFull'
  BY SMTT(60) DEF BrokerInv, LossOnlyWhenFull
<1> QED
  BY Zenon, <1>1, <1>2, <1>3

(* A new event: it is later than all that any stream has received.         *)
LEMMA StartStep ==
    ASSUME BrokerInv, NEW p \in Producers, StartDispatch(p)
    PROVE  StreamInv' /\ InOrder' /\ LossOnlyWhenFull'
<1> USE DEF BrokerInv
<1>1. UNCHANGED <<subscribers, buf, written, pc, gone, joined, overrun>>
  BY Zenon DEF StartDispatch, broker, stream, history
<1>2. /\ published' = published + 1 /\ published \in Nat /\ cur'[p] = published + 1
      /\ todo'[p] = subscribers /\ todo[p] = {}
      /\ \A q \in Producers \ {p} : cur'[q] = cur[q] /\ todo'[q] = todo[q]
  BY Zenon DEF StartDispatch, TypeOK, LockInv
<1>3. \A n \in 1..published : owner'[n] = owner[n]
  BY SMTT(60) DEF StartDispatch, TypeOK
<1>4. \A s : Received(s)' = Received(s)
  BY Zenon, <1>1 DEF Received
<1>5. StreamInv'
  <2> SUFFICES ASSUME NEW s \in Streams
               PROVE  (/\ joined[s] <= published /\ Len(buf[s]) <= Cap
                       /\ pc[s] \in {"idle", "joining"} => buf[s] = <<>> /\ written[s] = <<>>
                       /\ \A i \in 1..Len(Received(s)) :
                             Received(s)[i] \in 1..published /\ Received(s)[i] > joined[s]
                       /\ \A q \in Producers : s \in todo[q] =>
                             /\ cur[q] > joined[s]
                             /\ \A i \in 1..Len(Received(s)) :
                                   owner[Received(s)[i]] = q => Received(s)[i] < cur[q])'
    BY Zenon DEF StreamInv
  <2>1. joined[s] \in Nat /\ joined[s] <= published /\ Len(buf[s]) <= Cap
        /\ (pc[s] \in {"idle", "joining"} => buf[s] = <<>> /\ written[s] = <<>>)
    BY Zenon DEF StreamInv, TypeOK
  <2>2. \A i \in 1..Len(Received(s)) :
           Received(s)[i] \in 1..published /\ Received(s)[i] > joined[s]
    BY Zenon DEF StreamInv
  <2>3. ASSUME NEW q \in Producers, s \in todo'[q]
        PROVE  /\ cur'[q] > joined[s]
               /\ \A i \in 1..Len(Received(s)) :
                     owner'[Received(s)[i]] = q => Received(s)[i] < cur'[q]
    <3>1. CASE q = p
      BY SMTT(60), <1>2, <2>1, <2>2, <3>1
    <3>2. CASE q # p
      BY Zenon, <1>2, <1>3, <2>2, <2>3, <3>2 DEF StreamInv
    <3> QED
      BY Zenon, <3>1, <3>2
  <2> QED
    BY SMTT(60), <1>1, <1>2, <1>4, <2>1, <2>2, <2>3
<1>6. InOrder'
  <2> SUFFICES ASSUME NEW s \in Streams
               PROVE  (LET r == Received(s) IN
                       /\ \A i \in DOMAIN r : r[i] > joined[s]
                       /\ \A i, j \in DOMAIN r :
                             i < j /\ owner[r[i]] = owner[r[j]] => r[i] < r[j])'
    BY Zenon DEF InOrder
  <2>1. DOMAIN Received(s) = 1..Len(Received(s))
    BY SMTT(60) DEF Received, TypeOK
  <2>2. \A i \in DOMAIN Received(s) : Received(s)[i] \in 1..published
    BY Zenon, <2>1 DEF StreamInv
  <2> QED
    BY SMTT(60), <1>1, <1>3, <1>4, <2>2 DEF InOrder
<1>7. LossOnlyWhenFull'
  <2> SUFFICES ASSUME NEW s \in subscribers \ (overrun \cup gone), NEW n \in joined[s] + 1 .. published + 1
               PROVE  \/ n \in Range(Received(s))
                      \/ \E q \in Producers : cur'[q] = n /\ s \in todo'[q]
    BY SMTT(60), <1>1, <1>2, <1>4 DEF LossOnlyWhenFull
  <2>1. CASE n = published + 1
    BY Zenon, <1>2, <2>1
  <2>2. CASE n # published + 1
    <3>1. joined[s] \in Nat
      BY Zenon DEF TypeOK
    <3>2. n \in joined[s] + 1 .. published
      BY SMTT(60), <1>2, <2>2, <3>1
    <3>3. \/ n \in Range(Received(s))
          \/ \E q \in Producers : cur[q] = n /\ s \in todo[q]
      BY Zenon, <3>2 DEF LossOnlyWhenFull
    <3> QED
      BY Zenon, <1>2, <3>3
  <2> QED
    BY Zenon, <2>1, <2>2
<1> QED
  BY Zenon, <1>5, <1>6, <1>7

(* One round of the range: the event reaches the channel of st, or st was  *)
(* found full.                                                             *)
LEMMA OfferStep ==
    ASSUME BrokerInv, NEW p \in Producers, NEW st \in Streams, Offer(p, st)
    PROVE  StreamInv' /\ InOrder' /\ LossOnlyWhenFull'
<1> USE DEF BrokerInv
<1>1. UNCHANGED <<subscribers, cur, published, owner, pc, gone, written, joined>>
  BY Zenon DEF Offer, stream
<1>2. phase[p] = "offer" /\ st \in todo[p] /\ st \in subscribers
  BY Zenon DEF Offer, Visit, LockInv
<1>3. /\ todo'[p] = todo[p] \ {st} /\ \A q \in Producers \ {p} : todo'[q] = todo[q]
  BY Zenon DEF Offer, TypeOK
<1>4. cur[p] \in 1..published /\ owner[cur[p]] = p /\ cur[p] > joined[st] /\ cur[p] \in Nat
  BY Zenon, <1>2 DEF CurInv, StreamInv, TypeOK
<1>5. buf[st] \in Seq(Nat) /\ written[st] \in Seq(Nat) /\ Len(buf[st]) <= Cap /\ Cap \in Nat
  BY Zenon, BrokerAssumption DEF TypeOK, StreamInv
<1>6. /\ \A s \in Streams \ {st} : buf'[s] = buf[s] /\ Received(s)' = Received(s)
      /\ overrun \subseteq overrun'
  BY Zenon, <1>1 DEF Offer, TypeOK, Received
<1>7. CASE ~Room(st)
  <2>1. buf' = buf /\ st \in overrun'
    BY SMTT(60), <1>5, <1>7 DEF Offer, Room
  <2>2. \A s : Received(s)' = Received(s)
    BY Zenon, <1>1, <2>1 DEF Received
  <2>3. \A q \in Producers : todo'[q] \subseteq todo[q]
    BY Zenon, <1>3
  <2>4. StreamInv'
    BY Zenon, <1>1, <2>1, <2>2, <2>3 DEF StreamInv
  <2>5. InOrder'
    BY Zenon, <1>1, <2>2 DEF InOrder
  <2>6. LossOnlyWhenFull'
    <3> SUFFICES ASSUME NEW s \in subscribers \ (overrun' \cup gone), NEW n \in joined[s] + 1 .. published
                 PROVE  \/ n \in Range(Received(s))
                        \/ \E q \in Producers : cur[q] = n /\ s \in todo'[q]
      BY SMTT(60), <1>1, <2>2 DEF LossOnlyWhenFull
    <3>1. s # st /\ s \in subscribers \ (overrun \cup gone)
      BY ZenonT(60), <1>6, <2>1
    <3> QED
      BY ZenonT(60), <1>3, <3>1 DEF LossOnlyWhenFull
  <2> QED
    BY Zenon, <2>4, <2>5, <2>6
<1>8. CASE Room(st)
  <2> DEFINE r == Received(st)
             q1 == Append(r, cur[p])
  <2>1. buf'[st] = Append(buf[st], cur[p]) /\ Len(buf'[st]) <= Cap
    BY SMTT(60), <1>4, <1>5, <1>8 DEF Offer, TypeOK, Room
  <2>2. Received(st)' = q1 /\ r \in Seq(Nat)
    <3>1. Received(st)' = written[st] \o Append(buf[st], cur[p])
      BY ZenonT(60), <1>1, <2>1 DEF Received
    <3>2. r = written[st] \o buf[st] /\ r \in Seq(Nat)
      BY SMTT(60), <1>5 DEF Received
    <3> QED
      <4>1. written[st] \o Append(buf[st], cur[p]) = Append(written[st] \o buf[st], cur[p])
        BY ZenonT(60), <1>4, <1>5, ReceivedOffer
      <4> HIDE DEF r
      <4> QED
        BY Zenon, <3>1, <3>2, <4>1
  <2>3. Len(q1) = Len(r) + 1 /\ q1[Len(r) + 1] = cur[p] /\ Len(r) \in Nat /\ DOMAIN q1 = 1..Len(r) + 1
        /\ \A i \in 1..Len(r) : q1[i] = r[i]
    BY SMTT(60), <1>4, <2>2
  <2>4. \A i \in 1..Len(r) : /\ r[i] \in 1..published /\ r[i] > joined[st]
                             /\ owner[r[i]] = p => r[i] < cur[p]
    BY ZenonT(60), <1>2 DEF StreamInv
  <2> HIDE DEF r, q1
  <2>5. \A i \in 1..Len(q1) : q1[i] \in 1..published /\ q1[i] > joined[st]
    BY SMTT(60), <1>4, <2>3, <2>4
  <2>6. StreamInv'
    <3> SUFFICES ASSUME NEW s \in Streams
                 PROVE  (/\ joined[s] <= published /\ Len(buf[s]) <= Cap
                         /\ pc[s] \in {"idle", "joining"} => buf[s] = <<>> /\ written[s] = <<>>
                         /\ \A i \in 1..Len(Received(s)) :
                               Received(s)[i] \in 1..published /\ Received(s)[i] > joined[s]
                         /\ \A q \in Producers : s \in todo[q] =>
                               /\ cur[q] > joined[s]
                               /\ \A i \in 1..Len(Received(s)) :
                                     owner[Received(s)[i]] = q => Received(s)[i] < cur[q])'
      BY ZenonT(60) DEF StreamInv
    <3>1. CASE s # st
      BY SMTT(60), <1>1, <1>3, <1>6, <3>1 DEF StreamInv
    <3>2. CASE s = st
      <4>1. pc[st] \notin {"idle", "joining"} /\ joined[st] <= published
        BY ZenonT(60), <1>2 DEF LockInv, StreamInv
      <4>2. ASSUME NEW q \in Producers, st \in todo'[q]
            PROVE  /\ cur[q] > joined[st]
                   /\ \A i \in 1..Len(q1) : owner[q1[i]] = q => q1[i] < cur[q]
        <5>1. q # p /\ st \in todo[q]
          BY Zenon, <1>3, <4>2
        <5>2. cur[q] > joined[st] /\ \A i \in 1..Len(r) : owner[r[i]] = q => r[i] < cur[q]
          BY Zenon, <5>1 DEF StreamInv, r
        <5> QED
          BY SMTT(60), <1>4, <2>3, <5>1, <5>2
      <4> QED
        BY ZenonT(60), <1>1, <2>1, <2>2, <2>5, <3>2, <4>1, <4>2
    <3> QED
      BY Zenon, <3>1, <3>2
  <2>7. InOrder'
    <3>1. \A i, j \in 1..Len(r) : i < j /\ owner[r[i]] = owner[r[j]] => r[i] < r[j]
      BY SMTT(60), <2>2 DEF InOrder, r
    <3>2. \A i, j \in 1..Len(q1) : i < j /\ owner[q1[i]] = owner[q1[j]] => q1[i] < q1[j]
      BY SMTT(60), <1>4, <2>3, <2>4, <3>1
    <3>3. DOMAIN q1 = 1..Len(q1)
      BY Zenon, <2>3
    <3> QED
      BY SMTT(60), <1>1, <1>6, <2>2, <2>5, <3>2, <3>3 DEF InOrder
  <2>8. LossOnlyWhenFull'
    <3> SUFFICES ASSUME NEW s \in subscribers \ (overrun' \cup gone), NEW n \in joined[s] + 1 .. published
                 PROVE  \/ n \in Range(Received(s)')
                        \/ \E q \in Producers : cur[q] = n /\ s \in todo'[q]
      BY SMTT(60), <1>1 DEF LossOnlyWhenFull
    <3>1. s \in subscribers \ (overrun \cup gone) /\ s \in Streams
      BY Zenon, <1>6 DEF TypeOK
    <3>2. \/ n \in Range(Received(s))
          \/ \E q \in Producers : cur[q] = n /\ s \in todo[q]
      BY Zenon, <3>1 DEF LossOnlyWhenFull
    <3>3. CASE s # st
      BY Zenon, <1>3, <1>6, <3>1, <3>2, <3>3
    <3>4. CASE s = st
      <4>1. n \in Range(r) => n \in Range(q1)
        BY SMTT(60), <2>2, <2>3 DEF Range, r
      <4>2. cur[p] \in Range(q1)
        BY SMTT(60), <2>3 DEF Range
      <4> QED
        BY Zenon, <1>3, <2>2, <3>2, <3>4, <4>1, <4>2 DEF r
    <3> QED
      BY Zenon, <3>3, <3>4
  <2> QED
    BY Zenon, <2>6, <2>7, <2>8
<1> QED
  BY Zenon, <1>7, <1>8

(* A new subscription has received nothing, and nothing is being offered.  *)
LEMMA SubscribeStep ==
    ASSUME BrokerInv, NEW st \in Streams, Subscribe(st)
    PROVE  StreamInv' /\ InOrder' /\ LossOnlyWhenFull'
<1> USE DEF BrokerInv
<1>1. UNCHANGED <<buf, written, cur, todo, published, owner, gone, overrun>>
  BY Zenon DEF Subscribe, producer
<1>2. /\ joined'[st] = published /\ \A s \in Streams \ {st} : joined'[s] = joined[s] /\ pc'[s] = pc[s]
      /\ pc'[st] = "run" /\ subscribers' = subscribers \cup {st} /\ published \in Nat
  BY Zenon DEF Subscribe, TypeOK
<1>3. Received(st) = <<>> /\ \A p \in Producers : todo[p] = {}
  <2>1. buf[st] = <<>> /\ written[st] = <<>>
    BY Zenon DEF Subscribe, StreamInv
  <2>2. Received(st) = <<>>
    BY SMTT(60), <2>1 DEF Received
  <2>3. \A p \in Producers : todo[p] = {}
    BY Zenon DEF Subscribe, Lock, LockInv
  <2> QED
    BY Zenon, <2>2, <2>3
<1>4. \A s : Received(s)' = Received(s)
  BY Zenon, <1>1 DEF Received
<1>5. StreamInv'
  BY SMTT(60), <1>1, <1>2, <1>3, <1>4 DEF StreamInv
<1>6. InOrder'
  BY SMTT(60), <1>1, <1>2, <1>3, <1>4 DEF InOrder
<1>7. LossOnlyWhenFull'
  <2> SUFFICES ASSUME NEW s \in (subscribers \cup {st}) \ (overrun \cup gone),
                      NEW n \in joined'[s] + 1 .. published
               PROVE  n \in Range(Received(s)) \/ \E q \in Producers : cur[q] = n /\ s \in todo[q]
    BY SMTT(60), <1>1, <1>2, <1>4 DEF LossOnlyWhenFull
  <2>1. s # st /\ s \in subscribers /\ s \in Streams
    BY SMTT(60), <1>2 DEF TypeOK
  <2> QED
    BY SMTT(60), <1>2, <2>1 DEF LossOnlyWhenFull
<1> QED
  BY Zenon, <1>5, <1>6, <1>7

(* The handler takes an event: the client gets it, or has gone.            *)
LEMMA ReceiveStep ==
    ASSUME BrokerInv, NEW st \in Streams, Receive(st)
    PROVE  StreamInv' /\ InOrder' /\ LossOnlyWhenFull'
<1> USE DEF BrokerInv
<1>1. UNCHANGED <<subscribers, todo, cur, published, owner, pc, gone, joined, overrun>>
  BY Zenon DEF Receive, producer, history
<1>2. buf[st] \in Seq(Nat) /\ written[st] \in Seq(Nat) /\ buf[st] # <<>> /\ pc[st] = "run"
      /\ Len(buf[st]) <= Cap /\ Cap \in Nat
  BY Zenon, BrokerAssumption DEF Receive, TypeOK, StreamInv
<1>3. buf'[st] = Tail(buf[st]) /\ Len(buf'[st]) <= Cap
      /\ \A s \in Streams \ {st} : buf'[s] = buf[s] /\ written'[s] = written[s]
  BY SMTT(60), <1>2 DEF Receive, TypeOK
<1>4. \A s \in Streams \ {st} : Received(s)' = Received(s)
  BY Zenon, <1>3 DEF Received
<1>5. CASE st \notin gone
  <2>1. written'[st] = Append(written[st], Head(buf[st]))
    BY Zenon, <1>5 DEF Receive, TypeOK
  <2>2. Received(st)' = Received(st)
    BY ZenonT(60), <1>2, <1>3, <2>1, ReceivedWrite DEF Received
  <2>3. \A s \in Streams : /\ Received(s)' = Received(s) /\ Len(buf'[s]) <= Cap
                           /\ pc'[s] \in {"idle", "joining"} => buf'[s] = <<>> /\ written'[s] = <<>>
    BY ZenonT(60), <1>1, <1>2, <1>3, <1>4, <2>2 DEF StreamInv
  <2> QED
    BY Zenon, <1>1, <2>3, SameReceived DEF TypeOK
<1>6. CASE st \in gone
  <2> DEFINE r == Received(st)
             d == written[st] \o Tail(buf[st])
             k(i) == Shift(written[st], i)
  <2>1. Received(st)' = d
    BY Zenon, <1>3, <1>6 DEF Receive, Received
  <2>2. Len(d) = Len(r) - 1 /\ d \in Seq(Nat) /\ r \in Seq(Nat)
        /\ \A i \in 1..Len(d) : d[i] = r[k(i)]
    <3>1. r = written[st] \o buf[st] /\ r \in Seq(Nat)
      BY SMTT(60), <1>2 DEF Received
    <3> QED
      <4>1. /\ Len(d) = Len(written[st] \o buf[st]) - 1 /\ d \in Seq(Nat)
            /\ \A i \in 1..Len(d) : d[i] = (written[st] \o buf[st])[k(i)]
        BY ZenonT(60), <1>2, ReceivedDrop
      <4> HIDE DEF r, d, k
      <4> QED
        BY ZenonT(60), <3>1, <4>1
  <2>3. DOMAIN d = 1..Len(d) /\ DOMAIN r = 1..Len(r) /\ Len(d) \in Nat /\ Len(r) \in Nat
    <3> HIDE DEF r, d
    <3> QED
      BY ZenonT(60), <2>2, SeqDomain
  <2>4. \A i \in 1..Len(d) : k(i) \in 1..Len(r)
    <3>1. Len(written[st]) \in Nat
      BY SMTT(60), <1>2
    <3> HIDE DEF r, d
    <3> QED
      BY SMTT(60), <2>2, <2>3, <3>1 DEF Shift
  <2>5. \A i, j \in 1..Len(d) : i < j => k(i) < k(j)
    <3>1. Len(written[st]) \in Nat
      BY SMTT(60), <1>2
    <3> HIDE DEF r, d
    <3> QED
      BY SMTT(60), <2>3, <3>1 DEF Shift
  <2>6. /\ \A i \in 1..Len(r) : r[i] \in 1..published /\ r[i] > joined[st]
        /\ \A p \in Producers : st \in todo[p] =>
             cur[p] > joined[st] /\ \A i \in 1..Len(r) : owner[r[i]] = p => r[i] < cur[p]
    BY Zenon DEF StreamInv
  <2>7. \A i, j \in 1..Len(r) : i < j /\ owner[r[i]] = owner[r[j]] => r[i] < r[j]
    BY ZenonT(60), <2>3 DEF InOrder
  <2> HIDE DEF r, d, k
  <2>8. \A i \in 1..Len(d) : d[i] \in 1..published /\ d[i] > joined[st]
    BY ZenonT(60), <2>2, <2>4, <2>6
  <2>9. \A p \in Producers : st \in todo[p] => \A i \in 1..Len(d) : owner[d[i]] = p => d[i] < cur[p]
    BY ZenonT(60), <2>2, <2>4, <2>6
  <2>10. \A i, j \in 1..Len(d) : i < j /\ owner[d[i]] = owner[d[j]] => d[i] < d[j]
    BY ZenonT(60), <2>2, <2>4, <2>5, <2>7
  <2>11. StreamInv'
    <3>1. \A s \in Streams : /\ joined[s] <= published /\ Len(buf'[s]) <= Cap
                             /\ pc'[s] \in {"idle", "joining"} => buf'[s] = <<>> /\ written'[s] = <<>>
      BY Zenon, <1>1, <1>2, <1>3 DEF StreamInv
    <3>2. \A s \in Streams \ {st} :
             /\ \A i \in 1..Len(Received(s)) :
                   Received(s)[i] \in 1..published /\ Received(s)[i] > joined[s]
             /\ \A p \in Producers : s \in todo[p] =>
                   /\ cur[p] > joined[s]
                   /\ \A i \in 1..Len(Received(s)) :
                         owner[Received(s)[i]] = p => Received(s)[i] < cur[p]
      BY Zenon DEF StreamInv
    <3> QED
      BY SMTT(60), <1>1, <1>4, <2>1, <2>6, <2>8, <2>9, <3>1, <3>2 DEF StreamInv
  <2>12. InOrder'
    BY ZenonT(60), <1>1, <1>4, <2>1, <2>3, <2>8, <2>10 DEF InOrder
  <2>13. LossOnlyWhenFull'
    <3> SUFFICES ASSUME NEW s \in subscribers \ (overrun \cup gone), NEW n \in joined[s] + 1 .. published
                 PROVE  n \in Range(Received(s)') \/ \E q \in Producers : cur[q] = n /\ s \in todo[q]
      BY SMTT(60), <1>1 DEF LossOnlyWhenFull
    <3>1. Received(s)' = Received(s)
      BY Zenon, <1>4, <1>6 DEF TypeOK
    <3> QED
      BY Zenon, <3>1 DEF LossOnlyWhenFull
  <2> QED
    BY Zenon, <2>11, <2>12, <2>13
<1> QED
  BY Zenon, <1>5, <1>6

LEMMA BrokerNext == BrokerInv /\ [Next]_vars => BrokerInv'
<1> SUFFICES ASSUME BrokerInv, [Next]_vars PROVE BrokerInv'
  BY Zenon
<1>0. TypeOK' /\ LockInv' /\ CurInv'
  BY Zenon, TypeNext, LockNext, CurNext DEF BrokerInv
<1>1. ASSUME UNCHANGED <<published, owner, joined, todo, buf, written, overrun>>,
             \A p \in Producers : todo[p] # {} => cur'[p] = cur[p],
             \A s \in Streams : pc'[s] \in {"idle", "joining"} => pc[s] \in {"idle", "joining"},
             subscribers' \subseteq subscribers, gone \subseteq gone'
      PROVE  StreamInv' /\ InOrder' /\ LossOnlyWhenFull'
  <2>1. \A s : Received(s)' = Received(s)
    BY Zenon, <1>1 DEF Received
  <2>2. \A s \in Streams : /\ Len(buf'[s]) <= Cap
                           /\ pc'[s] \in {"idle", "joining"} => buf'[s] = <<>> /\ written'[s] = <<>>
    BY Zenon, <1>1 DEF BrokerInv, StreamInv
  <2> QED
    BY ZenonT(60), <1>1, <2>1, <2>2, SameReceived DEF BrokerInv, TypeOK
<1>2. ASSUME NEW p \in Producers, EndDispatch(p) \/ WebhooksDone(p)
      PROVE  StreamInv' /\ InOrder' /\ LossOnlyWhenFull'
  <2>1. \A q \in Producers : todo[q] # {} => cur'[q] = cur[q]
    BY Zenon, <1>2 DEF EndDispatch, WebhooksDone, BrokerInv, TypeOK, LockInv
  <2> QED
    BY Zenon, <1>1, <1>2, <2>1 DEF EndDispatch, WebhooksDone, broker, stream, history
<1>3. ASSUME NEW s \in Streams, Request(s) \/ HangUp(s) \/ Leave(s) \/ Unsubscribe(s)
      PROVE  StreamInv' /\ InOrder' /\ LossOnlyWhenFull'
  <2>1. UNCHANGED <<published, owner, joined, todo, cur, buf, written, overrun>>
        /\ subscribers' \subseteq subscribers /\ gone \subseteq gone'
    BY Zenon, <1>3 DEF Request, HangUp, Leave, Unsubscribe, broker, producer, history
  <2>2. \A t \in Streams : pc'[t] \in {"idle", "joining"} => pc[t] \in {"idle", "joining"}
    BY Zenon, <1>3 DEF Request, HangUp, Leave, Unsubscribe, BrokerInv, TypeOK
  <2> QED
    BY Zenon, <1>1, <2>1, <2>2
<1>4. CASE UNCHANGED vars
  <2>1. UNCHANGED <<published, owner, joined, todo, cur, buf, written, overrun, pc, subscribers, gone>>
    BY Zenon, <1>4 DEF vars, broker, producer, stream, history
  <2> QED
    BY Zenon, <1>0, <1>1, <2>1 DEF BrokerInv
<1> QED
  BY ZenonT(60), <1>0, <1>2, <1>3, <1>4, StartStep, OfferStep, SubscribeStep, ReceiveStep DEF Next, BrokerInv

LEMMA BrokerInvariant == Spec => []BrokerInv
  BY BrokerInit, BrokerNext, PTL DEF Spec

(* For any number of producers and streams: Dispatch never sends on a      *)
(* channel that unsubscribe has closed.                                    *)
THEOREM NeverSendsOnClosed == Spec => []NoSendOnClosed
<1>1. BrokerInv => NoSendOnClosed
  BY Zenon DEF BrokerInv, TypeOK, LockInv, NoSendOnClosed
<1> QED
  BY <1>1, BrokerInvariant, PTL

(* A stream gets the events of one goroutine in order, each at most once,  *)
(* and none from before its Subscribe.                                     *)
THEOREM AlwaysInOrder == Spec => []InOrder
  BY BrokerInvariant, PTL DEF BrokerInv

(* A stream whose client is there loses an event only by a full buffer.    *)
THEOREM AlwaysLossOnlyWhenFull == Spec => []LossOnlyWhenFull
  BY BrokerInvariant, PTL DEF BrokerInv
=============================================================================
