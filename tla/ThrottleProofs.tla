--------------------------- MODULE ThrottleProofs ---------------------------
(***************************************************************************)
(* Proofs about Throttle for any workers, settings, lag and clock.  First  *)
(* the interval and the cooldown, which do not depend on the sends of the  *)
(* last minute (recent), then the cap, which is about them.                *)
(***************************************************************************)
EXTENDS Throttle, SequenceTheorems, TLAPS

LogType == [at : Nat, cool : Nat, interval : Nat, max : Nat]
ConfigType == [interval : Nat, jitter : Nat, max : Nat, threshold : Nat, pause : Nat]

TypeOK ==
  /\ clock \in Nat \ {0} /\ conf \in Configs
  /\ until \in Nat /\ cool \in Nat /\ last \in Nat /\ log \in Seq(LogType)
  /\ wk = [w \in Workers |-> wk[w]]

\* A worker between its query and its critical section holds what was true at
\* its query, which is not long ago.
QueryHeld ==
  \A w \in Workers : wk[w].pc = "decide" =>
    /\ wk[w].conf \in Configs /\ wk[w].until \in Nat /\ wk[w].cool \in Nat
    /\ wk[w].read \in Nat \ {0}
    /\ wk[w].cool <= wk[w].until
    /\ wk[w].read <= clock /\ clock <= wk[w].read + MaxLag

\* throttled_until covers the cooldown, and a failure now would not end it
\* earlier.
CooldownStands == cool <= until /\ cool <= clock + conf.pause

\* last is the time of the last send, as its worker read it before the mutex.
LastIsLogged ==
  /\ last = Never <=> log = <<>>
  /\ log # <<>> => last <= log[Len(log)].at /\ log[Len(log)].at <= last + MaxLag

ThrottleInv ==
  /\ TypeOK /\ QueryHeld /\ CooldownStands /\ LastIsLogged
  /\ IntervalKept /\ NoSendInCooldown

----------------------------------------------------------------------------
LEMMA IdleRecord ==
  /\ Idle.pc = "idle"
  /\ \A t : [Idle EXCEPT !.pc = "send"].pc = "send"
            /\ [Idle EXCEPT !.pc = "sleep", !.wake = t].pc = "sleep"
  BY DEF Idle

LEMMA ConfigFields == \A c \in Configs : c \in ConfigType
  BY ThrottleAssumption DEF ConfigType

LEMMA ThrottleInit == Init => ThrottleInv
<1> SUFFICES ASSUME Init PROVE ThrottleInv
  OBVIOUS
<1>1. TypeOK
  BY DEF Init, TypeOK, Never
<1>2. QueryHeld
  BY IdleRecord DEF Init, QueryHeld
<1>3. CooldownStands
  BY ConfigFields DEF Init, CooldownStands, ConfigType, Never
<1> QED
  BY <1>1, <1>2, <1>3 DEF Init, ThrottleInv, LastIsLogged, IntervalKept, NoSendInCooldown, Never

(* A step of one worker that admits no send.                               *)
LEMMA NoSendStep ==
  ASSUME ThrottleInv, UNCHANGED <<clock, last, log>>,
         NEW w \in Workers, NEW v, wk' = [wk EXCEPT ![w] = v],
         v.pc # "decide",
         until' \in Nat, cool' \in Nat, UNCHANGED conf, CooldownStands'
  PROVE  ThrottleInv'
<1> USE DEF ThrottleInv
<1>1. wk' = [u \in Workers |-> wk'[u]] /\ wk'[w] = v /\ \A u \in Workers \ {w} : wk'[u] = wk[u]
  BY ZenonT(60) DEF TypeOK
<1>2. TypeOK'
  BY <1>1 DEF TypeOK
<1>3. QueryHeld'
  BY <1>1 DEF QueryHeld
<1> QED
  BY <1>2, <1>3 DEF LastIsLogged, IntervalKept, NoSendInCooldown

(* The critical section of Wait lets a worker send.                        *)
LEMMA SendStep ==
  ASSUME ThrottleInv, NEW w \in Workers, wk[w].pc = "decide",
         NEW now \in wk[w].read..clock, NEW j \in 0..wk[w].conf.jitter,
         CooldownWait(w, now) <= 0, IntervalWait(w, now, j) <= 0,
         UNCHANGED <<clock, row, cool>>, last' = now,
         wk' = [wk EXCEPT ![w] = [Idle EXCEPT !.pc = "send"]],
         log' = Append(log, [at |-> clock, cool |-> wk[w].cool,
                             interval |-> wk[w].conf.interval, max |-> wk[w].conf.max])
  PROVE  ThrottleInv'
<1> USE DEF ThrottleInv
<1> DEFINE e == [at |-> clock, cool |-> wk[w].cool,
                 interval |-> wk[w].conf.interval, max |-> wk[w].conf.max]
<1>1. /\ wk[w].conf \in ConfigType /\ wk[w].until \in Nat /\ wk[w].cool \in Nat
      /\ wk[w].cool <= wk[w].until /\ wk[w].read \in Nat \ {0}
      /\ wk[w].read <= clock /\ clock <= wk[w].read + MaxLag
  BY ConfigFields DEF QueryHeld
<1>2. now \in Nat \ {0} /\ j \in Nat /\ now <= clock /\ clock <= now + MaxLag /\ clock \in Nat
  <2>1. clock \in Nat /\ wk[w].read \in Nat \ {0} /\ MaxLag \in Nat /\ wk[w].conf.jitter \in Nat
    BY SMTT(120), <1>1, ThrottleAssumption DEF TypeOK, ConfigType
  <2>2. now \in Nat /\ wk[w].read <= now /\ now <= clock /\ j \in Nat
    BY <2>1
  <2> QED
    BY SMTT(60), <1>1, <2>1, <2>2
<1>3. e \in LogType
  <2>1. wk[w].conf.interval \in Nat /\ wk[w].conf.max \in Nat
    BY <1>1 DEF ConfigType
  <2> QED
    BY <1>1, <1>2, <2>1 DEF LogType
<1>4. /\ log' \in Seq(LogType) /\ Len(log') = Len(log) + 1 /\ log'[Len(log) + 1] = e
      /\ \A i \in 1..Len(log) : log'[i] = log[i]
  BY <1>3 DEF TypeOK
<1>5. wk' = [u \in Workers |-> wk'[u]] /\ wk'[w].pc = "send" /\ \A u \in Workers \ {w} : wk'[u] = wk[u]
  BY ZenonT(60), IdleRecord DEF TypeOK
<1>6. TypeOK'
  BY <1>2, <1>4, <1>5 DEF TypeOK, row
<1>7. QueryHeld'
  BY <1>5 DEF QueryHeld
<1>8. CooldownStands'
  BY DEF CooldownStands, row
<1>9. LastIsLogged'
  <2>1. log' # <<>> /\ log'[Len(log')].at = clock
    BY SMTT(60), <1>4 DEF TypeOK
  <2> QED
    BY <1>2, <2>1 DEF LastIsLogged, Never
<1>10. NoSendInCooldown'
  <2>1. wk[w].cool <= clock
    BY <1>1, <1>2 DEF CooldownWait
  <2> QED
    BY <1>4, <2>1 DEF NoSendInCooldown, TypeOK
<1>11. IntervalKept'
  <2> SUFFICES ASSUME NEW i \in 2..Len(log')
               PROVE  log'[i].at - log'[i - 1].at >= log'[i].interval - MaxLag
    BY SMTT(60) DEF IntervalKept
  <2>0. Len(log) \in Nat
    BY DEF TypeOK
  <2>1. CASE i \in 2..Len(log)
    BY <1>4, <2>0, <2>1 DEF IntervalKept
  <2>2. CASE i = Len(log) + 1 /\ Len(log) \in Nat \ {0}
    <3>1. log # <<>> /\ log[Len(log)] \in LogType
      BY <2>2 DEF TypeOK
    <3>2. last # Never /\ last \in Nat /\ log[Len(log)].at <= last + MaxLag /\ log[Len(log)].at \in Nat
      BY SMTT(60), <3>1 DEF LastIsLogged, TypeOK, LogType
    <3>3. wk[w].conf.interval + j - (now - last) <= 0 /\ wk[w].conf.interval \in Nat
      BY SMTT(60), <1>1, <3>2 DEF IntervalWait, ConfigType
    <3>4. log'[i].at = clock /\ log'[i].interval = wk[w].conf.interval
          /\ log'[i - 1] = log[Len(log)]
      BY <1>4, <2>2
    <3> DEFINE n == log[Len(log)].at
               k == wk[w].conf.interval
    <3>5. n \in Nat /\ n <= last + MaxLag /\ last \in Nat /\ k \in Nat /\ MaxLag \in Nat
          /\ k + j - (now - last) <= 0
      BY <3>2, <3>3, ThrottleAssumption
    <3> HIDE DEF n, k
    <3>6. clock - n >= k - MaxLag
      BY SMTT(60), <1>2, <3>5
    <3> QED
      BY SMTT(60), <3>4, <3>6 DEF n, k
  <2> QED
    BY SMTT(60), <1>4, <2>0, <2>1, <2>2
<1> QED
  BY <1>6, <1>7, <1>8, <1>9, <1>10, <1>11

LEMMA ThrottleNext == ThrottleInv /\ [Next]_vars => ThrottleInv'
<1> SUFFICES ASSUME ThrottleInv, [Next]_vars PROVE ThrottleInv'
  OBVIOUS
<1> USE DEF ThrottleInv
<1>0. conf \in ConfigType /\ clock \in Nat \ {0} /\ cool \in Nat /\ until \in Nat
  BY ConfigFields DEF TypeOK
<1>1. ASSUME NEW w \in Workers, Query(w) PROVE ThrottleInv'
  <2> DEFINE v == [pc |-> "decide", conf |-> conf, until |-> until,
                   cool |-> cool, read |-> clock, wake |-> 0]
  <2>1. wk' = [u \in Workers |-> wk'[u]] /\ wk'[w] = v /\ \A u \in Workers \ {w} : wk'[u] = wk[u]
    BY SMTT(120), <1>1 DEF Query, TypeOK
  <2>2. UNCHANGED <<clock, conf, until, cool, last, log>>
    BY <1>1 DEF Query, row, limiter
  <2>3. QueryHeld'
    <3> SUFFICES ASSUME NEW u \in Workers, wk'[u].pc = "decide"
                 PROVE  (/\ wk[u].conf \in Configs /\ wk[u].until \in Nat /\ wk[u].cool \in Nat
                         /\ wk[u].read \in Nat \ {0} /\ wk[u].cool <= wk[u].until
                         /\ wk[u].read <= clock /\ clock <= wk[u].read + MaxLag)'
      BY DEF QueryHeld
    <3>1. CASE u = w
      BY SMTT(60), <1>0, <2>1, <2>2, <3>1, ThrottleAssumption DEF CooldownStands, TypeOK
    <3>2. CASE u # w
      BY <2>1, <2>2, <3>2 DEF QueryHeld
    <3> QED
      BY <3>1, <3>2
  <2>4. TypeOK'
    BY <2>1, <2>2 DEF TypeOK
  <2> QED
    BY <2>2, <2>3, <2>4 DEF CooldownStands, LastIsLogged, IntervalKept, NoSendInCooldown
<1>2. ASSUME NEW w \in Workers, Decide(w) PROVE ThrottleInv'
  <2>1. UNCHANGED <<clock, row, cool>> /\ wk[w].pc = "decide"
    BY SMTT(60), <1>2 DEF Decide
  <2>2. PICK now \in wk[w].read..clock, j \in 0..wk[w].conf.jitter :
          \/ /\ CooldownWait(w, now) <= 0 /\ IntervalWait(w, now, j) <= 0
             /\ last' = now
             /\ wk' = [wk EXCEPT ![w] = [Idle EXCEPT !.pc = "send"]]
             /\ log' = Append(log, [at |-> clock, cool |-> wk[w].cool,
                                    interval |-> wk[w].conf.interval, max |-> wk[w].conf.max])
          \/ /\ \E t : wk' = [wk EXCEPT ![w] = [Idle EXCEPT !.pc = "sleep", !.wake = t]]
             /\ UNCHANGED <<last, log>>
    BY ZenonT(60), <1>2 DEF Decide
  <2>3. CASE UNCHANGED <<last, log>>
             /\ \E t : wk' = [wk EXCEPT ![w] = [Idle EXCEPT !.pc = "sleep", !.wake = t]]
    <3>1. CooldownStands' /\ until' \in Nat /\ cool' \in Nat /\ UNCHANGED conf
      BY <1>0, <2>1 DEF CooldownStands, row
    <3> QED
      BY ZenonT(60), <2>1, <2>3, <3>1, NoSendStep, IdleRecord
  <2> QED
    BY ZenonT(60), <2>1, <2>2, <2>3, SendStep
<1>3. ASSUME NEW w \in Workers, GiveUp(w) \/ RecordNothing(w) PROVE ThrottleInv'
  <2>1. CooldownStands' /\ until' \in Nat /\ cool' \in Nat
    BY <1>0, <1>3 DEF GiveUp, RecordNothing, CooldownStands, row
  <2> QED
    BY <1>3, <2>1, NoSendStep, IdleRecord DEF GiveUp, RecordNothing, row, limiter
<1>4. ASSUME NEW w \in Workers, RecordFailure(w) PROVE ThrottleInv'
  <2>1. UNCHANGED <<clock, conf, last, log>> /\ wk' = [wk EXCEPT ![w] = Idle]
    BY <1>4 DEF RecordFailure, limiter
  <2>2. \/ UNCHANGED <<until, cool>>
        \/ until' = clock + conf.pause
           /\ cool' = IF cool < clock + conf.pause THEN clock + conf.pause ELSE cool
    BY <1>4 DEF RecordFailure
  <2>3. CooldownStands' /\ until' \in Nat /\ cool' \in Nat
    BY <1>0, <2>1, <2>2 DEF CooldownStands, ConfigType
  <2> QED
    BY ZenonT(60), <2>1, <2>3, NoSendStep, IdleRecord
<1>5. ASSUME NEW w \in Workers, RecordSuccess(w) PROVE ThrottleInv'
  <2>1. CooldownStands' /\ until' \in Nat /\ cool' \in Nat
    BY <1>0, <1>5 DEF RecordSuccess, CooldownStands, ConfigType, Never
  <2> QED
    BY ZenonT(60), <1>5, <2>1, NoSendStep, IdleRecord DEF RecordSuccess, limiter
<1>6. CASE UpdateThrottle
  <2>1. UNCHANGED <<clock, until, last, log, wk>>
    BY <1>6 DEF UpdateThrottle, limiter
  <2>2. PICK c \in Configs : conf' = c /\ cool' = IF c.pause < conf.pause THEN Never ELSE cool
    BY <1>6 DEF UpdateThrottle
  <2>3. c \in ConfigType
    BY ConfigFields
  <2>4. CooldownStands' /\ cool' \in Nat
    BY <1>0, <2>1, <2>2, <2>3 DEF CooldownStands, ConfigType, Never
  <2> QED
    BY <2>1, <2>2, <2>4 DEF TypeOK, QueryHeld, LastIsLogged, IntervalKept, NoSendInCooldown
<1>7. CASE Restart
  <2>1. UNCHANGED <<clock, conf, until, cool>> /\ last' = Never /\ log' = <<>>
        /\ wk' = [w \in Workers |-> Idle]
    BY <1>7 DEF Restart, row
  <2>2. QueryHeld'
    BY <2>1, IdleRecord DEF QueryHeld
  <2> QED
    BY <2>1, <2>2 DEF TypeOK, CooldownStands, LastIsLogged, IntervalKept, NoSendInCooldown, Never
<1>8. CASE Tick
  <2>1. UNCHANGED <<conf, until, cool, last, log, wk>> /\ clock' = clock + 1
        /\ \A w \in Workers : wk[w].pc = "decide" => clock - wk[w].read < MaxLag
    BY <1>8 DEF Tick, row, limiter
  <2>2. QueryHeld'
    BY <1>0, <2>1, ThrottleAssumption DEF QueryHeld
  <2>3. CooldownStands'
    BY <1>0, <2>1 DEF CooldownStands, ConfigType
  <2> QED
    BY <2>1, <2>2, <2>3 DEF TypeOK, LastIsLogged, IntervalKept, NoSendInCooldown
<1>9. CASE UNCHANGED vars
  BY <1>9 DEF vars, row, limiter, TypeOK, QueryHeld, CooldownStands, LastIsLogged,
     IntervalKept, NoSendInCooldown
<1> QED
  BY <1>1, <1>2, <1>3, <1>4, <1>5, <1>6, <1>7, <1>8, <1>9 DEF Next

(* Sends that follow each other are apart by the interval that the later   *)
(* one was given, less the wait for the mutex of Wait: for any number of   *)
(* workers and any changes of the settings.                                *)
THEOREM IntervalAlwaysKept == Spec => []IntervalKept
  BY ThrottleInit, ThrottleNext, PTL DEF Spec, ThrottleInv

(* A worker that asked in a cooldown sends after it, whatever failures,    *)
(* settings that do not shorten the pause and restarts come in between.    *)
THEOREM NeverSendsInCooldown == Spec => []NoSendInCooldown
  BY ThrottleInit, ThrottleNext, PTL DEF Spec, ThrottleInv

----------------------------------------------------------------------------
(* CapKept.  recent is the end of the log as the workers read the time, in *)
(* order, so the loop of Wait drops a beginning of it.                     *)

INSTANCE WellFoundedInduction

\* A set of numbers that is not empty has a least one.
LEMMA LeastNat ==
  ASSUME NEW T, T \subseteq Nat, T # {}
  PROVE  \E x \in T : \A y \in T : x <= y
<1> DEFINE R == OpToRel(<, Nat)
<1>1. PICK x \in T : \A y \in T : ~(<<y, x>> \in R)
  BY Zenon, WFMin, NatLessThanWellFounded
<1>2. R = {p \in Nat \X Nat : p[1] < p[2]}
  BY Zenon DEF OpToRel
<1> HIDE DEF R
<1>3. \A u, v \in Nat : u < v => <<u, v>> \in {p \in Nat \X Nat : p[1] < p[2]}
  BY SMTT(60)
<1>4. \A y \in T : ~(y < x)
  BY Zenon, <1>1, <1>2, <1>3
<1> QED
  BY SMTT(60), <1>1, <1>4

InOrder(s) == s \in Seq(Nat \ {0}) /\ \A i, j \in 1..Len(s) : i <= j => s[i] <= s[j]

\* The sends that are still in the window begin after the first d.
LEMMA WindowStart ==
  ASSUME InOrder(recent), NEW now \in Nat
  PROVE  \E d \in 0..Len(recent) : /\ \A i \in 1..d : recent[i] <= now - Minute
                                   /\ \A i \in d + 1..Len(recent) : recent[i] > now - Minute
<1>0. Len(recent) \in Nat /\ Minute \in Nat /\ \A i \in 1..Len(recent) : recent[i] \in Nat
  BY SMTT(60), ThrottleAssumption DEF InOrder
<1> DEFINE T == {i \in 1..Len(recent) : recent[i] > now - Minute}
<1>1. CASE T = {}
  <2>1. \A i \in 1..Len(recent) : recent[i] <= now - Minute
    BY SMTT(60), <1>0, <1>1
  <2> QED
    BY SMTT(60), <1>0, <2>1
<1>2. CASE T # {}
  <2>1. PICK x \in T : \A y \in T : x <= y
    <3>1. T \subseteq Nat
      BY SMTT(60), <1>0
    <3> QED
      BY Zenon, <1>2, <3>1, LeastNat
  <2>2. x \in 1..Len(recent) /\ recent[x] > now - Minute
    BY Zenon, <2>1
  <2>3. \A i \in 1..x - 1 : recent[i] <= now - Minute
    BY SMTT(60), <1>0, <2>1, <2>2
  <2>4. \A i \in x..Len(recent) : recent[i] > now - Minute
    BY SMTT(60), <1>0, <2>2 DEF InOrder
  <2> DEFINE d == x - 1
  <2>5. d \in 0..Len(recent) /\ d + 1 = x
    BY SMTT(60), <1>0, <2>2
  <2> HIDE DEF d
  <2>6. \A i \in 1..d : recent[i] <= now - Minute
    BY Zenon, <2>3 DEF d
  <2> QED
    BY Zenon, <2>4, <2>5, <2>6
<1> QED
  BY Zenon, <1>1, <1>2

\* What the loop computes
LEMMA KeptIsEnd ==
  ASSUME InOrder(recent), NEW now \in Nat, NEW d \in 0..Len(recent),
         \A i \in 1..d : recent[i] <= now - Minute,
         \A i \in d + 1..Len(recent) : recent[i] > now - Minute
  PROVE  Kept(now) = SubSeq(recent, d + 1, Len(recent))
<1>0. Len(recent) \in Nat /\ Minute \in Nat /\ \A i \in 1..Len(recent) : recent[i] \in Nat
  BY SMTT(60), ThrottleAssumption DEF InOrder
<1> DEFINE L == Len(recent)
           Loop(k) == [i \in 0..L |-> IF i = 0 THEN <<>>
                                      ELSE IF recent[i] > now - Minute THEN Append(k[i - 1], recent[i])
                                      ELSE k[i - 1]]
           w == [i \in 0..L |-> SubSeq(recent, d + 1, i)]
<1>1. \A i \in 0..L : i <= d => w[i] = <<>>
  BY SMTT(60), <1>0
<1>2. \A i \in d + 1..L : w[i] = Append(w[i - 1], recent[i])
  <2> SUFFICES ASSUME NEW i \in d + 1..L PROVE w[i] = Append(w[i - 1], recent[i])
    BY Zenon
  <2>0. i \in 0..L /\ i - 1 \in 0..L
    BY SMTT(60), <1>0
  <2> DEFINE a == SubSeq(recent, d + 1, i)
             b == SubSeq(recent, d + 1, i - 1)
  <2>1. a \in Seq(Nat) /\ Len(a) = i - d /\ \A n \in 1..i - d : a[n] = recent[d + n]
    BY SMTT(60), <1>0 DEF InOrder
  <2>2. b \in Seq(Nat) /\ Len(b) = i - 1 - d /\ \A n \in 1..i - 1 - d : b[n] = recent[d + n]
    BY SMTT(60), <1>0 DEF InOrder
  <2> HIDE DEF a, b
  <2>3. recent[i] \in Nat /\ i \in Nat /\ d \in Nat /\ d < i
    BY SMTT(60), <1>0
  <2>4. /\ Append(b, recent[i]) \in Seq(Nat) /\ Len(Append(b, recent[i])) = i - d
        /\ \A n \in 1..i - d : Append(b, recent[i])[n] = recent[d + n]
    BY SMTT(60), <2>2, <2>3
  <2>5. a = Append(b, recent[i])
    BY SMTT(60), <2>1, <2>3, <2>4
  <2> QED
    BY Zenon, <2>0, <2>5 DEF a, b
<1>3. w = Loop(w)
  <2>1. w = [i \in 0..L |-> w[i]]
    BY Zenon
  <2> HIDE DEF w
  <2>2. \A i \in 0..L : w[i] = Loop(w)[i]
    <3> SUFFICES ASSUME NEW i \in 0..L
                 PROVE  w[i] = IF i = 0 THEN <<>>
                               ELSE IF recent[i] > now - Minute THEN Append(w[i - 1], recent[i])
                               ELSE w[i - 1]
      BY Zenon
    <3>1. CASE i <= d
      <4>1. w[i] = <<>>
        BY Zenon, <1>1, <3>1
      <4>2. i # 0 => i - 1 \in 0..L /\ i - 1 <= d /\ ~(recent[i] > now - Minute)
        BY SMTT(60), <1>0, <3>1
      <4> QED
        BY Zenon, <1>1, <4>1, <4>2
    <3>2. CASE i > d
      <4>1. i \in d + 1..L /\ i # 0 /\ recent[i] > now - Minute
        BY SMTT(60), <1>0, <3>2
      <4> QED
        BY Zenon, <1>2, <4>1
    <3> QED
      BY SMTT(60), <1>0, <3>1, <3>2
  <2>3. Loop(w) = [i \in 0..L |-> Loop(w)[i]]
    BY Zenon
  <2> HIDE DEF Loop
  <2> QED
    BY Zenon, <2>1, <2>2, <2>3
<1>4. PICK k : k = Loop(k) /\ Kept(now) = k[L]
  <2> HIDE DEF w
  <2> QED
    BY ZenonT(60), <1>3 DEF Kept
<1>5. \A i \in 0..L : k[i] = w[i]
  <2> DEFINE T == {i \in 0..L : k[i] # w[i]}
  <2>1. SUFFICES ASSUME T # {} PROVE FALSE
    BY Zenon
  <2>2. PICK x \in T : \A y \in T : x <= y
    <3>1. T \subseteq Nat
      BY SMTT(60), <1>0
    <3> QED
      BY Zenon, <2>1, <3>1, LeastNat
  <2>3. x \in 0..L /\ k[x] # w[x] /\ \A y \in 0..L : y < x => k[y] = w[y]
    BY SMTT(60), <1>0, <2>2
  <2> HIDE DEF w, T
  <2>4. k[x] = Loop(k)[x] /\ w[x] = Loop(w)[x]
    BY Zenon, <1>3, <1>4
  <2>5. Loop(k)[x] = Loop(w)[x]
    BY SMTT(60), <1>0, <2>3
  <2> QED
    BY Zenon, <2>3, <2>4, <2>5
<1>6. L \in 0..L /\ w[L] = SubSeq(recent, d + 1, L)
  BY SMTT(60), <1>0
<1> QED
  BY Zenon, <1>4, <1>5, <1>6

\* What Wait keeps is recent without its first d sends, which are over.
LEMMA KeptWindow ==
  ASSUME InOrder(recent), NEW now \in Nat
  PROVE  \E d \in 0..Len(recent) :
           /\ InOrder(Kept(now)) /\ Len(Kept(now)) = Len(recent) - d
           /\ \A j \in 1..Len(recent) - d : Kept(now)[j] = recent[d + j]
           /\ \A j \in 1..d : recent[j] <= now - Minute
           /\ \A j \in d + 1..Len(recent) : recent[j] > now - Minute
<1>1. PICK d \in 0..Len(recent) : /\ \A i \in 1..d : recent[i] <= now - Minute
                                  /\ \A i \in d + 1..Len(recent) : recent[i] > now - Minute
  BY Zenon, WindowStart
<1>2. Kept(now) = SubSeq(recent, d + 1, Len(recent))
  BY Zenon, <1>1, KeptIsEnd
<1> DEFINE s == SubSeq(recent, d + 1, Len(recent))
<1>3. /\ s \in Seq(Nat \ {0}) /\ Len(s) = Len(recent) - d
      /\ \A j \in 1..Len(recent) - d : s[j] = recent[d + j]
  BY SMTT(60) DEF InOrder
<1>4. InOrder(s)
  <2> HIDE DEF s
  <2>1. Len(recent) \in Nat /\ \A i, j \in 1..Len(recent) : i <= j => recent[i] <= recent[j]
    BY SMTT(60) DEF InOrder
  <2>2. ASSUME NEW i \in 1..Len(s), NEW j \in 1..Len(s), i <= j PROVE s[i] <= s[j]
    <3>1. d + i \in 1..Len(recent) /\ d + j \in 1..Len(recent) /\ d + i <= d + j
      BY SMTT(60), <1>3, <2>1, <2>2
    <3>2. s[i] = recent[d + i] /\ s[j] = recent[d + j]
      BY Zenon, <1>3
    <3> QED
      BY Zenon, <2>1, <3>1, <3>2
  <2> QED
    BY Zenon, <1>3, <2>2 DEF InOrder
<1> QED
  BY Zenon, <1>1, <1>2, <1>3, <1>4

\* recent is the end of the log, up to the wait for the mutex
RecentIsLogged ==
  /\ InOrder(recent) /\ Len(recent) <= Len(log)
  /\ \A j \in 1..Len(recent) :
       recent[j] <= last /\ log[Len(log) - Len(recent) + j].at <= recent[j] + MaxLag

\* What recent no longer holds is a minute old.
Expired == \A k \in 1..Len(log) - Len(recent) : log[k].at + Minute <= clock + MaxLag

\* No send of the first i was given a cap above m, and each was given one.
Capped(m, i) == \A k \in 1..i : log[k].max \in 1..m

\* At most one send too many is remembered, and the next one will drop it.
Room ==
  \A m \in Nat : Capped(m, Len(log)) =>
    \/ Len(recent) <= m
    \/ Len(recent) = m + 1 /\ recent[1] + Minute <= last + MaxLag

\* CapKept without the choice of the largest cap
CapBounded ==
  \A i \in 1..Len(log), m \in Nat :
    Capped(m, i) /\ i > m => log[i].at + MaxLag >= log[i - m].at + Minute

LargestCap ==
  \A i \in 1..Len(log) : \E k \in 1..i : \A j \in 1..i : log[j].max <= log[k].max

CapInv == RecentIsLogged /\ Expired /\ Room /\ CapBounded /\ LargestCap

IntervalCoversLag == \A c \in Configs : c.interval >= MaxLag

LEMMA LogFields ==
  ASSUME TypeOK
  PROVE  Len(log) \in Nat /\ \A k \in 1..Len(log) : log[k].max \in Nat /\ log[k].at \in Nat
<1>1. Len(log) \in Nat /\ \A k \in 1..Len(log) : log[k] \in LogType
  BY SMTT(60) DEF TypeOK
<1> QED
  BY SMTT(60), <1>1 DEF LogType

LEMMA CapInit == Init => CapInv
<1> SUFFICES ASSUME Init PROVE CapInv
  OBVIOUS
<1>1. recent = <<>> /\ log = <<>>
  BY Zenon DEF Init
<1> QED
  BY SMTT(60), <1>1 DEF CapInv, RecentIsLogged, InOrder, Expired, Room, CapBounded, LargestCap

LEMMA CapInvKept == ThrottleInv /\ CapInv => CapKept
<1> SUFFICES ASSUME ThrottleInv, CapInv, NEW i \in 1..Len(log),
                    \A k \in 1..i : log[k].max > 0, i > Max({log[k].max : k \in 1..i})
             PROVE  log[i].at - log[i - Max({log[k].max : k \in 1..i})].at >= Minute - MaxLag
  BY ZenonT(60) DEF CapKept
<1> DEFINE S == {log[k].max : k \in 1..i}
           m == Max(S)
<1>0. Len(log) \in Nat /\ \A k \in 1..Len(log) : log[k].max \in Nat /\ log[k].at \in Nat
  BY Zenon, LogFields DEF ThrottleInv
<1>1. PICK k \in 1..i : \A j \in 1..i : log[j].max <= log[k].max
  BY Zenon DEF CapInv, LargestCap
<1>2. log[k].max \in S /\ \A y \in S : log[k].max >= y
  BY SMTT(60), <1>0, <1>1
<1>3. m \in S /\ \A y \in S : m >= y
  <2> HIDE DEF S
  <2> QED
    BY Zenon, <1>2 DEF Max
<1>4. m \in Nat /\ Capped(m, i)
  <2> HIDE DEF m
  <2> QED
    BY SMTT(60), <1>0, <1>3 DEF Capped
<1> HIDE DEF m
<1>5. log[i].at + MaxLag >= log[i - m].at + Minute
  BY Zenon, <1>4 DEF CapInv, CapBounded, m
<1>6. i - m \in 1..Len(log) /\ i \in 1..Len(log)
  BY SMTT(60), <1>0, <1>4 DEF m
<1>7. log[i].at - log[i - m].at >= Minute - MaxLag
  BY SMTT(60), <1>0, <1>5, <1>6, ThrottleAssumption
<1> QED
  BY Zenon, <1>7 DEF m

\* A step that admits no send
LEMMA CapQuiet ==
  ASSUME ThrottleInv, CapInv, UNCHANGED <<log, last, recent>>, clock' \in Nat, clock' >= clock
  PROVE  CapInv'
<1>0. MaxLag \in Nat /\ Minute \in Nat /\ clock \in Nat /\ Len(log) \in Nat /\ Len(recent) \in Nat
  BY SMTT(60), LogFields, ThrottleAssumption DEF ThrottleInv, TypeOK, CapInv, RecentIsLogged, InOrder
<1>1. Expired'
  <2> SUFFICES ASSUME NEW k \in 1..Len(log) - Len(recent)
               PROVE  log[k].at + Minute <= clock' + MaxLag
    BY Zenon DEF Expired
  <2>1. log[k].at + Minute <= clock + MaxLag /\ k \in 1..Len(log)
    BY SMTT(60), <1>0 DEF CapInv, Expired
  <2>2. log[k].at \in Nat
    BY Zenon, <2>1, LogFields DEF ThrottleInv
  <2> QED
    BY SMTT(60), <1>0, <2>1, <2>2
<1> QED
  BY Zenon, <1>1 DEF CapInv, RecentIsLogged, InOrder, Room, Capped, CapBounded, LargestCap

\* Wait drops what is over and goes to sleep.
LEMMA CapWaits ==
  ASSUME ThrottleInv, CapInv, NEW now \in Nat, now <= clock,
         UNCHANGED <<clock, log, last>>, recent' = Kept(now)
  PROVE  CapInv'
<1>0. /\ Len(log) \in Nat /\ \A k \in 1..Len(log) : log[k].max \in Nat /\ log[k].at \in Nat
      /\ Len(recent) \in Nat /\ \A k \in 1..Len(recent) : recent[k] \in Nat
      /\ MaxLag \in Nat /\ Minute \in Nat /\ clock \in Nat /\ last \in Nat
  BY SMTT(60), LogFields, ThrottleAssumption DEF ThrottleInv, TypeOK, CapInv, RecentIsLogged, InOrder
<1>1. PICK d \in 0..Len(recent) :
        /\ InOrder(recent') /\ Len(recent') = Len(recent) - d
        /\ \A j \in 1..Len(recent) - d : recent'[j] = recent[d + j]
        /\ \A j \in 1..d : recent[j] <= now - Minute
  BY Zenon, KeptWindow DEF CapInv, RecentIsLogged
<1>2. RecentIsLogged'
  <2> SUFFICES ASSUME NEW j \in 1..Len(recent')
               PROVE  recent'[j] <= last /\ log[Len(log) - Len(recent') + j].at <= recent'[j] + MaxLag
    BY SMTT(60), <1>0, <1>1 DEF CapInv, RecentIsLogged
  <2>1. d + j \in 1..Len(recent) /\ recent'[j] = recent[d + j]
        /\ Len(log) - Len(recent') + j = Len(log) - Len(recent) + (d + j)
    BY SMTT(60), <1>0, <1>1
  <2> QED
    BY Zenon, <2>1 DEF CapInv, RecentIsLogged
<1>3. Expired'
  <2> SUFFICES ASSUME NEW k \in 1..Len(log) - Len(recent')
               PROVE  log[k].at + Minute <= clock + MaxLag
    BY Zenon DEF Expired
  <2>1. CASE k \in 1..Len(log) - Len(recent)
    BY Zenon, <2>1 DEF CapInv, Expired
  <2>2. CASE ~(k \in 1..Len(log) - Len(recent))
    <3> DEFINE j == k - (Len(log) - Len(recent))
    <3>1. j \in 1..d /\ j \in 1..Len(recent) /\ k = Len(log) - Len(recent) + j /\ k \in 1..Len(log)
      BY SMTT(60), <1>0, <1>1, <2>2 DEF CapInv, RecentIsLogged
    <3>2. recent[j] <= now - Minute /\ log[k].at <= recent[j] + MaxLag
      BY Zenon, <1>1, <3>1 DEF CapInv, RecentIsLogged
    <3>3. log[k].at \in Nat /\ recent[j] \in Nat
      BY Zenon, <1>0, <3>1
    <3> HIDE DEF j
    <3> QED
      BY SMTT(60), <1>0, <3>2, <3>3
  <2> QED
    BY Zenon, <2>1, <2>2
<1>4. Room'
  <2> SUFFICES ASSUME NEW m \in Nat, Capped(m, Len(log))
               PROVE  \/ Len(recent') <= m
                      \/ Len(recent') = m + 1 /\ recent'[1] + Minute <= last + MaxLag
    BY Zenon DEF Room, Capped
  <2>1. CASE Len(recent) <= m
    BY SMTT(60), <1>0, <1>1, <2>1
  <2>2. CASE Len(recent) = m + 1 /\ recent[1] + Minute <= last + MaxLag
    <3>1. d = 0 => recent'[1] = recent[1]
      BY SMTT(60), <1>0, <1>1, <2>2
    <3> QED
      BY SMTT(60), <1>0, <1>1, <2>2, <3>1
  <2> QED
    BY Zenon, <2>1, <2>2 DEF CapInv, Room
<1> QED
  BY Zenon, <1>2, <1>3, <1>4 DEF CapInv, Capped, CapBounded, LargestCap

\* A send finds no more than a largest cap of sends in its minute.
LEMMA RoomToSend ==
  ASSUME ThrottleInv, CapInv, IntervalCoversLag, NEW w \in Workers, wk[w].pc = "decide",
         NEW now \in Nat, now <= clock, NEW j \in Nat, IntervalWait(w, now, j) <= 0,
         NEW m \in Nat, Capped(m, Len(log))
  PROVE  Len(Kept(now)) <= m
<1>0. /\ Len(log) \in Nat /\ Len(recent) \in Nat /\ \A k \in 1..Len(recent) : recent[k] \in Nat
      /\ MaxLag \in Nat /\ Minute \in Nat /\ clock \in Nat /\ last \in Nat
  BY SMTT(60), LogFields, ThrottleAssumption DEF ThrottleInv, TypeOK, CapInv, RecentIsLogged, InOrder
<1>1. PICK d \in 0..Len(recent) : /\ Len(Kept(now)) = Len(recent) - d
                                  /\ \A i \in d + 1..Len(recent) : recent[i] > now - Minute
  BY Zenon, KeptWindow DEF CapInv, RecentIsLogged
<1>2. CASE Len(recent) <= m
  BY SMTT(60), <1>0, <1>1, <1>2
<1>3. CASE Len(recent) = m + 1 /\ recent[1] + Minute <= last + MaxLag
  <2>1. last # Never
    BY SMTT(60), <1>0, <1>3 DEF CapInv, RecentIsLogged, ThrottleInv, LastIsLogged
  <2>2. wk[w].conf.interval \in Nat /\ wk[w].conf.interval >= MaxLag
    BY SMTT(60), ConfigFields DEF ThrottleInv, QueryHeld, IntervalCoversLag, ConfigType
  <2>3. wk[w].conf.interval + j - (now - last) <= 0
    BY Zenon, <2>1 DEF IntervalWait
  <2> DEFINE k == wk[w].conf.interval
  <2>4. k \in Nat /\ k >= MaxLag /\ k + j - (now - last) <= 0
    BY Zenon, <2>2, <2>3
  <2> HIDE DEF k
  <2>5. recent[1] <= now - Minute
    BY SMTT(60), <1>0, <1>3, <2>4
  <2>6. d # 0
    BY SMTT(60), <1>0, <1>1, <1>3, <2>5
  <2> QED
    BY SMTT(60), <1>0, <1>1, <1>3, <2>6
<1> QED
  BY Zenon, <1>2, <1>3 DEF CapInv, Room

LEMMA FirstKept ==
  ASSUME NEW n \in Nat, NEW m \in Nat, NEW l \in Nat, l <= m, NEW max \in 1..m,
         (n + 1) - m \in 1..n, ~((n + 1) - m \in 1..n - l)
  PROVE  (n + 1) - m = n - l + 1 /\ l >= max /\ max > 0 /\ 1 \in 1..l
  BY SMTT(60)

\* Wait admits a send.
LEMMA CapSends ==
  ASSUME ThrottleInv, CapInv, IntervalCoversLag, NEW w \in Workers, wk[w].pc = "decide",
         NEW now \in wk[w].read..clock, NEW j \in 0..wk[w].conf.jitter,
         IntervalWait(w, now, j) <= 0, CapWait(w, Kept(now)) <= 0,
         UNCHANGED clock, last' = now, recent' = Append(Kept(now), now),
         log' = Append(log, [at |-> clock, cool |-> wk[w].cool,
                             interval |-> wk[w].conf.interval, max |-> wk[w].conf.max])
  PROVE  CapInv'
<1> DEFINE n == Len(log)
           r == Len(recent)
           kept == Kept(now)
           max == wk[w].conf.max
           e == [at |-> clock, cool |-> wk[w].cool, interval |-> wk[w].conf.interval, max |-> max]
<1>0. /\ n \in Nat /\ \A k \in 1..n : log[k].max \in Nat /\ log[k].at \in Nat
      /\ r \in Nat /\ \A k \in 1..r : recent[k] \in Nat
      /\ MaxLag \in Nat /\ Minute \in Nat /\ clock \in Nat /\ last \in Nat
  BY SMTT(60), LogFields, ThrottleAssumption DEF ThrottleInv, TypeOK, CapInv, RecentIsLogged, InOrder
<1>1. /\ wk[w].conf \in ConfigType /\ wk[w].read \in Nat \ {0} /\ wk[w].cool \in Nat
      /\ wk[w].read <= clock /\ clock <= wk[w].read + MaxLag
  BY Zenon, ConfigFields DEF ThrottleInv, QueryHeld
<1>2. max \in Nat /\ wk[w].conf.interval \in Nat /\ wk[w].conf.jitter \in Nat
  BY SMTT(60), <1>1 DEF ConfigType
<1>3. now \in Nat \ {0} /\ now <= clock /\ clock <= now + MaxLag /\ j \in Nat
  BY SMTT(60), <1>0, <1>1, <1>2
<1>4. /\ Len(log') = n + 1 /\ log'[n + 1].at = clock /\ log'[n + 1].max = max
      /\ \A k \in 1..n : log'[k] = log[k]
  <2>1. e \in LogType /\ e.at = clock /\ e.max = max
    BY SMTT(60), <1>0, <1>1, <1>2 DEF LogType
  <2> HIDE DEF e, max
  <2>2. log \in Seq(LogType) /\ log' = Append(log, e)
    BY Zenon DEF ThrottleInv, TypeOK, e, max
  <2> QED
    BY SMTT(60), <2>1, <2>2
<1>5. PICK d \in 0..r :
        /\ InOrder(kept) /\ Len(kept) = r - d
        /\ \A i \in 1..r - d : kept[i] = recent[d + i]
        /\ \A i \in 1..d : recent[i] <= now - Minute
  BY Zenon, KeptWindow, <1>3 DEF CapInv, RecentIsLogged
<1>6. \A m \in Nat : Capped(m, n) => Len(kept) <= m
  BY Zenon, <1>3, RoomToSend
<1> HIDE DEF kept, max
<1>7. /\ recent' \in Seq(Nat \ {0}) /\ Len(recent') = Len(kept) + 1 /\ recent'[Len(kept) + 1] = now
      /\ \A i \in 1..Len(kept) : recent'[i] = kept[i]
      /\ Len(kept) \in Nat /\ kept \in Seq(Nat \ {0})
  BY SMTT(60), <1>3, <1>5 DEF InOrder, kept
<1>8. n = 0 \/ last <= now
  <2>1. n # 0 => last # Never
    BY SMTT(60) DEF ThrottleInv, LastIsLogged
  <2>2. last # Never => wk[w].conf.interval + j - (now - last) <= 0
    BY Zenon DEF IntervalWait
  <2> QED
    BY SMTT(60), <1>0, <1>2, <1>3, <2>1, <2>2
<1>9. \A i \in 1..Len(kept) : kept[i] <= now /\ log[n - Len(kept) + i].at <= kept[i] + MaxLag
  <2> SUFFICES ASSUME NEW i \in 1..Len(kept)
               PROVE  kept[i] <= now /\ log[n - Len(kept) + i].at <= kept[i] + MaxLag
    BY Zenon
  <2>1. d + i \in 1..r /\ kept[i] = recent[d + i] /\ n - Len(kept) + i = n - r + (d + i) /\ n # 0
    BY SMTT(60), <1>0, <1>5 DEF CapInv, RecentIsLogged
  <2>2. recent[d + i] <= last /\ log[n - r + (d + i)].at <= recent[d + i] + MaxLag
    BY Zenon, <2>1 DEF CapInv, RecentIsLogged
  <2> QED
    BY SMTT(60), <1>0, <1>3, <1>8, <2>1, <2>2
<1>10. \A k \in 1..n - Len(kept) : log[k].at + Minute <= clock + MaxLag
  <2> SUFFICES ASSUME NEW k \in 1..n - Len(kept) PROVE log[k].at + Minute <= clock + MaxLag
    BY Zenon
  <2>1. CASE k \in 1..n - r
    BY Zenon, <2>1 DEF CapInv, Expired
  <2>2. CASE ~(k \in 1..n - r)
    <3> DEFINE i == k - (n - r)
    <3>1. i \in 1..d /\ i \in 1..r /\ k = n - r + i /\ k \in 1..n
      BY SMTT(60), <1>0, <1>5, <1>7, <2>2 DEF CapInv, RecentIsLogged
    <3>2. recent[i] <= now - Minute /\ log[k].at <= recent[i] + MaxLag
      BY Zenon, <1>5, <3>1 DEF CapInv, RecentIsLogged
    <3>3. log[k].at \in Nat /\ recent[i] \in Nat
      BY Zenon, <1>0, <3>1
    <3> HIDE DEF i
    <3> QED
      BY SMTT(60), <1>0, <1>3, <3>2, <3>3
  <2> QED
    BY Zenon, <2>1, <2>2
<1>11. max > 0 /\ Len(kept) >= max => kept[1] + Minute <= clock
  <2>1. max > 0 /\ Len(kept) >= max => kept[1] + Minute - clock <= 0
    BY Zenon DEF CapWait, kept, max
  <2>2. max > 0 /\ Len(kept) >= max => kept[1] \in Nat
    BY SMTT(60), <1>2, <1>7
  <2> QED
    BY SMTT(60), <1>0, <2>1, <2>2
<1>12. \A m \in Nat : (\A k \in 1..n + 1 : log'[k].max \in 1..m) => Capped(m, n) /\ max \in 1..m
  BY SMTT(60), <1>0, <1>4 DEF Capped
<1>13. Len(kept) <= n
  BY SMTT(60), <1>0, <1>5 DEF CapInv, RecentIsLogged
<1>14. RecentIsLogged'
  <2>1. InOrder(recent')
    <3> SUFFICES ASSUME NEW i \in 1..Len(kept) + 1, NEW k \in 1..Len(kept) + 1, i <= k
                 PROVE  recent'[i] <= recent'[k]
      BY Zenon, <1>7 DEF InOrder
    <3>1. CASE k \in 1..Len(kept)
      <4>1. i \in 1..Len(kept)
        BY SMTT(60), <1>7, <3>1
      <4> QED
        BY Zenon, <1>5, <1>7, <3>1, <4>1 DEF InOrder
    <3>2. CASE k = Len(kept) + 1 /\ i \in 1..Len(kept)
      BY Zenon, <1>7, <1>9, <3>2
    <3>3. CASE k = Len(kept) + 1 /\ i = Len(kept) + 1
      BY SMTT(60), <1>3, <1>7, <3>3
    <3> QED
      BY SMTT(60), <1>7, <3>1, <3>2, <3>3
  <2>2. ASSUME NEW i \in 1..Len(recent')
        PROVE  recent'[i] <= now /\ log'[Len(log') - Len(recent') + i].at <= recent'[i] + MaxLag
    <3>0. Len(log') - Len(recent') + i = n - Len(kept) + i
      BY SMTT(60), <1>0, <1>4, <1>7
    <3>1. CASE i \in 1..Len(kept)
      <4>1. n - Len(kept) + i \in 1..n
        BY SMTT(60), <1>0, <1>7, <1>13, <3>1
      <4> QED
        BY Zenon, <1>4, <1>7, <1>9, <3>0, <3>1, <4>1
    <3>2. CASE i = Len(kept) + 1
      <4>1. n - Len(kept) + i = n + 1
        BY SMTT(60), <1>0, <1>7, <3>2
      <4> QED
        BY SMTT(60), <1>3, <1>4, <1>7, <3>0, <3>2, <4>1
    <3>3. i \in 1..Len(kept) \/ i = Len(kept) + 1
      BY SMTT(60), <1>7, <2>2
    <3> QED
      BY Zenon, <3>1, <3>2, <3>3
  <2>3. Len(recent') <= Len(log')
    BY SMTT(60), <1>0, <1>4, <1>7, <1>13
  <2> QED
    BY Zenon, <2>1, <2>2, <2>3 DEF RecentIsLogged
<1>15. Expired'
  <2>1. Len(log') - Len(recent') = n - Len(kept) /\ \A k \in 1..n - Len(kept) : k \in 1..n
    BY SMTT(60), <1>0, <1>4, <1>7
  <2> QED
    BY Zenon, <1>4, <1>10, <2>1 DEF Expired
<1>16. Room'
  <2> SUFFICES ASSUME NEW m \in Nat, \A k \in 1..n + 1 : log'[k].max \in 1..m
               PROVE  \/ Len(recent') <= m
                      \/ Len(recent') = m + 1 /\ recent'[1] + Minute <= now + MaxLag
    BY Zenon, <1>4 DEF Room, Capped
  <2>1. max \in 1..m /\ Len(kept) <= m
    BY Zenon, <1>6, <1>12
  <2>2. CASE Len(kept) < max
    BY SMTT(60), <1>2, <1>7, <2>1, <2>2
  <2>3. CASE Len(kept) >= max
    <3>1. recent'[1] = kept[1] /\ kept[1] \in Nat /\ kept[1] + Minute <= clock
      BY SMTT(60), <1>2, <1>7, <1>11, <2>1, <2>3
    <3> DEFINE b == kept[1]
               l == Len(kept)
    <3>2. b \in Nat /\ b + Minute <= clock /\ l \in Nat /\ l <= m /\ Len(recent') = l + 1
      BY Zenon, <1>7, <2>1, <3>1
    <3> HIDE DEF b, l
    <3>3. (l + 1 <= m \/ l + 1 = m + 1) /\ b + Minute <= now + MaxLag
      BY SMTT(60), <1>0, <1>3, <3>2
    <3> QED
      BY Zenon, <3>1, <3>2, <3>3 DEF b
  <2> QED
    BY SMTT(60), <1>2, <1>7, <2>2, <2>3
<1>17. CapBounded'
  <2> SUFFICES ASSUME NEW i \in 1..n + 1, NEW m \in Nat, \A k \in 1..i : log'[k].max \in 1..m, i > m
               PROVE  log'[i].at + MaxLag >= log'[i - m].at + Minute
    BY Zenon, <1>4 DEF CapBounded, Capped
  <2>0. \A x, y : x <= y <=> y >= x
    BY SMTT(60)
  <2>1. CASE i \in 1..n
    <3>1. Capped(m, i)
      BY SMTT(60), <1>0, <1>4, <2>1 DEF Capped
    <3>2. log[i].at + MaxLag >= log[i - m].at + Minute
      BY Zenon, <2>1, <3>1 DEF CapInv, CapBounded
    <3>3. i - m \in 1..n
      BY SMTT(60), <1>0, <2>1
    <3> QED
      BY Zenon, <1>4, <2>1, <3>2, <3>3
  <2>2. CASE i = n + 1
    <3>1. max \in 1..m /\ Len(kept) <= m
      BY Zenon, <1>6, <1>12, <2>2
    <3>2. i - m \in 1..n /\ log'[i].at = clock /\ log'[i - m] = log[i - m] /\ log[i - m].at \in Nat
      BY SMTT(60), <1>0, <1>4, <2>2, <3>1
    <3>3. CASE i - m \in 1..n - Len(kept)
      BY Zenon, <1>10, <3>2, <2>0, <3>3
    <3>4. CASE ~(i - m \in 1..n - Len(kept))
      <4>1. i - m = n - Len(kept) + 1 /\ Len(kept) >= max /\ max > 0 /\ 1 \in 1..Len(kept)
        <5>1. n \in Nat /\ Len(kept) \in Nat
          BY Zenon, <1>0, <1>7
        <5>2. (n + 1) - m \in 1..n /\ ~((n + 1) - m \in 1..n - Len(kept))
          BY Zenon, <2>2, <3>2, <3>4
        <5>3. (n + 1) - m = n - Len(kept) + 1 /\ Len(kept) >= max /\ max > 0 /\ 1 \in 1..Len(kept)
          BY Zenon, <3>1, <5>1, <5>2, FirstKept
        <5> QED
          BY Zenon, <2>2, <5>3
      <4>2. kept[1] + Minute <= clock /\ log[i - m].at <= kept[1] + MaxLag /\ kept[1] \in Nat
        BY SMTT(60), <1>7, <1>9, <1>11, <4>1
      <4> DEFINE a == log[i - m].at
                 b == kept[1]
      <4>3. b + Minute <= clock /\ a <= b + MaxLag /\ a \in Nat /\ b \in Nat
        BY Zenon, <3>2, <4>2
      <4> HIDE DEF a, b
      <4>4. clock + MaxLag >= a + Minute
        BY SMTT(60), <1>0, <4>3
      <4> QED
        BY Zenon, <3>2, <4>4 DEF a
    <3> QED
      BY Zenon, <3>3, <3>4
  <2> QED
    BY SMTT(60), <1>0, <2>1, <2>2
<1>18. LargestCap'
  <2> SUFFICES ASSUME NEW i \in 1..n + 1
               PROVE  \E k \in 1..i : \A l \in 1..i : log'[l].max <= log'[k].max
    BY Zenon, <1>4 DEF LargestCap
  <2>1. CASE i \in 1..n
    <3>1. PICK k \in 1..i : \A l \in 1..i : log[l].max <= log[k].max
      BY Zenon, <2>1 DEF CapInv, LargestCap
    <3>2. \A l \in 1..i : log'[l] = log[l]
      BY SMTT(60), <1>0, <1>4, <2>1
    <3> QED
      BY Zenon, <3>1, <3>2
  <2>2. CASE i = n + 1 /\ n = 0
    BY SMTT(60), <1>2, <1>4, <2>2
  <2>3. CASE i = n + 1 /\ n # 0
    <3>1. n \in 1..n
      BY SMTT(60), <1>0, <2>3
    <3>2. PICK k \in 1..n : \A l \in 1..n : log[l].max <= log[k].max
      BY Zenon, <3>1 DEF CapInv, LargestCap
    <3>3. CASE log[k].max >= max
      <4>1. k \in 1..i /\ \A l \in 1..i : log'[l].max <= log'[k].max
        BY SMTT(60), <1>0, <1>2, <1>4, <2>3, <3>2, <3>3
      <4> QED
        BY Zenon, <4>1
    <3>4. CASE ~(log[k].max >= max)
      <4>1. n + 1 \in 1..i /\ \A l \in 1..i : log'[l].max <= log'[n + 1].max
        BY SMTT(60), <1>0, <1>2, <1>4, <2>3, <3>2, <3>4
      <4> QED
        BY Zenon, <4>1
    <3> QED
      BY Zenon, <3>3, <3>4
  <2>4. i \in 1..n \/ i = n + 1
    BY SMTT(60), <1>0
  <2> QED
    BY Zenon, <2>1, <2>2, <2>3, <2>4
<1> QED
  BY Zenon, <1>14, <1>15, <1>16, <1>17, <1>18 DEF CapInv

LEMMA CapNext == IntervalCoversLag /\ ThrottleInv /\ CapInv /\ [Next]_vars => CapInv'
<1> SUFFICES ASSUME IntervalCoversLag, ThrottleInv, CapInv, [Next]_vars PROVE CapInv'
  OBVIOUS
<1>0. clock \in Nat
  BY SMTT(60) DEF ThrottleInv, TypeOK
<1>1. ASSUME NEW w \in Workers, Decide(w) PROVE CapInv'
  <2>1. wk[w].pc = "decide" /\ UNCHANGED clock
    BY Zenon, <1>1 DEF Decide
  <2>2. PICK now \in wk[w].read..clock, j \in 0..wk[w].conf.jitter :
          \/ /\ IntervalWait(w, now, j) <= 0 /\ CapWait(w, Kept(now)) <= 0
             /\ last' = now /\ recent' = Append(Kept(now), now)
             /\ log' = Append(log, [at |-> clock, cool |-> wk[w].cool,
                                    interval |-> wk[w].conf.interval, max |-> wk[w].conf.max])
          \/ recent' = Kept(now) /\ UNCHANGED <<last, log>>
    BY ZenonT(60), <1>1 DEF Decide
  <2>3. now \in Nat /\ now <= clock
    <3>1. wk[w].read \in Nat
      BY Zenon, <2>1 DEF ThrottleInv, QueryHeld
    <3> QED
      BY SMTT(60), <1>0, <3>1
  <2> QED
    BY Zenon, <2>1, <2>2, <2>3, CapSends, CapWaits
<1>2. ASSUME NEW w \in Workers,
             Query(w) \/ GiveUp(w) \/ RecordFailure(w) \/ RecordSuccess(w) \/ RecordNothing(w)
      PROVE  UNCHANGED <<clock, log, last, recent>>
  BY Zenon, <1>2 DEF Query, GiveUp, RecordFailure, RecordSuccess, RecordNothing, limiter
<1>3. CASE UpdateThrottle \/ UNCHANGED vars
  <2>1. UNCHANGED <<clock, log, last, recent>>
    BY Zenon, <1>3 DEF UpdateThrottle, vars, limiter
  <2> QED
    BY SMTT(60), <1>0, <2>1, CapQuiet
<1>4. CASE Restart
  <2>1. recent' = <<>> /\ log' = <<>>
    BY Zenon, <1>4 DEF Restart
  <2> QED
    BY SMTT(60), <2>1 DEF CapInv, RecentIsLogged, InOrder, Expired, Room, CapBounded, LargestCap
<1>5. CASE Tick
  <2>1. UNCHANGED <<log, last, recent>> /\ clock' = clock + 1
    BY Zenon, <1>5 DEF Tick, limiter
  <2> QED
    BY SMTT(60), <1>0, <2>1, CapQuiet
<1>6. CASE UNCHANGED <<clock, log, last, recent>>
  BY SMTT(60), <1>0, <1>6, CapQuiet
<1> QED
  BY Zenon, <1>1, <1>2, <1>3, <1>4, <1>5, <1>6 DEF Next

(* A minute holds no more sends than the largest cap that a send was given *)
(* so far, for any workers, settings and changes of them, when an interval *)
(* is never shorter than the wait for the mutex: updateThrottle accepts no *)
(* interval below 100 ms.  With a shorter interval two workers that wait   *)
(* for the mutex can both find the oldest send over.                       *)
THEOREM CapAlwaysKept ==
  ASSUME IntervalCoversLag
  PROVE  Spec => []CapKept
  BY ThrottleInit, ThrottleNext, CapInit, CapNext, CapInvKept, PTL DEF Spec
=============================================================================
