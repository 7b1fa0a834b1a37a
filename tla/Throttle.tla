------------------------------ MODULE Throttle ------------------------------
(***************************************************************************)
(* The limiter of one session: the workers that call Wait before they send *)
(* and RecordFailure or RecordSuccess after it, the throttle columns of    *)
(* the session's row, and the sends the process remembers.  Time counts in *)
(* ticks from 1; Minute is the length of the window of the code.           *)
(***************************************************************************)
EXTENDS Integers, Sequences, FiniteSetsExt

CONSTANTS
  Workers,
  Configs,    \* what updateThrottle may store: interval, jitter, max, threshold, pause
  Minute,
  MaxLag,     \* bound: ticks between the query of Wait and its critical section
  MaxClock    \* bound: the clock stops

ASSUME ThrottleAssumption ==
  /\ Minute \in Nat \ {0} /\ MaxLag \in Nat /\ MaxClock \in Nat
  /\ Configs \subseteq [interval : Nat, jitter : Nat, max : Nat, threshold : Nat, pause : Nat]

VARIABLES
  clock,
  conf,      \* throttle settings of the row
  until,     \* throttled_until
  failures,  \* failure_count
  since,     \* failure_window_started_at
  last,      \* l.last[sessionID]
  recent,    \* l.recent[sessionID]
  wk,        \* the workers
  log,       \* observation: sends admitted by this process
  cool       \* observation: the latest end of a cooldown that neither a success
             \* nor a shorter pause has lifted

row == <<conf, until, failures, since>>
limiter == <<last, recent>>
vars == <<clock, row, limiter, wk, log, cool>>

Never == 0
Idle == [pc |-> "idle", conf |-> CHOOSE c \in Configs : TRUE, until |-> Never,
         cool |-> Never, read |-> 0, wake |-> 0]

Init ==
  /\ clock = 1
  /\ conf \in Configs /\ until = Never /\ failures = 0 /\ since = Never
  /\ last = Never /\ recent = <<>>
  /\ wk = [w \in Workers |-> Idle]
  /\ log = <<>> /\ cool = Never

----------------------------------------------------------------------------
\* The SELECT at the head of the loop in Wait, at first or after the timer.
Query(w) ==
  /\ wk[w].pc = "idle" \/ (wk[w].pc = "sleep" /\ clock >= wk[w].wake)
  /\ wk' = [wk EXCEPT ![w] = [pc |-> "decide", conf |-> conf, until |-> until,
                              cool |-> cool, read |-> clock, wake |-> 0]]
  /\ UNCHANGED <<clock, row, limiter, log, cool>>

\* Mutant: the cooldown is not looked at.
CooldownIgnored(w, now) == 0

CooldownWait(w, now) == IF wk[w].until > now THEN wk[w].until - now ELSE 0

\* Mutant: jitter is taken off the interval instead of being added to it.
IntervalWaitShort(w, now, j) ==
  IF last # Never THEN wk[w].conf.interval - j - (now - last) ELSE 0

IntervalWait(w, now, j) ==
  IF last # Never THEN wk[w].conf.interval + j - (now - last) ELSE 0

\* The loop that keeps the sends of the last minute
Kept(now) ==
  LET kept[i \in 0..Len(recent)] ==
        IF i = 0 THEN <<>>
        ELSE IF recent[i] > now - Minute THEN Append(kept[i - 1], recent[i]) ELSE kept[i - 1]
  IN kept[Len(recent)]

\* Mutant: one send too many in a minute.
CapWaitLate(w, kept) ==
  IF wk[w].conf.max > 0 /\ Len(kept) > wk[w].conf.max THEN kept[1] + Minute - clock ELSE 0

\* Until the oldest send is a minute old, by the clock and not by now
CapWait(w, kept) ==
  IF wk[w].conf.max > 0 /\ Len(kept) >= wk[w].conf.max THEN kept[1] + Minute - clock ELSE 0

\* The critical section of Wait; now was read before the mutex was taken.
Decide(w) ==
  /\ wk[w].pc = "decide"
  /\ \E now \in wk[w].read..clock, j \in 0..wk[w].conf.jitter :
       LET kept == Kept(now)
           waits == {CooldownWait(w, now), IntervalWait(w, now, j), CapWait(w, kept)}
       IN \/ /\ \A t \in waits : t <= 0
             /\ last' = now /\ recent' = Append(kept, now)
             /\ wk' = [wk EXCEPT ![w] = [Idle EXCEPT !.pc = "send"]]
             /\ log' = Append(log, [at |-> clock, cool |-> wk[w].cool,
                                    interval |-> wk[w].conf.interval, max |-> wk[w].conf.max])
          \/ /\ \E wait \in waits :
                  /\ wait > 0 /\ \A t \in waits : t <= wait
                  /\ wk' = [wk EXCEPT ![w] = [Idle EXCEPT !.pc = "sleep", !.wake = clock + wait]]
             /\ recent' = kept
             /\ UNCHANGED <<last, log>>
  /\ UNCHANGED <<clock, row, cool>>

\* The task's context ends while Wait sleeps.
GiveUp(w) ==
  /\ wk[w].pc = "sleep"
  /\ wk' = [wk EXCEPT ![w] = Idle]
  /\ UNCHANGED <<clock, row, limiter, log, cool>>

\* One transaction on the locked row
RecordFailure(w) ==
  /\ wk[w].pc = "send"
  /\ wk' = [wk EXCEPT ![w] = Idle]
  /\ LET fresh == since = Never \/ clock - since >= Minute
         count == IF fresh THEN 1 ELSE failures + 1
         pause == conf.threshold > 0 /\ count >= conf.threshold /\ conf.pause > 0
     IN /\ failures' = count
        /\ since' = IF fresh THEN clock ELSE since
        /\ until' = IF pause THEN clock + conf.pause ELSE until
        /\ cool' = IF pause /\ cool < clock + conf.pause THEN clock + conf.pause ELSE cool
  /\ UNCHANGED <<clock, conf, limiter, log>>

RecordSuccess(w) ==
  /\ wk[w].pc = "send"
  /\ wk' = [wk EXCEPT ![w] = Idle]
  /\ failures' = 0 /\ since' = Never /\ until' = Never /\ cool' = Never
  /\ UNCHANGED <<clock, conf, limiter, log>>

\* The statement fails, or the handler returns without recording anything.
RecordNothing(w) ==
  /\ wk[w].pc = "send"
  /\ wk' = [wk EXCEPT ![w] = Idle]
  /\ UNCHANGED <<clock, row, limiter, log, cool>>

\* PUT /sessions/:id/throttle
UpdateThrottle ==
  /\ \E c \in Configs : /\ c # conf /\ conf' = c
                        /\ cool' = IF c.pause < conf.pause THEN Never ELSE cool
  /\ UNCHANGED <<clock, until, failures, since, limiter, wk, log>>

\* The memory of the limiter does not survive, the row does.
Restart ==
  /\ last' = Never /\ recent' = <<>> /\ log' = <<>>
  /\ wk' = [w \in Workers |-> Idle]
  /\ UNCHANGED <<clock, row, cool>>

Tick ==
  /\ clock < MaxClock /\ clock' = clock + 1
  /\ \A w \in Workers : wk[w].pc = "decide" => clock - wk[w].read < MaxLag
  /\ UNCHANGED <<row, limiter, wk, log, cool>>

Next ==
  \/ \E w \in Workers : \/ Query(w) \/ Decide(w) \/ GiveUp(w)
                        \/ RecordFailure(w) \/ RecordSuccess(w) \/ RecordNothing(w)
  \/ UpdateThrottle \/ Restart \/ Tick

Spec == Init /\ [][Next]_vars

----------------------------------------------------------------------------
\* Two sends of a session that follow each other are apart by the interval
\* the later one was given, whatever workers race for it; the time a worker
\* waits for the mutex is all that can be missing.
IntervalKept ==
  \A i \in 2..Len(log) : log[i].at - log[i - 1].at >= log[i].interval - MaxLag

\* A minute never holds more sends than the largest cap that a send was given
\* so far, but for the time a worker waits for the mutex, which no interval
\* is shorter than.  (A lowered cap can be missed at the instant the oldest
\* send expires: kept is computed with now, the wait with time.Until.)
CapKept ==
  \A i \in 1..Len(log) :
    LET m == Max({log[k].max : k \in 1..i}) IN
      (\A k \in 1..i : log[k].max > 0) /\ i > m => log[i].at - log[i - m].at >= Minute - MaxLag

\* A worker that asks while a session is in cooldown (docs/PRD.md:104) sends
\* nothing before the pause is over: failures of sends that were under way,
\* settings that do not shorten the pause and restarts never shorten it.
\* RecordSuccess lifts it, also that of a send admitted before the threshold
\* was reached, and with a shorter pause a late failure brings it forward.
NoSendInCooldown == \A i \in 1..Len(log) : log[i].cool <= log[i].at
=============================================================================
