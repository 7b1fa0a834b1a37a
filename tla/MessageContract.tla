--------------------------- MODULE MessageContract ---------------------------
(***************************************************************************)
(* What the gateway promises about one message, whatever fails: the life   *)
(* of its row and the transmissions WhatsApp accepted.  It says nothing of *)
(* queues, retries, handlers or restarts.                                  *)
(***************************************************************************)
EXTENDS Integers

CONSTANT Ids

VARIABLES state, sends

cvars == <<state, sends>>

Init ==
  /\ state = [m \in Ids |-> "new"]
  /\ sends = [m \in Ids |-> 0]

Move(m, s) == state' = [state EXCEPT ![m] = s] /\ UNCHANGED sends

Accept(m) == state[m] = "new" /\ Move(m, "queued")

\* At least once: also while the row says failed, read or is deleted.
Transmit(m) ==
  /\ state[m] # "new"
  /\ sends' = [sends EXCEPT ![m] = @ + 1]
  /\ UNCHANGED state

Sent(m) == state[m] \notin {"new", "deleted"} /\ sends[m] > 0 /\ Move(m, "sent")

Failed(m) == state[m] \notin {"new", "deleted"} /\ Move(m, "failed")

Receipt(m) ==
  \/ state[m] = "sent" /\ Move(m, "delivered")
  \/ state[m] \in {"sent", "delivered"} /\ Move(m, "read")

\* A queued message is never deleted, and a deleted one never comes back.
Delete(m) == state[m] \notin {"new", "queued", "deleted"} /\ Move(m, "deleted")

Next ==
  \E m \in Ids :
    Accept(m) \/ Transmit(m) \/ Sent(m) \/ Failed(m) \/ Receipt(m) \/ Delete(m)

Spec == Init /\ [][Next]_cvars
=============================================================================
