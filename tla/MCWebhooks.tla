----------------------------- MODULE MCWebhooks -----------------------------
(* WebhookDelivery for TLC: one event of session s1, and webhooks that it  *)
(* matches and that it does not.                                           *)
EXTENDS WebhookDelivery, TLC

CONSTANTS e1, sent, failed, s1, s2

NameOf(e) == sent
SessionOf(e) == s1

\* A webhook for every event of s1, one of s2, one that is off, and one for
\* every session whose url makes no request.
Various == {[active |-> TRUE, names |-> {sent, failed}, scope |-> {s1}, usable |-> TRUE],
            [active |-> TRUE, names |-> {sent, failed}, scope |-> {s2}, usable |-> TRUE],
            [active |-> FALSE, names |-> {sent}, scope |-> {}, usable |-> TRUE],
            [active |-> TRUE, names |-> {sent}, scope |-> {}, usable |-> FALSE]}

Symmetry == Permutations(Senders) \cup Permutations(Hooks)
=============================================================================
