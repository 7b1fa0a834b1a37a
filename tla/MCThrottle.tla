----------------------------- MODULE MCThrottle -----------------------------
(* Throttle for TLC: settings with small numbers of ticks.                 *)
EXTENDS Throttle, TLC

Setting(i, j, m, p) == [interval |-> i, jitter |-> j, max |-> m, threshold |-> 2, pause |-> p]

Changing == {Setting(2, 1, 2, 3), Setting(1, 0, 1, 2)}

Symmetry == Permutations(Workers)
=============================================================================
