----------------------------- MODULE MCPayments -----------------------------
(* Instances of Payments for TLC: two prompts and two calls beside the sweep. *)
EXTENDS Payments, TLC

CONSTANTS p1, p2, c1, c2

OnePrompt  == {p1}
TwoPrompts == {p1, p2}
OneCall    == {c1}
TwoCalls   == {c1, c2}

OnePrice  == {1}
TwoPrices == {1, 2}

NoFaults   == {}
CrashFault == {"crash"}
LostFault  == {"lost"}
AllFaults  == {"crash", "lost"}

Symmetry == Permutations({p1, p2}) \union Permutations({c1, c2})
=============================================================================
