---------------------------- MODULE MCLlmRouter ----------------------------
(* LlmRouter for TLC: two processes, a limited and a free provider, chains *)
(* with two providers, with one provider twice and with a missing key.     *)
EXTENDS LlmRouter

CONSTANTS a1, a2, b1, daemon, cli, free, paid

MCOf == [c \in Callers |-> IF c = b1 THEN cli ELSE daemon]

Key(p) == [provider |-> p, usable |-> TRUE]

MCChains == {<<Key(free), Key(paid)>>, <<Key(free), Key(free)>>,
             <<[Key(free) EXCEPT !.usable = FALSE], Key(paid)>>}
=============================================================================
