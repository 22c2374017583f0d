----------------------------- MODULE MCEventBus -----------------------------
(* Instances of EventBus for TLC.                                          *)
EXTENDS EventBus

Failure == <<"event", "eventbus", "dispatch_failed">>
TwoTypes == {<<"task", "node", "done">>, Failure}
TwoPatterns == {<<Star>>, <<"task", Star, "done">>}

\* Callbacks are interchangeable.
Symmetry == Permutations(Callbacks)
=============================================================================
