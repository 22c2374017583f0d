---------------------------- MODULE RemoteCalls ----------------------------
(* What a caller of a tool server is promised: a call is carried out once  *)
(* at most, and its outcome is the answer to that very call or a failure.  *)
EXTENDS Naturals

CONSTANTS Calls, None, Failed

VARIABLES
    sent,       \* the calls that were put to the server
    ran,        \* how often the server has carried out a call
    outcome     \* None, Failed, or the call whose answer was returned

vars == <<sent, ran, outcome>>

Init == sent = {} /\ ran = [k \in Calls |-> 0] /\ outcome = [k \in Calls |-> None]

Send(k) ==
    /\ k \notin sent /\ outcome[k] = None
    /\ sent' = sent \cup {k}
    /\ UNCHANGED <<ran, outcome>>

\* Also after its caller gave up.
Run(k) ==
    /\ k \in sent /\ ran[k] = 0
    /\ ran' = [ran EXCEPT ![k] = 1]
    /\ UNCHANGED <<sent, outcome>>

Return(k) ==
    /\ outcome[k] = None /\ ran[k] = 1
    /\ outcome' = [outcome EXCEPT ![k] = k]
    /\ UNCHANGED <<sent, ran>>

Fail(k) ==
    /\ outcome[k] = None
    /\ outcome' = [outcome EXCEPT ![k] = Failed]
    /\ UNCHANGED <<sent, ran>>

Next == \E k \in Calls : Send(k) \/ Run(k) \/ Return(k) \/ Fail(k)

Spec == Init /\ [][Next]_vars
=============================================================================
