---------------------------- MODULE ToolGateway ----------------------------
(***************************************************************************)
(* tool_gateway.py: calls of ToolGateway.execute on one event loop, with   *)
(* the table of JIT tokens that they share.  An action is what execute     *)
(* does between two awaits.  What a layer decides is chosen freely among   *)
(* the answers it can give; what the gateway makes of the answers is the   *)
(* code's.                                                                 *)
(***************************************************************************)
EXTENDS Naturals, Sequences, FiniteSets

CONSTANTS
    Requests,   \* calls of execute
    Tokens,     \* JIT tokens
    Agents,
    Scopes,     \* what a token is bound to besides its agent: a tool and a command
    None        \* no token, or a request without an agent_id

ASSUME GatewayAssumption == None \notin Agents \cup Tokens

VARIABLES
    conf,       \* how the gateway was built: interactive, llm_policy, approval store, JIT
    req,        \* where each call of execute is, with its local variables
    jit,        \* _jit_tokens
    told        \* the audit events of each call so far

vars == <<conf, req, jit, told>>

Configurations == [interactive : BOOLEAN, llm : BOOLEAN, store : BOOLEAN, jit : BOOLEAN]

\* demands and agreed (history): the layers that asked for a person, those a person agreed
\* to; excused (history): preauthorized, or passed by Layer 3; spent (history): the token
\* consumed; runs (history): how often the command's effects happened.
Idle == [pc |-> "idle", agent |-> None, scope |-> None, manifest |-> FALSE, token |-> None,
         risk |-> "low", action |-> "auto", demands |-> {}, agreed |-> {}, asking |-> "none",
         excused |-> "no", spent |-> None, runs |-> 0]

Unissued == [state |-> "unissued", agent |-> None, scope |-> None, used |-> FALSE, expired |-> FALSE]

Init ==
    /\ conf \in Configurations
    /\ req = [r \in Requests |-> Idle] /\ jit = [t \in Tokens |-> Unissued] /\ told = [r \in Requests |-> <<>>]

-----------------------------------------------------------------------------
(* Ends of a call                                                          *)

Goto(r, q, pc) == req' = [req EXCEPT ![r] = [q EXCEPT !.pc = pc]]

\* What is left of a call once the layers are done: the token it spent, and what it did.
Kept(q) == [Idle EXCEPT !.spent = q.spent, !.runs = q.runs,
                        !.agent = IF q.spent = None THEN None ELSE q.agent,
                        !.scope = IF q.spent = None THEN None ELSE q.scope]

Leave(r, q, pc) == Goto(r, Kept(q), pc)

Record(r, event) == told' = [told EXCEPT ![r] = Append(@, event)]

Refuse(r, q, event) == Leave(r, q, "done") /\ Record(r, event)

\* A response came back: the command ran, or the response says why it did not.
Executed(r, q) ==
    \E ran \in {0, 1} : Leave(r, [q EXCEPT !.runs = @ + ran], "done") /\ Record(r, "tool_executed")

-----------------------------------------------------------------------------
(* From the last layer to the execution                                    *)

\* plan_for, then the tool's main.py, or the dispatcher if it has none.
Start(r, q) ==
    \E pc \in {"file", "dispatch"} :
        Goto(r, [Kept(q) EXCEPT !.demands = q.demands, !.agreed = q.agreed, !.excused = q.excused], pc)

\* A confirm that nobody can answer: allow rules, or a pending approval (whether the store
\* can write it or not).
Approve(r, q) ==
    IF q.action = "confirm" /\ ~conf.interactive /\ conf.store
      THEN \/ /\ Start(r, [q EXCEPT !.action = "auto", !.excused = "rules"])
              /\ Record(r, "approval_preauthorized")
           \/ Refuse(r, q, "approval_required")
      ELSE Start(r, q) /\ UNCHANGED told

\* Mutant: a token is not marked as used.
VerifyUnmarked(r, q) ==
    LET t == jit[q.token] IN
        IF /\ t.state = "live" /\ ~t.expired /\ ~t.used
           /\ q.agent \in {t.agent, None} /\ q.scope = t.scope
          THEN /\ UNCHANGED jit
               /\ Approve(r, [q EXCEPT !.action = "auto", !.excused = "jit", !.spent = q.token])
          ELSE UNCHANGED jit /\ Refuse(r, q, "jit_auth")

\* Mutant: the token is taken as it was when the request came in, revoked since or not.
VerifyStale(r, q) ==
    LET t == jit[q.token] IN
        IF ~t.expired /\ ~t.used /\ q.agent \in {t.agent, None} /\ q.scope = t.scope
          THEN /\ jit' = [jit EXCEPT ![q.token].used = TRUE]
               /\ Approve(r, [q EXCEPT !.action = "auto", !.excused = "jit", !.spent = q.token])
          ELSE UNCHANGED jit /\ Refuse(r, q, "jit_auth")

Verify(r, q) ==
    LET t == jit[q.token]
        expired == t.state = "live" /\ t.expired
    IN IF /\ t.state = "live" /\ ~t.expired /\ ~t.used
          /\ q.agent \in {t.agent, None} /\ q.scope = t.scope
         THEN /\ jit' = [jit EXCEPT ![q.token].used = TRUE]
              /\ Approve(r, [q EXCEPT !.action = "auto", !.excused = "jit", !.spent = q.token])
         ELSE /\ jit' = IF expired THEN [jit EXCEPT ![q.token].state = "gone"] ELSE jit
              /\ Refuse(r, q, "jit_auth")

\* Layer 3.  It looks at calls with a manifest only.  Some commands are listed in the
\* manifest's deny_exec as a pattern.  A token that comes with a confirm makes the code
\* read cmd_str before it has a value: execute raises.
Authorize(r, q) ==
    IF ~(conf.jit /\ q.manifest) THEN Approve(r, q) /\ UNCHANGED jit
    ELSE IF q.token # None
      THEN IF q.action = "auto" THEN Verify(r, q)
           ELSE Leave(r, q, "raised") /\ UNCHANGED <<jit, told>>
      ELSE \E listed \in BOOLEAN :
             /\ UNCHANGED jit
             /\ IF q.risk = "critical" \/ (q.action = "auto" /\ listed)
                  THEN Refuse(r, q, "jit_auth")
                  ELSE Approve(r, [q EXCEPT !.action = "auto", !.excused = "jit"])

-----------------------------------------------------------------------------
(* The layers before                                                       *)

\* A layer wants a person to agree: the gateway asks, or keeps the confirm for later.
Demand(q, layer) == [q EXCEPT !.action = "confirm", !.demands = @ \cup {layer}]
Ask(r, q, layer) == Goto(r, [Demand(q, layer) EXCEPT !.asking = layer], "ask") /\ UNCHANGED <<jit, told>>

Capabilities(r, q) ==
    \/ Refuse(r, q, "capability_denied") /\ UNCHANGED jit
    \/ conf.interactive /\ Ask(r, q, "capabilities")
    \/ ~conf.interactive /\ Goto(r, Demand(q, "capabilities"), "monitor") /\ UNCHANGED <<jit, told>>
    \/ Goto(r, q, "monitor") /\ UNCHANGED <<jit, told>>

\* Layer 2 looks at calls with a manifest only; then Layer 2.5 is awaited.
Permissions(r, q) ==
    /\ \/ q.manifest /\ Refuse(r, q, "policy_denied")
       \/ Goto(r, q, "rule") /\ UNCHANGED told
    /\ UNCHANGED jit

Policy(r, q, action) ==
    \/ action = "deny" /\ Refuse(r, q, "policy_denied") /\ UNCHANGED jit
    \/ action = "confirm" /\ conf.interactive /\ Ask(r, q, "policy")
    \/ action = "confirm" /\ ~conf.interactive /\ Permissions(r, Demand(q, "policy"))
    \/ action = "auto" /\ Permissions(r, q)

WithToken(token, agent, scope) ==
    [Idle EXCEPT !.manifest = TRUE, !.token = token, !.agent = agent, !.scope = scope]

\* A request as Layer 3 reads it: nothing of a call without a manifest, and who calls, and
\* with what, only next to a token, which is one that was issued.
Submitted ==
    {Idle} \cup {[Idle EXCEPT !.manifest = TRUE, !.risk = risk] : risk \in {"low", "critical"}}
    \cup {WithToken(token, agent, scope) : token \in {t \in Tokens : jit[t].state # "unissued"},
                                           agent \in Agents \cup {None}, scope \in Scopes}

\* An empty command and a working directory outside the jail end the call.
Submit(r) ==
    /\ req[r].pc = "idle"
    /\ \E call \in Submitted, action \in {"auto", "confirm", "deny"} :
         LET q == [call EXCEPT !.action = action]
         IN \/ /\ \E event \in {"policy_denied", "cwd_jail"} : Refuse(r, q, event)
               /\ UNCHANGED jit
            \/ conf.llm /\ action # "deny" /\ Goto(r, q, "llm") /\ UNCHANGED <<jit, told>>
            \/ (conf.llm => action = "deny") /\ Policy(r, q, action)
    /\ UNCHANGED conf

\* Its answer replaces that of the rules; if it fails theirs stays.
LlmAnswers(r) ==
    /\ req[r].pc = "llm"
    /\ \/ Policy(r, req[r], req[r].action)
       \/ \E risk \in {"low", "critical"}, action \in {"auto", "confirm", "deny"} :
            Policy(r, [req[r] EXCEPT !.risk = risk, !.action = action], action)
    /\ UNCHANGED conf

RuleAnswers(r) ==
    /\ req[r].pc = "rule"
    /\ LET q == req[r] IN
         \/ Refuse(r, q, "security_blocked") /\ UNCHANGED jit
         \/ conf.interactive /\ Ask(r, q, "rule")
         \/ ~conf.interactive /\ Capabilities(r, Demand(q, "rule"))
         \/ Capabilities(r, q)
    /\ UNCHANGED conf

MonitorAnswers(r) ==
    /\ req[r].pc = "monitor"
    /\ LET q == req[r] IN
         \/ Refuse(r, q, "security_blocked") /\ UNCHANGED jit
         \/ conf.interactive /\ Ask(r, q, "threat")
         \/ ~conf.interactive /\ Authorize(r, Demand(q, "threat"))
         \/ Authorize(r, q)
    /\ UNCHANGED conf

\* What follows the layer that asked.
Resume(r, q) ==
    \/ q.asking = "policy" /\ Permissions(r, q)
    \/ q.asking = "rule" /\ Capabilities(r, q)
    \/ q.asking = "capabilities" /\ Goto(r, q, "monitor") /\ UNCHANGED <<jit, told>>
    \/ q.asking = "threat" /\ Authorize(r, q)

\* Mutant: whoever agreed to the rules' question is not listened to after it.
AnswersOnce(r) ==
    /\ req[r].pc = "ask"
    /\ LET q == req[r] IN
         \/ Resume(r, [q EXCEPT !.action = "auto", !.agreed = @ \cup {q.asking}])
         \/ "policy" \in q.agreed /\ Resume(r, [q EXCEPT !.action = "auto"])
         \/ Refuse(r, q, "user_cancelled") /\ UNCHANGED jit
    /\ UNCHANGED conf

\* A person agrees, or declines; a stdin that is no terminal declines.
Answers(r) ==
    /\ req[r].pc = "ask"
    /\ LET q == req[r] IN
         \/ Resume(r, [q EXCEPT !.action = "auto", !.agreed = @ \cup {q.asking}])
         \/ Refuse(r, q, "user_cancelled") /\ UNCHANGED jit
    /\ UNCHANGED conf

-----------------------------------------------------------------------------
(* Execution                                                               *)

\* Mutant: the failure of main.py is recorded as well.
FileRunsTold(r) ==
    /\ req[r].pc = "file"
    /\ \/ Executed(r, req[r])
       \/ \E ran \in {0, 1} : Goto(r, [req[r] EXCEPT !.runs = @ + ran], "dispatch") /\ Record(r, "tool_executed")
    /\ UNCHANGED <<conf, jit>>

\* main.py's execute; if it raises, before or after its effects, the dispatcher is next.
FileRuns(r) ==
    /\ req[r].pc = "file"
    /\ \/ Executed(r, req[r])
       \/ \E ran \in {0, 1} : Goto(r, [req[r] EXCEPT !.runs = @ + ran], "dispatch") /\ UNCHANGED told
    /\ UNCHANGED <<conf, jit>>

\* The dispatcher of a file-based tool lets what its main.py raises through.
Dispatches(r) ==
    /\ req[r].pc = "dispatch"
    /\ \/ Executed(r, req[r])
       \/ \E ran \in {0, 1} : Leave(r, [req[r] EXCEPT !.runs = @ + ran], "raised") /\ UNCHANGED told
    /\ UNCHANGED <<conf, jit>>

-----------------------------------------------------------------------------
(* JIT tokens                                                              *)

Issue(t) ==
    /\ jit[t].state = "unissued"
    /\ \E agent \in Agents, scope \in Scopes :
         jit' = [jit EXCEPT ![t] = [Unissued EXCEPT !.state = "live", !.agent = agent, !.scope = scope]]
    /\ UNCHANGED <<conf, req, told>>

Revoke(t) ==
    /\ jit[t].state = "live"
    /\ jit' = [jit EXCEPT ![t].state = "gone"]
    /\ UNCHANGED <<conf, req, told>>

\* The ttl of a token passes.
Expire(t) ==
    /\ jit[t].state = "live" /\ ~jit[t].expired
    /\ jit' = [jit EXCEPT ![t].expired = TRUE]
    /\ UNCHANGED <<conf, req, told>>

-----------------------------------------------------------------------------
Advance(r) ==
    Submit(r) \/ LlmAnswers(r) \/ RuleAnswers(r) \/ MonitorAnswers(r) \/ Answers(r) \/ FileRuns(r) \/ Dispatches(r)

Next ==
    \/ \E r \in Requests : Advance(r)
    \/ \E t \in Tokens : Issue(t) \/ Revoke(t) \/ Expire(t)

Spec == Init /\ [][Next]_vars

-----------------------------------------------------------------------------
Layers == {"policy", "rule", "capabilities", "threat"}
Refusals == {"policy_denied", "cwd_jail", "security_blocked", "capability_denied", "user_cancelled",
             "jit_auth", "approval_required"}

Calls == [pc : {"idle", "llm", "rule", "monitor", "ask", "file", "dispatch", "done", "raised"},
          agent : Agents \cup {None}, scope : Scopes \cup {None}, manifest : BOOLEAN,
          token : Tokens \cup {None}, risk : {"low", "critical"}, action : {"auto", "confirm", "deny"},
          demands : SUBSET Layers, agreed : SUBSET Layers, asking : Layers \cup {"none"},
          excused : {"no", "rules", "jit"}, spent : Tokens \cup {None}, runs : 0..2]

(* Types, and nothing recorded but the events that execute names.          *)
TypeOK ==
    /\ conf \in Configurations
    /\ req \in [Requests -> Calls]
    /\ jit \in [Tokens -> [state : {"unissued", "live", "gone"}, agent : Agents \cup {None},
                           scope : Scopes \cup {None}, used : BOOLEAN, expired : BOOLEAN]]
    /\ told \in [Requests -> Seq(Refusals \cup {"approval_preauthorized", "tool_executed"})]

\* The records of how the call ended, by their places.
Endings(r) == {i \in DOMAIN told[r] : told[r][i] # "approval_preauthorized"}

(* _record_audit: a call that returned left exactly one record of its end, *)
(* and no refusal if its command ran, by main.py or by the dispatcher.  A  *)
(* call that is still under way, or that raised, left none.                *)
AuditTells ==
    \A r \in Requests :
        IF req[r].pc = "done"
          THEN \E i \in DOMAIN told[r] :
                 Endings(r) = {i} /\ (req[r].runs > 0 => told[r][i] = "tool_executed")
          ELSE Endings(r) = {}

Running(r) == req[r].pc \in {"file", "dispatch"}

(* What runs although layers demanded a confirmation runs because a person *)
(* agreed to each of them, or by an allow rule, or by Layer 3, or, with    *)
(* nobody to ask, on a gateway that has no approval store.                 *)
ConsentBeforeRun ==
    \A r \in Requests :
        Running(r) =>
            \/ req[r].demands \subseteq req[r].agreed
            \/ req[r].excused \in {"rules", "jit"}
            \/ ~conf.interactive /\ ~conf.store

(* _verify_jit_token: one token lets at most one call pass, a call of the  *)
(* agent, tool and command it was issued for, however calls interleave.    *)
TokenOnce ==
    \A t \in Tokens : LET by == {r \in Requests : req[r].spent = t} IN
        /\ Cardinality(by) <= 1
        /\ \A r \in by : req[r].agent \in {jit[t].agent, None} /\ req[r].scope = jit[t].scope

(* A token that was revoked, or found to be expired, lets no call pass,    *)
(* not even one that was submitted with it before and was asking someone.  *)
RevokedStays ==
    [][\A t \in Tokens, r \in Requests :
          jit[t].state = "gone" => jit'[t].state = "gone" /\ (req'[r].spent = t => req[r].spent = t)]_vars

-----------------------------------------------------------------------------
(* _check_capabilities says that a confirm requires somebody's agreement   *)
(* and that Layer 3 catches it where nobody can be asked.  Layer 3 lets    *)
(* such a call pass without a token.                                       *)
ConfirmedOrToken ==
    \A r \in Requests :
        Running(r) /\ conf.store =>
            \/ req[r].demands \subseteq req[r].agreed
            \/ req[r].excused = "rules" \/ req[r].spent # None

(* _observe_behavior says that every end of a call passes _record_audit.   *)
EveryEndTold == \A r \in Requests : req[r].pc \in {"done", "raised"} => Endings(r) # {}
=============================================================================
