------------------------- MODULE ToolGatewayProofs -------------------------
(***************************************************************************)
(* Proofs, for any number of calls, tokens and agents and for every way to *)
(* build the gateway, that what runs was agreed to, that a JIT token lets  *)
(* one call pass and none once it is gone, and that a call that returns    *)
(* leaves one record of its end.  The lemmas follow the layers of execute  *)
(* from the last one back to the first.                                    *)
(***************************************************************************)
EXTENDS ToolGateway, FiniteSetTheorems, TLAPS

Waiting == {"llm", "rule", "monitor", "ask"}

\* The question that a call is waiting for an answer to.
Asked(c) == IF c.pc = "ask" THEN {c.asking} ELSE {}

\* What the layers have demanded is agreed to or being asked, and where nobody can be
\* asked it is still in force as a confirm.
Consented(c) ==
    /\ conf.interactive => c.demands \subseteq c.agreed \cup Asked(c)
    /\ ~ conf.interactive /\ c.demands # {} => c.action = "confirm"

\* A call that the layers have not let pass yet.
Fresh(c) == c.excused = "no" /\ c.spent = None /\ c.runs = 0

\* A call that runs: ConsentBeforeRun.
Excused(c) ==
    \/ c.demands \subseteq c.agreed
    \/ c.excused \in {"rules", "jit"}
    \/ ~ conf.interactive /\ ~ conf.store

\* What holds of the local variables of a call, by where it is.
CallOK(c) ==
    /\ c.pc \in Waiting => Fresh(c) /\ Consented(c)
    /\ c.pc = "ask" => c.asking \in Layers /\ conf.interactive
    /\ c.pc = "llm" => c.demands = {}
    /\ c.pc \in {"file", "dispatch"} => Excused(c)
    /\ c.pc \in {"idle", "file"} => c.runs = 0
    /\ c.pc = "dispatch" => c.runs <= 1
    /\ c.pc = "idle" => c.spent = None

\* A spent token is used up, and was spent by a call of its agent and scope ...
SpentOK(c, t) ==
    c.spent = t =>
        /\ jit[t].state # "unissued" /\ jit[t].used
        /\ c.agent \in {jit[t].agent, None} /\ c.scope = jit[t].scope

\* ... and by one call only.
TokenInv ==
    /\ \A r \in Requests, t \in Tokens : SpentOK(req[r], t)
    /\ \A r, s \in Requests : req[r].spent = req[s].spent /\ req[r].spent # None => r = s

Inv ==
    /\ TypeOK /\ AuditTells /\ TokenInv
    /\ \A r \in Requests : CallOK(req[r])

-----------------------------------------------------------------------------
(* The gateway has no call and no token when it is built.                  *)
LEMMA InvInit == Init => Inv
BY GatewayAssumption
   DEF Init, Inv, TypeOK, AuditTells, TokenInv, SpentOK, CallOK, Calls, Idle, Fresh, Consented,
       Excused, Asked, Unissued, Waiting, Endings, Layers, Refusals, Configurations

-----------------------------------------------------------------------------
(* What a step may do to the tokens: it forgets no use and no issue.       *)
JitTable == [Tokens -> [state : {"unissued", "live", "gone"}, agent : Agents \cup {None},
                        scope : Scopes \cup {None}, used : BOOLEAN, expired : BOOLEAN]]

JitKept ==
    /\ jit' \in JitTable
    /\ \A t \in Tokens : jit[t].state # "unissued" =>
         /\ jit'[t].state # "unissued" /\ (jit[t].used => jit'[t].used)
         /\ jit'[t].agent = jit[t].agent /\ jit'[t].scope = jit[t].scope
         /\ jit[t].state = "gone" => jit'[t].state = "gone"

\* What a step may record of a call that it turns into c.
ToldStep(r, c) ==
    \/ c.pc # "done" /\ (told' = told \/ Record(r, "approval_preauthorized"))
    \/ /\ c.pc = "done"
       /\ \E event \in Refusals \cup {"tool_executed"} :
            Record(r, event) /\ (c.runs > 0 => event = "tool_executed")

\* A call spends a token that nobody has spent, or keeps the one it has.
SpendStep(r, c) ==
    \/ c.spent = None
    \/ c.spent = req[r].spent /\ c.agent = req[r].agent /\ c.scope = req[r].scope
    \/ /\ jit[c.spent].state = "live" /\ \A s \in Requests : req[s].spent # c.spent
       /\ \A t \in Tokens : SpentOK(c, t)'

\* RevokedStays, of one step.
Stays ==
    \A t \in Tokens, r \in Requests :
        jit[t].state = "gone" => jit'[t].state = "gone" /\ (req'[r].spent = t => req[r].spent = t)

(* Recording an event ends a call's record or leaves it open.              *)
LEMMA RecordKeeps ==
    ASSUME Inv, NEW r \in Requests, req[r].pc # "done", NEW c \in Calls, ToldStep(r, c),
           req' = [req EXCEPT ![r] = c]
    PROVE  AuditTells' /\ told' \in [Requests -> Seq(Refusals \cup {"approval_preauthorized", "tool_executed"})]
<1> DEFINE Events == Refusals \cup {"approval_preauthorized", "tool_executed"}
<1>1. told \in [Requests -> Seq(Events)] /\ req \in [Requests -> Calls] /\ Endings(r) = {}
  BY DEF Inv, TypeOK, AuditTells
<1>2. \A s \in Requests \ {r} : req'[s] = req[s]
  BY <1>1
<1>3. req'[r] = c
  BY <1>1
<1>4. CASE told' = told /\ c.pc # "done"
  <2>1. \A s \in Requests : Endings(s)' = Endings(s)
    BY <1>4 DEF Endings
  <2>2. \A s \in Requests : req'[s].pc = "done" => s # r /\ req'[s] = req[s]
    BY <1>2, <1>3, <1>4
  <2>3. \A s \in Requests : req'[s].pc # "done" => Endings(s)' = {}
    BY <1>1, <1>2, <2>1 DEF Inv, AuditTells
  <2> QED BY <1>1, <1>4, <2>1, <2>2, <2>3 DEF Inv, AuditTells
<1>5. ASSUME NEW event \in Events, Record(r, event),
             (c.pc = "done") <=> (event # "approval_preauthorized"),
             c.pc = "done" => (c.runs > 0 => event = "tool_executed")
      PROVE  AuditTells' /\ told' \in [Requests -> Seq(Events)]
  <2>1. told' = [told EXCEPT ![r] = Append(told[r], event)]
    BY <1>5 DEF Record
  <2>2. told' \in [Requests -> Seq(Events)] /\ \A s \in Requests \ {r} : told'[s] = told[s]
    BY <1>1, <2>1
  <2>3. told[r] \in Seq(Events) /\ told'[r] = Append(told[r], event)
    BY <1>1, <2>1
  <2>4. DOMAIN told'[r] = DOMAIN told[r] \cup {Len(told[r]) + 1} /\ told'[r][Len(told[r]) + 1] = event
        /\ \A i \in DOMAIN told[r] : told'[r][i] = told[r][i]
    BY <2>3
  <2>5. Endings(r)' = IF event = "approval_preauthorized" THEN {} ELSE {Len(told[r]) + 1}
    BY <1>1, <2>4 DEF Endings
  <2>6. \A s \in Requests \ {r} : Endings(s)' = Endings(s)
    BY <2>2 DEF Endings
  <2>7. IF req'[r].pc = "done"
          THEN \E i \in DOMAIN told'[r] : Endings(r)' = {i} /\ (req'[r].runs > 0 => told'[r][i] = "tool_executed")
          ELSE Endings(r)' = {}
    BY <1>3, <1>5, <2>4, <2>5
  <2> QED BY <1>2, <2>2, <2>6, <2>7 DEF Inv, AuditTells
<1>6. CASE c.pc # "done" /\ Record(r, "approval_preauthorized")
  <2> DEFINE event == "approval_preauthorized"
  <2>1. event \in Events /\ Record(r, event) /\ ((c.pc = "done") <=> (event # "approval_preauthorized"))
    BY <1>6
  <2>2. c.pc = "done" => (c.runs > 0 => event = "tool_executed")
    BY <1>6
  <2> HIDE DEF event
  <2> QED BY <1>5, <2>1, <2>2
<1>7. CASE c.pc = "done" /\ \E event \in Refusals \cup {"tool_executed"} :
             Record(r, event) /\ (c.runs > 0 => event = "tool_executed")
  <2>1. PICK event \in Refusals \cup {"tool_executed"} : Record(r, event) /\ (c.runs > 0 => event = "tool_executed")
    BY <1>7
  <2>2. event \in Events /\ event # "approval_preauthorized"
    BY <2>1 DEF Refusals
  <2> QED BY <1>5, <1>7, <2>1, <2>2
<1> QED BY <1>4, <1>6, <1>7 DEF ToldStep

(* The shape of every step of a call: it turns the call into c.            *)
LEMMA StepKeeps ==
    ASSUME Inv, NEW r \in Requests, req[r].pc # "done", NEW c \in Calls, conf' = conf,
           req' = [req EXCEPT ![r] = c], CallOK(c), JitKept, ToldStep(r, c), SpendStep(r, c)
    PROVE  Inv' /\ Stays
<1>1. req \in [Requests -> Calls] /\ conf \in Configurations
  BY DEF Inv, TypeOK
<1>2. req' \in [Requests -> Calls] /\ req'[r] = c /\ \A s \in Requests \ {r} : req'[s] = req[s]
  BY <1>1
<1>3. AuditTells' /\ TypeOK'
  BY <1>1, <1>2, RecordKeeps DEF TypeOK, JitKept, JitTable
<1>4. \A s \in Requests : CallOK(req[s])'
  <2>1. ASSUME NEW d \in Calls, CallOK(d), NEW s \in Requests, req'[s] = d PROVE CallOK(req[s])'
    BY <2>1 DEF CallOK, Fresh, Consented, Asked, Excused
  <2>2. \A s \in Requests : req[s] \in Calls /\ CallOK(req[s])
    BY <1>1 DEF Inv
  <2> QED BY <1>2, <2>1, <2>2
<1>5. ASSUME NEW s \in Requests \ {r}, NEW t \in Tokens PROVE SpentOK(req[s], t)'
  BY <1>2 DEF Inv, TokenInv, SpentOK, JitKept
<1>6. ASSUME NEW t \in Tokens PROVE SpentOK(req[r], t)'
  <2>0. req'[r] = c
    BY <1>2
  <2>1. CASE c.spent = None
    BY <2>0, <2>1, GatewayAssumption DEF SpentOK
  <2>2. CASE c.spent = req[r].spent /\ c.agent = req[r].agent /\ c.scope = req[r].scope
    BY <2>0, <2>2 DEF Inv, TokenInv, SpentOK, JitKept
  <2>3. CASE \A u \in Tokens : SpentOK(c, u)'
    BY <2>0, <2>3 DEF SpentOK
  <2> QED BY <2>1, <2>2, <2>3 DEF SpendStep
<1>7. \A s, u \in Requests : req'[s].spent = req'[u].spent /\ req'[s].spent # None => s = u
  BY <1>2 DEF Inv, TokenInv, SpendStep
<1>8. ASSUME NEW t \in Tokens, NEW s \in Requests, jit[t].state = "gone"
      PROVE  jit'[t].state = "gone" /\ (req'[s].spent = t => req[s].spent = t)
  <2>1. jit'[t].state = "gone"
    BY <1>8 DEF JitKept
  <2>2. CASE s = r
    <3>1. req'[s] = c /\ t # None
      BY <1>2, <2>2, GatewayAssumption
    <3> QED BY <1>8, <2>1, <2>2, <3>1 DEF SpendStep
  <2>3. CASE s # r
    BY <1>2, <2>1, <2>3
  <2> QED BY <2>2, <2>3
<1> QED BY <1>3, <1>4, <1>5, <1>6, <1>7, <1>8 DEF Inv, TokenInv, Stays

-----------------------------------------------------------------------------
(* The layers.  A call reaches one of them with what the layers before it  *)
(* left of it: a q that is ready for the next.                             *)
Ready(q) ==
    /\ q \in Calls /\ Fresh(q)
    /\ conf.interactive => q.demands \subseteq q.agreed
    /\ ~ conf.interactive /\ q.demands # {} => q.action = "confirm"

(* A token is marked as used.                                              *)
LEMMA JitUsed ==
    ASSUME jit \in JitTable, NEW t \in Tokens, jit' = [jit EXCEPT ![t].used = TRUE]
    PROVE  JitKept
<1> DEFINE u == [jit[t] EXCEPT !.used = TRUE]
<1>1. u \in [state : {"unissued", "live", "gone"}, agent : Agents \cup {None},
              scope : Scopes \cup {None}, used : BOOLEAN, expired : BOOLEAN]
  BY DEF JitTable
<1>2. u.used /\ u.state = jit[t].state /\ u.agent = jit[t].agent /\ u.scope = jit[t].scope
  BY DEF JitTable
<1>3. jit' = [jit EXCEPT ![t] = u]
  OBVIOUS
<1> HIDE DEF u
<1>4. jit' \in JitTable
  BY <1>1, <1>3 DEF JitTable
<1>5. \A v \in Tokens : jit'[v] = IF v = t THEN u ELSE jit[v]
  BY <1>3 DEF JitTable
<1> QED BY <1>2, <1>4, <1>5 DEF JitKept

(* A layer that leaves the tokens alone keeps them.                        *)
LEMMA JitSame == ASSUME TypeOK, UNCHANGED jit PROVE JitKept
BY DEF TypeOK, JitKept, JitTable

(* What a call leaves behind.                                              *)
LEMMA KeptFields ==
    ASSUME NEW q \in Calls
    PROVE  /\ Kept(q) \in Calls /\ Kept(q).runs = q.runs /\ Kept(q).spent = q.spent
           /\ q.spent # None => Kept(q).agent = q.agent /\ Kept(q).scope = q.scope
<1> DEFINE idle == Idle
<1>1. idle \in Calls
  BY DEF Calls, Idle
<1>2. Kept(q) = [idle EXCEPT !.spent = q.spent, !.runs = q.runs,
                             !.agent = IF q.spent = None THEN None ELSE q.agent,
                             !.scope = IF q.spent = None THEN None ELSE q.scope]
  BY DEF Kept
<1> HIDE DEF idle
<1> QED BY <1>1, <1>2 DEF Calls

(* A demanded confirm, field by field.                                     *)
LEMMA DemandFields ==
    ASSUME NEW q \in Calls, NEW layer \in Layers
    PROVE  LET p == Demand(q, layer) IN
           /\ p \in Calls /\ p.action = "confirm" /\ p.demands = q.demands \cup {layer}
           /\ p.agreed = q.agreed /\ p.excused = q.excused /\ p.spent = q.spent /\ p.runs = q.runs
<1> DEFINE d == q.demands \cup {layer}
           m == [q EXCEPT !.action = "confirm"]
           p == [m EXCEPT !.demands = d]
<1>1. Demand(q, layer) = p
  BY DEF Demand
<1>2. m \in Calls /\ d \in SUBSET Layers
  BY DEF Calls
<1>3. m.action = "confirm" /\ m.agreed = q.agreed /\ m.excused = q.excused /\ m.spent = q.spent /\ m.runs = q.runs
  BY DEF Calls
<1> HIDE DEF m, d
<1>4. p \in Calls
  BY <1>2 DEF Calls
<1>5. /\ p.action = m.action /\ p.demands = d /\ p.agreed = m.agreed /\ p.excused = m.excused
      /\ p.spent = m.spent /\ p.runs = m.runs
  BY <1>2 DEF Calls
<1> HIDE DEF p
<1> QED BY <1>1, <1>3, <1>4, <1>5 DEF d

(* A call that allow rules or Layer 3 let pass, field by field.            *)
LEMMA ExcuseFields ==
    ASSUME NEW q \in Calls, NEW why \in {"rules", "jit"}
    PROVE  LET p == [q EXCEPT !.action = "auto", !.excused = why] IN
           /\ p \in Calls /\ p.action = "auto" /\ p.excused = why
           /\ p.runs = q.runs /\ p.spent = q.spent /\ p.agent = q.agent /\ p.scope = q.scope
<1> DEFINE m == [q EXCEPT !.action = "auto"]
           p == [m EXCEPT !.excused = why]
<1>1. [q EXCEPT !.action = "auto", !.excused = why] = p
  BY Zenon
<1>2. m \in Calls
  BY DEF Calls
<1>3. m.action = "auto" /\ m.runs = q.runs /\ m.spent = q.spent /\ m.agent = q.agent /\ m.scope = q.scope
  BY DEF Calls
<1> HIDE DEF m
<1>4. p \in Calls
  BY <1>2 DEF Calls
<1>5. /\ p.action = m.action /\ p.excused = why /\ p.runs = m.runs /\ p.spent = m.spent
      /\ p.agent = m.agent /\ p.scope = m.scope
  BY <1>2 DEF Calls
<1> HIDE DEF p
<1> QED BY <1>1, <1>3, <1>4, <1>5

(* A refusal ends the call with the token it has not spent.                *)
LEMMA RefuseKeeps ==
    ASSUME Inv, NEW r \in Requests, req[r].pc # "done", NEW q \in Calls, q.spent = None, q.runs = 0,
           NEW event \in Refusals, Refuse(r, q, event), JitKept, conf' = conf
    PROVE  Inv' /\ Stays
<1> DEFINE c == [Kept(q) EXCEPT !.pc = "done"]
<1>1. c \in Calls /\ c.pc = "done" /\ c.spent = None /\ c.runs = 0
  BY KeptFields DEF Calls
<1>2. CallOK(c)
  BY <1>1 DEF CallOK, Waiting
<1>3. ToldStep(r, c)
  <2>1. event # "tool_executed" /\ event \in Refusals \cup {"tool_executed"}
    BY DEF Refusals
  <2> QED BY <1>1, <2>1 DEF ToldStep, Refuse
<1>4. SpendStep(r, c)
  BY <1>1 DEF SpendStep
<1>5. req' = [req EXCEPT ![r] = c]
  BY DEF Refuse, Leave, Goto
<1> HIDE DEF c
<1> QED BY <1>1, <1>2, <1>3, <1>4, <1>5, StepKeeps

(* A call goes to its next layer.                                          *)
LEMMA GotoKeeps ==
    ASSUME Inv, NEW r \in Requests, req[r].pc # "done", NEW q, Ready(q),
           NEW pc \in {"llm", "rule", "monitor"}, pc = "llm" => q.demands = {},
           Goto(r, q, pc), told' = told, JitKept, conf' = conf
    PROVE  Inv' /\ Stays
<1> DEFINE c == [q EXCEPT !.pc = pc]
<1>1. c \in Calls /\ c.pc = pc /\ c.spent = None
  BY DEF Ready, Calls, Fresh
<1>2. CallOK(c)
  BY DEF Ready, Calls, CallOK, Waiting, Fresh, Consented, Asked
<1>3. ToldStep(r, c) /\ SpendStep(r, c)
  BY <1>1 DEF ToldStep, SpendStep
<1>4. req' = [req EXCEPT ![r] = c]
  BY DEF Goto
<1> HIDE DEF c
<1> QED BY <1>1, <1>2, <1>3, <1>4, StepKeeps

(* A layer asks a person.                                                  *)
LEMMA AskKeeps ==
    ASSUME Inv, NEW r \in Requests, req[r].pc # "done", NEW q, Ready(q), NEW layer \in Layers,
           Ask(r, q, layer), conf.interactive, conf' = conf
    PROVE  Inv' /\ Stays
<1> DEFINE c == [[Demand(q, layer) EXCEPT !.asking = layer] EXCEPT !.pc = "ask"]
<1> DEFINE d == Demand(q, layer)
           a == [d EXCEPT !.asking = layer]
<1>0. c = [a EXCEPT !.pc = "ask"]
  OBVIOUS
<1>a. d \in Calls /\ d.demands = q.demands \cup {layer} /\ d.agreed = q.agreed /\ Fresh(d)
  BY DemandFields DEF Ready, Fresh
<1> HIDE DEF d
<1>b. a \in Calls
  BY <1>a DEF Calls
<1>c. a.asking = layer /\ a.demands = d.demands /\ a.agreed = d.agreed /\ Fresh(a)
  BY <1>a DEF Calls, Fresh
<1> HIDE DEF a, c
<1>1. c \in Calls /\ c.pc = "ask" /\ c.spent = None
  BY <1>0, <1>b, <1>c DEF Calls, Fresh
<1>2. CallOK(c)
  <2>1. c.asking = layer /\ c.demands = q.demands \cup {layer} /\ c.agreed = q.agreed /\ Fresh(c)
    BY <1>0, <1>a, <1>b, <1>c DEF Calls, Fresh
  <2> QED BY <1>1, <2>1 DEF Ready, CallOK, Waiting, Consented, Asked
<1>3. ToldStep(r, c) /\ SpendStep(r, c)
  BY <1>1 DEF ToldStep, SpendStep, Ask
<1>4. req' = [req EXCEPT ![r] = c]
  BY DEF Ask, Goto, c
<1>5. JitKept
  BY JitSame DEF Ask, Inv
<1> QED BY <1>1, <1>2, <1>3, <1>4, <1>5, StepKeeps

(* A layer that cannot ask keeps the demand as a confirm.                  *)
LEMMA DemandReady ==
    ASSUME NEW q, Ready(q), ~ conf.interactive, NEW layer \in Layers
    PROVE  Ready(Demand(q, layer))
BY DemandFields DEF Ready, Fresh

(* The command starts, excused or agreed to.                               *)
LEMMA StartKeeps ==
    ASSUME Inv, NEW r \in Requests, req[r].pc # "done", NEW q \in Calls, q.runs = 0, Excused(q),
           Start(r, q), told' = told \/ Record(r, "approval_preauthorized"),
           SpendStep(r, q), JitKept, conf' = conf
    PROVE  Inv' /\ Stays
<1> DEFINE k == Kept(q)
           p == [k EXCEPT !.demands = q.demands, !.agreed = q.agreed, !.excused = q.excused]
<1>1. PICK pc \in {"file", "dispatch"} : Goto(r, p, pc)
  BY DEF Start
<1> DEFINE c == [p EXCEPT !.pc = pc]
<1>2. k \in Calls /\ k.runs = 0 /\ k.spent = q.spent /\ (q.spent # None => k.agent = q.agent /\ k.scope = q.scope)
  BY KeptFields
<1> HIDE DEF k
<1>3. p \in Calls /\ p.runs = 0 /\ p.spent = q.spent /\ p.agent = k.agent /\ p.scope = k.scope
      /\ p.demands = q.demands /\ p.agreed = q.agreed /\ p.excused = q.excused
  <2>1. q.demands \in SUBSET Layers /\ q.agreed \in SUBSET Layers /\ q.excused \in {"no", "rules", "jit"}
    BY DEF Calls
  <2> DEFINE d == q.demands
             a == q.agreed
             e == q.excused
             m == [k EXCEPT !.demands = d]
             n == [m EXCEPT !.agreed = a]
  <2>2. p = [n EXCEPT !.excused = e]
    BY Zenon
  <2>3. k \in Calls /\ d \in SUBSET Layers /\ a \in SUBSET Layers /\ e \in {"no", "rules", "jit"}
    BY <1>2, <2>1
  <2> HIDE DEF p, d, a, e
  <2>4. /\ m \in Calls /\ m.demands = d
        /\ m.runs = k.runs /\ m.spent = k.spent /\ m.agent = k.agent /\ m.scope = k.scope
    BY <2>3 DEF Calls
  <2> HIDE DEF m
  <2>5. /\ n \in Calls /\ n.demands = d /\ n.agreed = a
        /\ n.runs = k.runs /\ n.spent = k.spent /\ n.agent = k.agent /\ n.scope = k.scope
    BY <2>3, <2>4 DEF Calls
  <2> HIDE DEF n
  <2>6. /\ p \in Calls /\ p.demands = d /\ p.agreed = a /\ p.excused = e
        /\ p.runs = k.runs /\ p.spent = k.spent /\ p.agent = k.agent /\ p.scope = k.scope
    BY <2>2, <2>3, <2>5 DEF Calls
  <2> QED BY <1>2, <2>6 DEF d, a, e
<1>4. req' = [req EXCEPT ![r] = c]
  BY <1>1 DEF Goto
<1> HIDE DEF p
<1>5. c \in Calls /\ c.pc = pc /\ c.runs = 0 /\ c.spent = q.spent /\ c.agent = k.agent /\ c.scope = k.scope
      /\ c.demands = q.demands /\ c.agreed = q.agreed /\ c.excused = q.excused
  BY <1>3 DEF Calls
<1> HIDE DEF c
<1>6. CallOK(c)
  BY <1>5 DEF CallOK, Waiting, Excused
<1>7. ToldStep(r, c)
  BY <1>5 DEF ToldStep
<1>8. SpendStep(r, c)
  <2>1. CASE q.spent = None
    BY <1>5, <2>1 DEF SpendStep
  <2>2. CASE q.spent # None
    BY <1>2, <1>5, <2>2 DEF SpendStep, SpentOK
  <2> QED BY <2>1, <2>2
<1> QED BY <1>4, <1>5, <1>6, <1>7, <1>8, StepKeeps

(* The approvals: without one, a confirm that nobody can answer ends.      *)
LEMMA ApproveKeeps ==
    ASSUME Inv, NEW r \in Requests, req[r].pc # "done", NEW q \in Calls, q.runs = 0,
           (q.excused = "jit" /\ q.action = "auto") \/ Ready(q),
           SpendStep(r, q), JitKept, Approve(r, q), conf' = conf
    PROVE  Inv' /\ Stays
<1>1. CASE q.action = "confirm" /\ ~ conf.interactive /\ conf.store
  <2>1. CASE Refuse(r, q, "approval_required")
    BY <1>1, <2>1, RefuseKeeps DEF Ready, Fresh, Refusals
  <2>2. CASE Start(r, [q EXCEPT !.action = "auto", !.excused = "rules"]) /\ Record(r, "approval_preauthorized")
    <3> DEFINE p == [q EXCEPT !.action = "auto", !.excused = "rules"]
    <3>1. p \in Calls /\ p.runs = 0 /\ p.excused = "rules" /\ p.spent = q.spent /\ p.agent = q.agent /\ p.scope = q.scope
      BY ExcuseFields
    <3>2. Start(r, p)
      BY <2>2
    <3> HIDE DEF p
    <3>3. Excused(p) /\ SpendStep(r, p)
      BY <3>1 DEF Excused, SpendStep, SpentOK
    <3> QED BY <2>2, <3>1, <3>2, <3>3, StartKeeps
  <2> QED BY <1>1, <2>1, <2>2 DEF Approve
<1>2. CASE ~ (q.action = "confirm" /\ ~ conf.interactive /\ conf.store)
  <2>1. Start(r, q) /\ told' = told
    BY <1>2 DEF Approve
  <2>2. Excused(q)
    BY <1>2 DEF Excused, Ready
  <2> QED BY <2>1, <2>2, StartKeeps
<1> QED BY <1>1, <1>2

(* The token: it is marked before any other call can read it.              *)
LEMMA VerifyKeeps ==
    ASSUME Inv, NEW r \in Requests, req[r].pc # "done", NEW q, Ready(q), q.token \in Tokens,
           Verify(r, q), conf' = conf
    PROVE  Inv' /\ Stays
<1> DEFINE t == q.token
           passes == /\ jit[t].state = "live" /\ ~ jit[t].expired /\ ~ jit[t].used
                     /\ q.agent \in {jit[t].agent, None} /\ q.scope = jit[t].scope
<1>1. jit \in JitTable /\ q \in Calls /\ q.spent = None /\ q.runs = 0
  BY DEF Inv, TypeOK, JitTable, Ready, Fresh
<1>2. CASE passes
  <2> DEFINE p == [q EXCEPT !.action = "auto", !.excused = "jit", !.spent = t]
  <2>1. jit' = [jit EXCEPT ![t].used = TRUE] /\ Approve(r, p)
    BY <1>2 DEF Verify
  <2>2. p \in Calls /\ p.runs = 0 /\ p.excused = "jit" /\ p.action = "auto" /\ p.spent = t
        /\ p.agent = q.agent /\ p.scope = q.scope
    <3> DEFINE m == [q EXCEPT !.action = "auto", !.excused = "jit"]
    <3>1. p = [m EXCEPT !.spent = t]
      BY Zenon
    <3>2. m \in Calls /\ m.runs = 0 /\ m.excused = "jit" /\ m.action = "auto" /\ m.agent = q.agent /\ m.scope = q.scope
      BY <1>1, ExcuseFields
    <3> HIDE DEF m, p
    <3> QED BY <3>1, <3>2 DEF Calls
  <2>3. JitKept
    BY <1>1, <2>1, JitUsed
  <2>4. jit'[t].used /\ jit'[t].state = "live" /\ jit'[t].agent = jit[t].agent /\ jit'[t].scope = jit[t].scope
    BY <1>1, <1>2, <2>1 DEF JitTable
  <2> HIDE DEF p
  <2>5. \A s \in Requests : req[s].spent # t
    BY <1>2 DEF Inv, TokenInv, SpentOK
  <2>6. \A u \in Tokens : SpentOK(p, u)'
    BY <1>2, <2>2, <2>4 DEF SpentOK
  <2>7. SpendStep(r, p)
    BY <1>2, <2>2, <2>5, <2>6 DEF SpendStep
  <2> QED BY <2>1, <2>2, <2>3, <2>7, ApproveKeeps
<1>3. CASE ~ passes
  <2>1. Refuse(r, q, "jit_auth") /\ (UNCHANGED jit \/ jit' = [jit EXCEPT ![t].state = "gone"])
    BY <1>3 DEF Verify
  <2>2. JitKept
    BY <1>1, <2>1 DEF JitKept, JitTable
  <2> QED BY <1>1, <2>1, <2>2, RefuseKeeps DEF Refusals
<1> QED BY <1>2, <1>3

(* Layer 3.                                                                *)
LEMMA AuthorizeKeeps ==
    ASSUME Inv, NEW r \in Requests, req[r].pc # "done", NEW q, Ready(q), Authorize(r, q), conf' = conf
    PROVE  Inv' /\ Stays
<1>1. q \in Calls /\ q.spent = None /\ q.runs = 0 /\ SpendStep(r, q)
  BY DEF Ready, Fresh, SpendStep
<1>2. UNCHANGED jit => JitKept
  BY JitSame DEF Inv
<1>3. CASE Approve(r, q) /\ UNCHANGED jit
  BY <1>1, <1>2, <1>3, ApproveKeeps
<1>4. CASE q.token # None /\ Verify(r, q)
  <2>1. q.token \in Tokens
    BY <1>1, <1>4 DEF Calls
  <2> QED BY <1>4, <2>1, VerifyKeeps
<1>5. CASE Leave(r, q, "raised") /\ UNCHANGED <<jit, told>>
  <2> DEFINE c == [Kept(q) EXCEPT !.pc = "raised"]
  <2>1. c \in Calls /\ c.pc = "raised" /\ c.spent = None
    BY <1>1, KeptFields DEF Calls
  <2>2. req' = [req EXCEPT ![r] = c]
    BY <1>5 DEF Leave, Goto
  <2> HIDE DEF c
  <2>3. CallOK(c) /\ ToldStep(r, c) /\ SpendStep(r, c)
    BY <1>5, <2>1 DEF CallOK, Waiting, ToldStep, SpendStep
  <2> QED BY <1>2, <1>5, <2>1, <2>2, <2>3, StepKeeps
<1>6. CASE Refuse(r, q, "jit_auth") /\ UNCHANGED jit
  BY <1>1, <1>2, <1>6, RefuseKeeps DEF Refusals
<1>7. CASE Approve(r, [q EXCEPT !.action = "auto", !.excused = "jit"]) /\ UNCHANGED jit
  <2> DEFINE p == [q EXCEPT !.action = "auto", !.excused = "jit"]
  <2>1. p \in Calls /\ p.runs = 0 /\ p.excused = "jit" /\ p.action = "auto" /\ p.spent = None
    BY <1>1, ExcuseFields
  <2>2. Approve(r, p)
    BY <1>7
  <2> HIDE DEF p
  <2> QED BY <1>2, <1>7, <2>1, <2>2, ApproveKeeps DEF SpendStep
<1> QED BY <1>3, <1>4, <1>5, <1>6, <1>7 DEF Authorize

(* A layer ends the call, asks or passes it on: Layer 2.6 ...              *)
LEMMA CapabilitiesKeeps ==
    ASSUME Inv, NEW r \in Requests, req[r].pc # "done", NEW q, Ready(q), Capabilities(r, q), conf' = conf
    PROVE  Inv' /\ Stays
<1>1. q \in Calls /\ q.spent = None /\ q.runs = 0 /\ (UNCHANGED jit => JitKept)
  BY JitSame DEF Ready, Fresh, Inv
<1>2. CASE Refuse(r, q, "capability_denied") /\ UNCHANGED jit
  BY <1>1, <1>2, RefuseKeeps DEF Refusals
<1>3. CASE conf.interactive /\ Ask(r, q, "capabilities")
  BY <1>3, AskKeeps DEF Layers
<1>4. CASE ~ conf.interactive /\ Goto(r, Demand(q, "capabilities"), "monitor") /\ UNCHANGED <<jit, told>>
  <2>1. Ready(Demand(q, "capabilities"))
    BY <1>4, DemandReady DEF Layers
  <2> QED BY <1>1, <1>4, <2>1, GotoKeeps
<1>5. CASE Goto(r, q, "monitor") /\ UNCHANGED <<jit, told>>
  BY <1>1, <1>5, GotoKeeps
<1> QED BY <1>2, <1>3, <1>4, <1>5 DEF Capabilities

(* ... Layer 2 ...                                                         *)
LEMMA PermissionsKeeps ==
    ASSUME Inv, NEW r \in Requests, req[r].pc # "done", NEW q, Ready(q), Permissions(r, q), conf' = conf
    PROVE  Inv' /\ Stays
<1>1. q \in Calls /\ q.spent = None /\ q.runs = 0 /\ JitKept
  BY JitSame DEF Ready, Fresh, Inv, Permissions
<1>2. CASE Refuse(r, q, "policy_denied")
  BY <1>1, <1>2, RefuseKeeps DEF Refusals
<1>3. CASE Goto(r, q, "rule") /\ UNCHANGED told
  BY <1>1, <1>3, GotoKeeps
<1> QED BY <1>2, <1>3 DEF Permissions

(* ... and Layer 1.                                                        *)
LEMMA PolicyKeeps ==
    ASSUME Inv, NEW r \in Requests, req[r].pc # "done", NEW q, Ready(q), NEW action,
           Policy(r, q, action), conf' = conf
    PROVE  Inv' /\ Stays
<1>1. q \in Calls /\ q.spent = None /\ q.runs = 0 /\ (UNCHANGED jit => JitKept)
  BY JitSame DEF Ready, Fresh, Inv
<1>2. CASE Refuse(r, q, "policy_denied") /\ UNCHANGED jit
  BY <1>1, <1>2, RefuseKeeps DEF Refusals
<1>3. CASE conf.interactive /\ Ask(r, q, "policy")
  BY <1>3, AskKeeps DEF Layers
<1>4. CASE ~ conf.interactive /\ Permissions(r, Demand(q, "policy"))
  <2>1. Ready(Demand(q, "policy"))
    BY <1>4, DemandReady DEF Layers
  <2> QED BY <1>4, <2>1, PermissionsKeeps
<1>5. CASE Permissions(r, q)
  BY <1>5, PermissionsKeeps
<1> QED BY <1>2, <1>3, <1>4, <1>5 DEF Policy

(* What follows an answer.                                                 *)
LEMMA ResumeKeeps ==
    ASSUME Inv, NEW r \in Requests, req[r].pc # "done", NEW q, Ready(q), Resume(r, q), conf' = conf
    PROVE  Inv' /\ Stays
<1>1. CASE Goto(r, q, "monitor") /\ UNCHANGED <<jit, told>>
  BY <1>1, GotoKeeps, JitSame DEF Inv
<1> QED BY <1>1, PermissionsKeeps, CapabilitiesKeeps, AuthorizeKeeps DEF Resume

-----------------------------------------------------------------------------
(* The actions of a call.                                                  *)

(* A call that waits for a layer, and not for a person, is ready.          *)
LEMMA WaitingReady ==
    ASSUME Inv, NEW r \in Requests, req[r].pc \in {"llm", "rule", "monitor"}
    PROVE  Ready(req[r])
<1>1. req[r] \in Calls /\ CallOK(req[r])
  BY DEF Inv, TypeOK
<1> QED BY <1>1 DEF Ready, CallOK, Waiting, Consented, Asked

LEMMA SubmitKeeps == ASSUME Inv, NEW r \in Requests, Submit(r) PROVE Inv' /\ Stays
<1>1. PICK call \in Submitted, action \in {"auto", "confirm", "deny"} :
        LET q == [call EXCEPT !.action = action]
        IN \/ (\E event \in {"policy_denied", "cwd_jail"} : Refuse(r, q, event)) /\ UNCHANGED jit
           \/ conf.llm /\ action # "deny" /\ Goto(r, q, "llm") /\ UNCHANGED <<jit, told>>
           \/ (conf.llm => action = "deny") /\ Policy(r, q, action)
  BY DEF Submit
<1>2. call \in Calls /\ Fresh(call) /\ call.demands = {}
  <2> DEFINE idle == Idle
  <2>1. idle \in Calls /\ Fresh(idle) /\ idle.demands = {}
    BY DEF Calls, Idle, Fresh
  <2>2. CASE call = idle
    BY <2>1, <2>2
  <2>3. ASSUME NEW risk \in {"low", "critical"}, call = [Idle EXCEPT !.manifest = TRUE, !.risk = risk]
        PROVE  call \in Calls /\ Fresh(call) /\ call.demands = {}
    <3> DEFINE m == [idle EXCEPT !.manifest = TRUE]
    <3>1. call = [m EXCEPT !.risk = risk]
      <4>1. [Idle EXCEPT !.manifest = TRUE, !.risk = risk] = [m EXCEPT !.risk = risk]
        BY Zenon
      <4> QED BY <2>3, <4>1, Zenon
    <3> HIDE DEF idle
    <3>a. m \in Calls
      BY <2>1 DEF Calls
    <3>b. Fresh(m) /\ m.demands = {}
      BY <2>1 DEF Calls, Fresh
    <3>2. m \in Calls /\ Fresh(m) /\ m.demands = {}
      BY <3>a, <3>b
    <3> HIDE DEF m
    <3> QED BY <3>1, <3>2 DEF Calls, Fresh
  <2>4. ASSUME NEW token \in Tokens, NEW agent \in Agents \cup {None}, NEW scope \in Scopes,
               call = WithToken(token, agent, scope)
        PROVE  call \in Calls /\ Fresh(call) /\ call.demands = {}
    <3> DEFINE m == [idle EXCEPT !.manifest = TRUE]
               n == [m EXCEPT !.token = token]
               o == [n EXCEPT !.agent = agent]
    <3>1. call = [o EXCEPT !.scope = scope]
      BY <2>4, Zenon DEF WithToken
    <3> HIDE DEF idle
    <3>a. m \in Calls
      BY <2>1 DEF Calls
    <3>b. Fresh(m) /\ m.demands = {}
      BY <2>1 DEF Calls, Fresh
    <3>2. m \in Calls /\ Fresh(m) /\ m.demands = {}
      BY <3>a, <3>b
    <3> HIDE DEF m
    <3>3. n \in Calls /\ Fresh(n) /\ n.demands = {}
      BY <3>2 DEF Calls, Fresh
    <3> HIDE DEF n
    <3>4. o \in Calls /\ Fresh(o) /\ o.demands = {}
      BY <3>3 DEF Calls, Fresh
    <3> HIDE DEF o
    <3> QED BY <3>1, <3>4 DEF Calls, Fresh
  <2>5. \/ call = Idle
        \/ \E risk \in {"low", "critical"} : call = [Idle EXCEPT !.manifest = TRUE, !.risk = risk]
        \/ \E token \in Tokens, agent \in Agents \cup {None}, scope \in Scopes :
              call = WithToken(token, agent, scope)
    BY DEF Submitted
  <2> QED BY <2>2, <2>3, <2>4, <2>5
<1> DEFINE q == [call EXCEPT !.action = action]
<1>3. Ready(q) /\ q.demands = {}
  BY <1>2 DEF Calls, Fresh, Ready
<1>4. req[r].pc = "idle" /\ conf' = conf /\ (UNCHANGED jit => JitKept)
  BY JitSame DEF Submit, Inv
<1>5. \/ (\E event \in {"policy_denied", "cwd_jail"} : Refuse(r, q, event)) /\ UNCHANGED jit
      \/ Goto(r, q, "llm") /\ UNCHANGED <<jit, told>>
      \/ Policy(r, q, action)
  BY <1>1
<1> HIDE DEF q
<1>6. CASE (\E event \in {"policy_denied", "cwd_jail"} : Refuse(r, q, event)) /\ UNCHANGED jit
  BY <1>3, <1>4, <1>6, RefuseKeeps DEF Refusals, Ready, Fresh
<1>7. CASE Goto(r, q, "llm") /\ UNCHANGED <<jit, told>>
  BY <1>3, <1>4, <1>7, GotoKeeps
<1>8. CASE Policy(r, q, action)
  BY <1>3, <1>4, <1>8, PolicyKeeps
<1> QED BY <1>5, <1>6, <1>7, <1>8

LEMMA LlmKeeps == ASSUME Inv, NEW r \in Requests, LlmAnswers(r) PROVE Inv' /\ Stays
<1>1. Ready(req[r]) /\ req[r].demands = {} /\ req[r].pc = "llm" /\ conf' = conf
  BY WaitingReady DEF LlmAnswers, Inv, CallOK
<1>2. CASE Policy(r, req[r], req[r].action)
  BY <1>1, <1>2, PolicyKeeps
<1>3. ASSUME NEW risk \in {"low", "critical"}, NEW action \in {"auto", "confirm", "deny"},
             Policy(r, [req[r] EXCEPT !.risk = risk, !.action = action], action)
      PROVE  Inv' /\ Stays
  <2> DEFINE c == req[r]
             q == [c EXCEPT !.risk = risk, !.action = action]
  <2>1. Policy(r, q, action)
    BY <1>3
  <2>2. Ready(c) /\ c.demands = {}
    BY <1>1
  <2> DEFINE m == [c EXCEPT !.risk = risk]
  <2>a. q = [m EXCEPT !.action = action]
    BY Zenon
  <2> HIDE DEF c, q
  <2>b. m \in Calls /\ Fresh(m) /\ m.demands = {}
    BY <2>2 DEF Ready, Fresh, Calls
  <2> HIDE DEF m
  <2>3. Ready(q)
    <3>1. q \in Calls
      BY <2>a, <2>b DEF Calls
    <3>2. Fresh(q) /\ q.demands = {}
      BY <2>a, <2>b DEF Calls, Fresh
    <3> QED BY <3>1, <3>2 DEF Ready
  <2> HIDE DEF q
  <2> QED BY <1>1, <2>1, <2>3, PolicyKeeps
<1> QED BY <1>2, <1>3 DEF LlmAnswers

LEMMA RuleKeeps == ASSUME Inv, NEW r \in Requests, RuleAnswers(r) PROVE Inv' /\ Stays
<1> DEFINE q == req[r]
<1>1. Ready(q) /\ req[r].pc = "rule" /\ conf' = conf
  BY WaitingReady DEF RuleAnswers
<1>2. \/ Refuse(r, q, "security_blocked") /\ UNCHANGED jit
      \/ conf.interactive /\ Ask(r, q, "rule")
      \/ ~ conf.interactive /\ Capabilities(r, Demand(q, "rule"))
      \/ Capabilities(r, q)
  BY DEF RuleAnswers
<1> HIDE DEF q
<1>3. CASE Refuse(r, q, "security_blocked") /\ UNCHANGED jit
  BY <1>1, <1>3, RefuseKeeps, JitSame DEF Ready, Fresh, Refusals, Inv
<1>4. CASE conf.interactive /\ Ask(r, q, "rule")
  BY <1>1, <1>4, AskKeeps DEF Layers
<1>5. CASE ~ conf.interactive /\ Capabilities(r, Demand(q, "rule"))
  <2>1. Ready(Demand(q, "rule"))
    BY <1>1, <1>5, DemandReady DEF Layers
  <2> QED BY <1>1, <1>5, <2>1, CapabilitiesKeeps
<1>6. CASE Capabilities(r, q)
  BY <1>1, <1>6, CapabilitiesKeeps
<1> QED BY <1>2, <1>3, <1>4, <1>5, <1>6

LEMMA MonitorKeeps == ASSUME Inv, NEW r \in Requests, MonitorAnswers(r) PROVE Inv' /\ Stays
<1> DEFINE q == req[r]
<1>1. Ready(q) /\ req[r].pc = "monitor" /\ conf' = conf
  BY WaitingReady DEF MonitorAnswers
<1>2. \/ Refuse(r, q, "security_blocked") /\ UNCHANGED jit
      \/ conf.interactive /\ Ask(r, q, "threat")
      \/ ~ conf.interactive /\ Authorize(r, Demand(q, "threat"))
      \/ Authorize(r, q)
  BY DEF MonitorAnswers
<1> HIDE DEF q
<1>3. CASE Refuse(r, q, "security_blocked") /\ UNCHANGED jit
  BY <1>1, <1>3, RefuseKeeps, JitSame DEF Ready, Fresh, Refusals, Inv
<1>4. CASE conf.interactive /\ Ask(r, q, "threat")
  BY <1>1, <1>4, AskKeeps DEF Layers
<1>5. CASE ~ conf.interactive /\ Authorize(r, Demand(q, "threat"))
  <2>1. Ready(Demand(q, "threat"))
    BY <1>1, <1>5, DemandReady DEF Layers
  <2> QED BY <1>1, <1>5, <2>1, AuthorizeKeeps
<1>6. CASE Authorize(r, q)
  BY <1>1, <1>6, AuthorizeKeeps
<1> QED BY <1>2, <1>3, <1>4, <1>5, <1>6

LEMMA AnswersKeeps == ASSUME Inv, NEW r \in Requests, Answers(r) PROVE Inv' /\ Stays
<1> DEFINE c == req[r]
           q == [c EXCEPT !.action = "auto", !.agreed = c.agreed \cup {c.asking}]
<1>1. c \in Calls /\ CallOK(c) /\ c.pc = "ask" /\ req[r].pc # "done" /\ conf' = conf
  BY DEF Answers, Inv, TypeOK
<1>2. Resume(r, q) \/ (Refuse(r, c, "user_cancelled") /\ UNCHANGED jit)
  BY DEF Answers
<1> HIDE DEF c
<1>3. Ready(q)
  <2>1. c.asking \in Layers /\ conf.interactive /\ Fresh(c) /\ c.demands \subseteq c.agreed \cup {c.asking}
    BY <1>1 DEF CallOK, Waiting, Consented, Asked
  <2> DEFINE m == [c EXCEPT !.action = "auto"]
             a == c.agreed \cup {c.asking}
  <2>a. q = [m EXCEPT !.agreed = a]
    BY Zenon
  <2>b. m \in Calls /\ Fresh(m) /\ m.demands = c.demands /\ a \in SUBSET Layers
    BY <1>1, <2>1 DEF Calls, Fresh
  <2> HIDE DEF m, q, a
  <2>c. q \in Calls
    BY <2>a, <2>b DEF Calls
  <2>d. Fresh(q) /\ q.demands = c.demands /\ q.agreed = a
    BY <2>a, <2>b DEF Calls, Fresh
  <2>2. q \in Calls /\ Fresh(q) /\ q.demands = c.demands /\ q.agreed = c.agreed \cup {c.asking}
    BY <2>c, <2>d DEF a
  <2> QED BY <2>1, <2>2 DEF Ready
<1> HIDE DEF q
<1>4. CASE Resume(r, q)
  BY <1>1, <1>3, <1>4, ResumeKeeps
<1>5. CASE Refuse(r, c, "user_cancelled") /\ UNCHANGED jit
  BY <1>1, <1>5, RefuseKeeps, JitSame DEF Refusals, Inv, CallOK, Waiting, Fresh
<1> QED BY <1>2, <1>4, <1>5

(* The command has run, without effect or with it.                         *)
LEMMA ExecutedKeeps ==
    ASSUME Inv, NEW r \in Requests, req[r].pc \in {"file", "dispatch"}, Executed(r, req[r]),
           UNCHANGED <<conf, jit>>
    PROVE  Inv' /\ Stays
<1>0. PICK ran \in {0, 1} : Leave(r, [req[r] EXCEPT !.runs = @ + ran], "done") /\ Record(r, "tool_executed")
  BY DEF Executed
<1> DEFINE q == req[r]
           p == [q EXCEPT !.runs = q.runs + ran]
           k == Kept(p)
           c == [k EXCEPT !.pc = "done"]
<1>1. q \in Calls /\ q.runs \in 0..1 /\ q.pc # "done"
  BY DEF Inv, TypeOK, CallOK, Calls
<1>2. req' = [req EXCEPT ![r] = c] /\ Record(r, "tool_executed")
  BY <1>0 DEF Leave, Goto
<1> HIDE DEF q
<1>3. p \in Calls /\ p.spent = q.spent /\ p.agent = q.agent /\ p.scope = q.scope
  BY <1>1 DEF Calls
<1> HIDE DEF p
<1>4. k \in Calls /\ k.spent = q.spent /\ (q.spent # None => k.agent = q.agent /\ k.scope = q.scope)
  BY <1>3, KeptFields
<1> HIDE DEF k
<1>5. c \in Calls /\ c.pc = "done" /\ c.spent = k.spent /\ c.agent = k.agent /\ c.scope = k.scope
  BY <1>4 DEF Calls
<1> HIDE DEF c
<1>6. CallOK(c)
  BY <1>5 DEF CallOK, Waiting
<1>7. ToldStep(r, c)
  BY <1>2, <1>5 DEF ToldStep
<1>8. SpendStep(r, c)
  BY <1>4, <1>5 DEF SpendStep, q
<1> QED BY <1>1, <1>2, <1>5, <1>6, <1>7, <1>8, StepKeeps, JitSame DEF Inv, q

LEMMA FileKeeps == ASSUME Inv, NEW r \in Requests, FileRuns(r) PROVE Inv' /\ Stays
<1>1. req[r].pc = "file" /\ UNCHANGED <<conf, jit>>
  BY DEF FileRuns
<1>2. CASE Executed(r, req[r])
  BY <1>1, <1>2, ExecutedKeeps
<1>3. ASSUME NEW ran \in {0, 1}, Goto(r, [req[r] EXCEPT !.runs = @ + ran], "dispatch"), UNCHANGED told
      PROVE  Inv' /\ Stays
  <2> DEFINE q == req[r]
             p == [q EXCEPT !.runs = q.runs + ran]
             c == [p EXCEPT !.pc = "dispatch"]
  <2>1. q \in Calls /\ q.runs = 0 /\ q.pc # "done" /\ Excused(q)
    BY <1>1 DEF Inv, TypeOK, CallOK
  <2>2. req' = [req EXCEPT ![r] = c]
    BY <1>3 DEF Goto
  <2> HIDE DEF q
  <2>3. p \in Calls /\ p.runs <= 1 /\ p.spent = q.spent /\ p.agent = q.agent /\ p.scope = q.scope
        /\ p.demands = q.demands /\ p.agreed = q.agreed /\ p.excused = q.excused
    BY <2>1 DEF Calls
  <2> HIDE DEF p
  <2>4. c \in Calls /\ c.pc = "dispatch" /\ c.runs <= 1 /\ c.spent = q.spent /\ c.agent = q.agent
        /\ c.scope = q.scope /\ c.demands = q.demands /\ c.agreed = q.agreed /\ c.excused = q.excused
    BY <2>3 DEF Calls
  <2> HIDE DEF c
  <2>5. CallOK(c) /\ ToldStep(r, c)
    BY <1>3, <2>1, <2>4 DEF CallOK, Waiting, Excused, ToldStep
  <2>6. SpendStep(r, c)
    BY <2>4 DEF SpendStep, q
  <2> QED BY <1>1, <2>1, <2>2, <2>4, <2>5, <2>6, StepKeeps, JitSame DEF Inv, q
<1> QED BY <1>2, <1>3 DEF FileRuns

LEMMA DispatchKeeps == ASSUME Inv, NEW r \in Requests, Dispatches(r) PROVE Inv' /\ Stays
<1>1. req[r].pc = "dispatch" /\ UNCHANGED <<conf, jit>>
  BY DEF Dispatches
<1>2. CASE Executed(r, req[r])
  BY <1>1, <1>2, ExecutedKeeps
<1>3. ASSUME NEW ran \in {0, 1}, Leave(r, [req[r] EXCEPT !.runs = @ + ran], "raised"), UNCHANGED told
      PROVE  Inv' /\ Stays
  <2> DEFINE q == req[r]
             p == [q EXCEPT !.runs = q.runs + ran]
             k == Kept(p)
             c == [k EXCEPT !.pc = "raised"]
  <2>1. q \in Calls /\ q.runs \in 0..1 /\ q.pc # "done"
    BY <1>1 DEF Inv, TypeOK, CallOK, Calls
  <2>2. req' = [req EXCEPT ![r] = c]
    BY <1>3 DEF Leave, Goto
  <2> HIDE DEF q
  <2>3. p \in Calls /\ p.spent = q.spent /\ p.agent = q.agent /\ p.scope = q.scope
    BY <2>1 DEF Calls
  <2> HIDE DEF p
  <2>4. k \in Calls /\ k.spent = q.spent /\ (q.spent # None => k.agent = q.agent /\ k.scope = q.scope)
    BY <2>3, KeptFields
  <2> HIDE DEF k
  <2>5. c \in Calls /\ c.pc = "raised" /\ c.spent = k.spent /\ c.agent = k.agent /\ c.scope = k.scope
    BY <2>4 DEF Calls
  <2> HIDE DEF c
  <2>6. CallOK(c) /\ ToldStep(r, c)
    BY <1>3, <2>5 DEF CallOK, Waiting, ToldStep
  <2>7. SpendStep(r, c)
    BY <2>4, <2>5 DEF SpendStep, q
  <2> QED BY <1>1, <2>1, <2>2, <2>5, <2>6, <2>7, StepKeeps, JitSame DEF Inv, q
<1> QED BY <1>2, <1>3 DEF Dispatches

(* A step of the tokens only, which keeps what is spent as it was.         *)
LEMMA TokenKeeps ==
    ASSUME Inv, NEW t \in Tokens, Issue(t) \/ Revoke(t) \/ Expire(t)
    PROVE  Inv' /\ Stays
<1>1. jit \in JitTable /\ UNCHANGED <<conf, req, told>>
  BY DEF Inv, TypeOK, JitTable, Issue, Revoke, Expire
<1>2. JitKept
  <2>1. CASE Issue(t)
    <3>1. PICK agent \in Agents, scope \in Scopes :
            jit' = [jit EXCEPT ![t] = [Unissued EXCEPT !.state = "live", !.agent = agent, !.scope = scope]]
      BY <2>1 DEF Issue
    <3> DEFINE u == [Unissued EXCEPT !.state = "live", !.agent = agent, !.scope = scope]
    <3>2. u \in [state : {"unissued", "live", "gone"}, agent : Agents \cup {None},
                 scope : Scopes \cup {None}, used : BOOLEAN, expired : BOOLEAN]
      BY DEF Unissued
    <3>3. jit' = [jit EXCEPT ![t] = u] /\ jit[t].state = "unissued"
      BY <2>1, <3>1 DEF Issue
    <3> HIDE DEF u
    <3> QED BY <1>1, <3>2, <3>3 DEF JitKept, JitTable
  <2>2. CASE Revoke(t)
    BY <1>1, <2>2 DEF Revoke, JitKept, JitTable
  <2>3. CASE Expire(t)
    BY <1>1, <2>3 DEF Expire, JitKept, JitTable
  <2> QED BY <2>1, <2>2, <2>3
<1>3. TypeOK'
  BY <1>1, <1>2 DEF Inv, TypeOK, JitKept, JitTable
<1>4. AuditTells'
  BY <1>1 DEF Inv, AuditTells, Endings
<1>5. TokenInv'
  BY <1>1, <1>2 DEF Inv, TokenInv, SpentOK, JitKept
<1>6. \A r \in Requests : CallOK(req[r])'
  BY <1>1 DEF Inv, CallOK, Fresh, Consented, Asked, Excused
<1>7. Stays
  BY <1>1, <1>2 DEF Stays, JitKept
<1> QED BY <1>3, <1>4, <1>5, <1>6, <1>7 DEF Inv

(* Inv is inductive.                                                       *)
LEMMA InvStep == Inv /\ [Next]_vars => Inv' /\ Stays
<1> SUFFICES ASSUME Inv, [Next]_vars PROVE Inv' /\ Stays
  OBVIOUS
<1>1. CASE UNCHANGED vars
  BY <1>1 DEF vars, Stays, Inv, TypeOK, AuditTells, Endings, TokenInv, SpentOK, CallOK, Fresh, Consented, Asked, Excused
<1>2. ASSUME NEW r \in Requests, Advance(r) PROVE Inv' /\ Stays
  BY <1>2, SubmitKeeps, LlmKeeps, RuleKeeps, MonitorKeeps, AnswersKeeps, FileKeeps, DispatchKeeps DEF Advance
<1>3. ASSUME NEW t \in Tokens, Issue(t) \/ Revoke(t) \/ Expire(t) PROVE Inv' /\ Stays
  BY <1>3, TokenKeeps
<1> QED BY <1>1, <1>2, <1>3 DEF Next

(* Every state satisfies the inductive invariant.                          *)
LEMMA Invariance == Spec => []Inv
BY InvInit, InvStep, PTL DEF Spec

-----------------------------------------------------------------------------
(* Each call, token and record has its type: a command runs at most twice, *)
(* by main.py and then by the dispatcher.                                  *)
THEOREM TypeCorrect == Spec => []TypeOK
<1>1. Inv => TypeOK
  BY DEF Inv
<1> QED BY <1>1, Invariance, PTL

(* A call that returns has left exactly one record of its end, and no      *)
(* refusal if its command ran.                                             *)
THEOREM AuditIsTold == Spec => []AuditTells
<1>1. Inv => AuditTells
  BY DEF Inv
<1> QED BY <1>1, Invariance, PTL

(* No command starts against what a layer demanded.                        *)
THEOREM ConsentIsGiven == Spec => []ConsentBeforeRun
<1>1. Inv => ConsentBeforeRun
  BY DEF Inv, CallOK, ConsentBeforeRun, Running, Excused
<1> QED BY <1>1, Invariance, PTL

(* A token lets one call pass.                                             *)
THEOREM TokensAreOneShot == Spec => []TokenOnce
<1>1. Inv => TokenOnce
  <2> SUFFICES ASSUME Inv, NEW t \in Tokens
               PROVE  LET by == {r \in Requests : req[r].spent = t} IN
                        /\ Cardinality(by) <= 1
                        /\ \A r \in by : req[r].agent \in {jit[t].agent, None} /\ req[r].scope = jit[t].scope
    BY DEF TokenOnce
  <2> DEFINE by == {r \in Requests : req[r].spent = t}
  <2>1. \A r \in by : req[r].agent \in {jit[t].agent, None} /\ req[r].scope = jit[t].scope
    BY DEF Inv, TokenInv, SpentOK
  <2>2. \A r, s \in by : r = s
    BY GatewayAssumption DEF Inv, TokenInv
  <2>3. Cardinality(by) <= 1
    <3>1. CASE by = {}
      BY <3>1, FS_EmptySet
    <3>2. CASE by # {}
      <4>1. PICK r \in by : TRUE
        BY <3>2
      <4>2. by = {r}
        BY <2>2, <4>1
      <4>3. Cardinality({r}) = 1
        BY FS_Singleton
      <4> QED BY <4>2, <4>3
    <3> QED BY <3>1, <3>2
  <2> QED BY <2>1, <2>3
<1> QED BY <1>1, Invariance, PTL

(* A token that is gone lets none pass any more.                           *)
THEOREM RevokedTokensStayOut == Spec => RevokedStays
<1>1. Inv /\ [Next]_vars => Stays
  BY InvStep
<1>2. Stays => [\A t \in Tokens, r \in Requests :
                  jit[t].state = "gone" => jit'[t].state = "gone" /\ (req'[r].spent = t => req[r].spent = t)]_vars
  BY DEF Stays
<1> QED BY <1>1, <1>2, Invariance, PTL DEF Spec, RevokedStays

=============================================================================
