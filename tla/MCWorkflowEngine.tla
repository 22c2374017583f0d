-------------------------- MODULE MCWorkflowEngine --------------------------
(* Instances of WorkflowEngine for TLC.                                    *)
EXTENDS WorkflowEngine

Edges(n) == {e \in (1..n) \X (1..n) : e[1] < e[2]}

\* Every DAG of n nodes with conditions from conds on its edges.
Dags(n, conds, parallels, retries, manuals, byEvents) ==
    UNION {[nodes : {n}, edges : {es}, cond : [es -> conds], parallel : parallels,
            retries : retries, manual : manuals, byEvent : byEvents] : es \in SUBSET Edges(n)}

AllConds == {"always", "on_complete", "on_fail", "expression"}

\* Sequential nodes: all DAGs of up to 3 nodes.
Sequential ==
    Dags(2, AllConds, {{}}, {{}, {1}}, SUBSET (1..2), BOOLEAN)
      \cup Dags(3, AllConds, {{}}, {{}, {1}}, {{}, {2}}, BOOLEAN)

\* What to_workflow_definition compiles: a chain.
Chains ==
    {[nodes |-> n, edges |-> {e \in Edges(n) : e[2] = e[1] + 1},
      cond |-> [e \in {f \in Edges(n) : f[2] = f[1] + 1} |-> "always"],
      parallel |-> {}, retries |-> {}, manual |-> m, byEvent |-> b] :
        n \in 2..4, m \in {{}, {1}, {2}}, b \in BOOLEAN}

\* Parallel groups: all DAGs of 3 nodes, and one of 4 in which node 3 (sequential)
\* stands between a parallel pair and a parallel successor of one of them.
Parallel ==
    Dags(3, {"always", "on_complete"}, {{1, 2}, {2, 3}, {1, 2, 3}}, {{}}, {{}}, {FALSE})
      \cup [nodes : {4}, edges : {{<<1, 3>>, <<2, 4>>}}, cond : [{<<1, 3>>, <<2, 4>>} -> {"always"}],
            parallel : {{1, 2, 4}}, retries : {{}, {2}}, manual : {{}}, byEvent : {FALSE}]

All == Sequential \cup Chains \cup Parallel

\* One node and its error handler.
Handler ==
    Dags(2, {"on_fail"}, {{}}, {{}, {1}}, {{}}, {FALSE})
=============================================================================
