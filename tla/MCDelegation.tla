---------------------------- MODULE MCDelegation ----------------------------
(***************************************************************************)
(* Two delegations under one agent id, the first without a time limit;     *)
(* two families with one tool each, two times.  A parent with everything,  *)
(* one with a family, a ceiling and an end, one that is not trusted, one   *)
(* that cannot be read; requests by name, family, glob and for everything. *)
(***************************************************************************)
EXTENDS Delegation

MCFamilies == {"file", "net"}
MCTools == {"read"}
MCTimes == {1, 2}

Pattern(f, t) == [family |-> f, tool |-> t]
Block(tools, risk, end, untrusted) ==
  [readable |-> TRUE, tools |-> tools, max_risk |-> risk,
   expires_at |-> end, untrusted |-> untrusted]
Unreadable == [Unlimited EXCEPT !.readable = FALSE]

MCParents == {Unlimited, Unreadable,
              Block({Pattern("file", Bare)}, 1, 1, FALSE),
              Block({Pattern("file", Glob), Pattern("net", "read")}, 2, NoEnd, FALSE),
              Block({Pattern("net", Bare)}, Inherit, 2, TRUE)}

MCRequests ==
  {Unlimited, Unreadable} \cup
  {Block(tools, risk, end, FALSE) :
     tools \in {{Pattern("file", Bare)}, {Pattern("file", Glob)},
                {Pattern("file", "read"), Pattern("net", Glob)}, {Every}},
     risk \in {Inherit, 2}, end \in {NoEnd, 2}}
=============================================================================
