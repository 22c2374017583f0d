---------------------------- MODULE Capabilities ----------------------------
(***************************************************************************)
(* Capability blocks (capability, delegation): what a certificate says of  *)
(* a call, and the block a child agent gets from its parent's block and    *)
(* the one asked for.  Pure operators on records.                          *)
(*                                                                         *)
(* A name is a family with a tool ("file.read") or a bare family           *)
(* ("file").  A pattern is such a text, or one whose tool is the glob      *)
(* "file.*", or Every ("*").  Other globs (a "?", part of a word) are left *)
(* out.  Risks are 1 (low) to 4 (critical), times are positive.            *)
(***************************************************************************)
EXTENDS Integers

CONSTANTS Families, Tools, Times

ASSUME TimesAssumption == Times \subseteq Nat \ {0}

Bare == "bare"
Glob == "*"

ASSUME ToolsAssumption == Bare \notin Tools /\ Glob \notin Tools

Names    == [family : Families, tool : Tools \cup {Bare}]
Every    == [family |-> Glob, tool |-> Glob]
Patterns == [family : Families, tool : Tools \cup {Bare, Glob}] \cup {Every}

Risks   == 1 .. 4
Inherit == 0           \* max_risk: no ceiling of its own
NoEnd   == 0           \* expires_at: none

Blocks == [readable   : BOOLEAN,  \* normalise found no problem
           tools      : SUBSET Patterns,
           max_risk   : {Inherit, 1, 2, 3},
           expires_at : Times \cup {NoEnd},
           untrusted  : BOOLEAN]

\* What normalise makes of no block at all.
Unlimited == [readable |-> TRUE, tools |-> {Every}, max_risk |-> Inherit,
              expires_at |-> NoEnd, untrusted |-> FALSE]

\* tool_allowed, on names and on the texts of patterns alike: plan_delegation
\* asks it of a pattern.
Covers(pattern, text) ==
  \/ pattern = Every
  \/ pattern = text
  \/ /\ pattern.family = text.family
     /\ \/ pattern.tool = Bare
        \/ pattern.tool = Glob /\ text.tool # Bare

ToolAllowed(text, patterns) == \E p \in patterns : Covers(p, text)

(***************************************************************************)
(* evaluate: one block's verdict on a call, from no statement to a denial. *)
(***************************************************************************)
Silent  == 0
Confirm == 1
Deny    == 2

Expired(block, now) == block.expires_at # NoEnd /\ block.expires_at =< now

TooRisky(block, risk) == block.max_risk # Inherit /\ risk > block.max_risk

Evaluate(block, name, risk, now) ==
  IF ~block.readable \/ block.untrusted THEN Confirm
  ELSE IF Expired(block, now) \/ ~ToolAllowed(name, block.tools) THEN Deny
  ELSE IF TooRisky(block, risk) THEN Confirm
  ELSE Silent

(***************************************************************************)
(* plan_delegation.                                                        *)
(***************************************************************************)
Stricter(limit, other) ==
  IF limit = 0 THEN other
  ELSE IF other = 0 THEN limit
  ELSE IF limit < other THEN limit ELSE other

\* A request for everything gets what the parent has; otherwise what is
\* asked for beyond the parent's tools is dropped.
ChildTools(parent, request) ==
  IF Every \in request.tools THEN parent.tools
  ELSE {p \in request.tools : ToolAllowed(p, parent.tools)}

\* Both blocks can be read and some tool is left.
Granted(parent, request) ==
  /\ parent.readable /\ request.readable
  /\ ChildTools(parent, request) # {}

\* Mutant: an end that was asked for replaces the parent's.
ChildBlockExtended(parent, request) ==
  [readable   |-> TRUE,
   tools      |-> ChildTools(parent, request),
   max_risk   |-> Stricter(parent.max_risk, request.max_risk),
   expires_at |-> IF request.expires_at # NoEnd THEN request.expires_at
                  ELSE parent.expires_at,
   untrusted  |-> parent.untrusted]

\* The child's trust is its parent's; the request's own is not looked at.
ChildBlock(parent, request) ==
  [readable   |-> TRUE,
   tools      |-> ChildTools(parent, request),
   max_risk   |-> Stricter(parent.max_risk, request.max_risk),
   expires_at |-> Stricter(parent.expires_at, request.expires_at),
   untrusted  |-> parent.untrusted]

\* A child is never freer than its parent: whatever the call, the verdict of
\* the child's block is at least as strict as the parent's.
NeverFreer(parent, child) ==
  \A name \in Names, risk \in Risks, now \in Times :
    Evaluate(child, name, risk, now) >= Evaluate(parent, name, risk, now)

\* A child is as bound as it was asked to be: "子能力 = 父能力 ∩ 请求" at the
\* head of delegation.  Refuted: a request that calls itself untrusted yields
\* a child that is not, and under an untrusted parent the request's denials
\* become confirmations.
AsAsked(request, child) ==
  \A name \in Names, risk \in Risks, now \in Times :
    Evaluate(child, name, risk, now) >= Evaluate(request, name, risk, now)
=============================================================================
