----------------------------- MODULE EventMatch -----------------------------
(***************************************************************************)
(* event_index.py: how the pattern of a subscription matches the type of   *)
(* an event, and the index that finds the subscriptions of an event by the *)
(* first segment of their pattern.  A type or a pattern is the sequence of *)
(* its dot-separated segments.                                             *)
(***************************************************************************)
EXTENDS Lists, SequencesExt

Star == "*"

\* matches: ai[pi] is the segment of the type that the loop compares with segment pi of
\* the pattern, 0 if it has returned False.  A star leaves exactly as many segments of the
\* type as the pattern has behind it, and takes at least one.
Matches(pattern, actual) ==
    LET P == Len(pattern)
        A == Len(actual)
        ai[pi \in 1..P + 1] ==
            IF pi = 1 THEN 1
            ELSE LET at == ai[pi - 1]
                     end == A - P + pi
                 IN IF at \notin 1..A THEN 0
                    ELSE IF pattern[pi - 1] = Star THEN IF end > at THEN end ELSE 0
                    ELSE IF pattern[pi - 1] = actual[at] THEN at + 1 ELSE 0
    IN pattern = <<Star>> \/ (P <= A /\ ai[P + 1] = A + 1)

\* The documented rule for a pattern with one star: it stands for one or more segments.
MatchesRule(pattern, actual) ==
    IF Star \notin ToSet(pattern) THEN pattern = actual
    ELSE LET n == CHOOSE i \in DOMAIN pattern : pattern[i] = Star
         IN /\ Len(actual) >= Len(pattern)
            /\ \A i \in 1..n - 1 : actual[i] = pattern[i]
            /\ \A i \in n + 1..Len(pattern) : actual[Len(actual) - Len(pattern) + i] = pattern[i]

-----------------------------------------------------------------------------
(* EventIndex: a table of the listeners of each pattern, and the order in  *)
(* which the patterns were first registered.                               *)

\* d[x] = y, for a dict d.
Put(d, x, y) == [z \in DOMAIN d \cup {x} |-> IF z = x THEN y ELSE d[z]]

EmptyIndex == [listeners |-> <<>>, order |-> <<>>, next |-> 0]

AddListener(index, pattern, cb) ==
    IF pattern \in DOMAIN index.listeners
      THEN [index EXCEPT !.listeners[pattern] = Append(@, cb)]
      ELSE [listeners |-> Put(index.listeners, pattern, <<cb>>),
            order |-> Put(index.order, pattern, index.next), next |-> index.next + 1]

RemoveListener(index, pattern, cb) ==
    IF pattern \notin DOMAIN index.listeners THEN index
    ELSE LET rest == RemoveFirst(index.listeners[pattern], cb)
             others == DOMAIN index.listeners \ {pattern}
         IN IF rest # <<>> THEN [index EXCEPT !.listeners[pattern] = rest]
            ELSE [index EXCEPT !.listeners = Restrict(@, others), !.order = Restrict(@, others)]

\* The elements of S in the order of their numbers.
InOrderOf(S, order) ==
    CHOOSE s \in [1..Cardinality(S) -> S] :
        ToSet(s) = S /\ \A i, j \in 1..Cardinality(S) : i < j => order[s[i]] < order[s[j]]

\* match: only the buckets of the first segment and of "*" are looked at.
MatchIndex(index, type) ==
    LET hits == {p \in DOMAIN index.listeners :
                    Head(p) \in {Head(type), Star} /\ Matches(p, type)}
        sorted == InOrderOf(hits, index.order)
    IN Joined([n \in DOMAIN sorted |-> index.listeners[sorted[n]]])
=============================================================================
