------------------------------- MODULE Lists -------------------------------
(***************************************************************************)
(* The two ways in which the Python code builds a list from others, as     *)
(* recursive functions: a comprehension with a condition and a chain of    *)
(* extends.                                                                *)
(***************************************************************************)
EXTENDS Naturals, Sequences

\* [x for x in s if x in S]
Kept(s, S) ==
    LET kept[n \in 0..Len(s)] ==
            IF n = 0 THEN <<>>
            ELSE IF s[n] \in S THEN Append(kept[n - 1], s[n]) ELSE kept[n - 1]
    IN kept[Len(s)]

\* The elements of ss, each of them a list, one after the other.
Joined(ss) ==
    LET joined[n \in 0..Len(ss)] == IF n = 0 THEN <<>> ELSE joined[n - 1] \o ss[n]
    IN joined[Len(ss)]
=============================================================================
