--------------------------- MODULE MCCodingSession ---------------------------
(***************************************************************************)
(* Two lines, two files, one line of context.  The scripts are every       *)
(* alignment of up to two items, and longer ones: three changes, each      *)
(* kept apart from the next by two or three lines both sides share, so     *)
(* that a diff has one, two or three hunks.                                *)
(***************************************************************************)
EXTENDS CodingSession

MCLines == {"a", "b"}
MCFiles == {"f", "g"}
MCReplacements == {<<>>, <<"b", "a">>}

Items == [tag : Tags, line : MCLines]

Short == UNION {[1 .. n -> Items] : n \in 1 .. 2}

\* A change of one line, one that adds a line and one that drops one.
Changes == <<<<Item("-", "a"), Item("+", "b")>>, <<Item("+", "b")>>, <<Item("-", "a")>>>>
Shared(n) == [i \in 1 .. n |-> Item(" ", IF i = 2 THEN "a" ELSE "b")]

Swap == Changes[1]
Add1 == Changes[2]
Drop == Changes[3]

Long == {Changes[i] \o Shared(3) \o Changes[j] : i \in 1 .. 3, j \in 1 .. 3}
          \cup {Swap \o Shared(3) \o Swap \o Shared(3) \o Add1,
                Add1 \o Shared(3) \o Drop \o Shared(3) \o Swap,
                Add1 \o Shared(2) \o Drop}

MCScripts == {s \in Short \cup Long : IsScript(s)}
MCStaleScripts == {<<Item("-", "a"), Item("+", "b")>>, <<Item(" ", "b"), Item("+", "b")>>}

MCInitialTexts == [f \in MCFiles |->
  IF f = "f" THEN {OldText(s) : s \in MCScripts} ELSE {<<"a">>}]
=============================================================================
